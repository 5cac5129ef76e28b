------------------------------- MODULE Memory -------------------------------
(***************************************************************************)
(* Physical pages, page tables and the calls that build and destroy address *)
(* spaces: kalloc.c, vm.c, exec.c, and allocproc, freeproc, userinit,       *)
(* growproc, fork, exit and wait of proc.c, sys_exec and sys_ps.            *)
(*                                                                         *)
(* A step holds at most one kalloc(), so that another process can take the  *)
(* last page between any two.  A call's kfree()s cannot fail and are one     *)
(* step.  Which free page kalloc() returns does not matter: the lowest.     *)
(*                                                                         *)
(* A page table is two functions.  tab gives the page of each table of the  *)
(* tree, named by its level and the address bits above it; map gives the    *)
(* leaves: page, user bit, and the contents of the page, which no other     *)
(* table maps.  Sizes are in units of PGSIZE / Unit.  Files, locks and the  *)
(* order in which wait() finds zombies are elsewhere (FsCalls, Proc).       *)
(***************************************************************************)
EXTENDS Integers, Sequences, FiniteSets, FiniteSetsExt, Functions, TLC

CONSTANTS Procs,       \* slots of the process table, numbers
          Pages,       \* physical pages, numbers
          NoPage,      \* the null pointer
          Levels,      \* levels of a page table: 3
          FAN,         \* entries of a table: 512
          Unit,        \* units in a page
          USERSTACK,   \* pages of user stack
          MAXARG,      \* most arguments of exec and ps
          Programs,    \* executable files: sequences of segments
          Deltas,      \* arguments of sbrk(), in units
          MaxSize,     \* bound: no sbrk() above this size
          MaxCalls     \* bound: calls in a behaviour

MemoryAssumption ==
  /\ Procs \subseteq Nat /\ Pages \subseteq Nat /\ NoPage \notin Pages
  /\ \A n \in {Levels, FAN, Unit, USERSTACK, MAXARG, MaxSize, MaxCalls} : n \in Nat \ {0}
  /\ Deltas \subseteq Int
  /\ Cardinality(Pages) <= FAN ^ Levels      \* memory ends before addresses do
  /\ Cardinality(Pages) >= (2 * Levels) + 1  \* enough to boot

VARIABLES free,    \* kmem.freelist
          proc,    \* per slot: state, page table, size, trapframe page
          job,     \* per slot: the call in progress and its locals
          calls,   \* calls begun
          panic    \* the kernel has panicked

vars == <<free, proc, job, calls, panic>>

TRAMPOLINE == (FAN ^ Levels) - 1
TRAPFRAME == TRAMPOLINE - 1

NoTable == [tab |-> <<>>, map |-> <<>>]
NoJob == [pc |-> "user", call |-> "none", child |-> NoPage, pt |-> NoTable, tf |-> NoPage,
          sz |-> 0, reqs |-> <<>>, mem |-> NoPage, args |-> {}, nargs |-> 0, op |-> FALSE, segs |-> <<>>,
          ok |-> TRUE]
Unused == [state |-> "UNUSED", pt |-> NoTable, sz |-> 0, tf |-> NoPage]

\* kinit() and freerange(): every page is freed once.
Init ==
  /\ free = Pages
  /\ proc = [p \in Procs |-> Unused]
  /\ job = [p \in Procs |-> NoJob]
  /\ calls = 0
  /\ panic = FALSE

PGROUNDUP(n) == ((n + Unit - 1) \div Unit) * Unit

\* The pages from byte lo up to byte hi, both rounded up.
PagesOf(lo, hi) == {va \in 0..TRAMPOLINE : va >= PGROUNDUP(lo) \div Unit /\ va < PGROUNDUP(hi) \div Unit}

-----------------------------------------------------------------------------
(* Page tables. *)

\* The tables below the root on the way to va: what walk() visits.
Node(level, va) == <<level, va \div (FAN ^ level)>>
Path(va) == {Node(level, va) : level \in 1..Levels}
Missing(pt, va) == Path(va) \ DOMAIN pt.tab

\* Mutant: the leaves are cleared but their pages are not freed.
LeafPages_kept(pt, vas) == {}

\* The pages uvmunmap() frees with do_free.
LeafPages(pt, vas) == {pt.map[va].pa : va \in vas \cap DOMAIN pt.map}

\* uvmunmap(): every page must be mapped.
Unmap(pt, vas) == [pt EXCEPT !.map = Restrict(@, DOMAIN @ \ vas)]
UnmapPanics(pt, vas) == ~(vas \subseteq DOMAIN pt.map)

\* The pages freewalk() frees.
TablePages(pt) == Range(pt.tab)

Special == {TRAMPOLINE, TRAPFRAME}

\* proc_freepagetable(): what it frees, and whether it panics: a page that is not
\* mapped (uvmunmap) or one that is left over (freewalk).
FreedWith(pt, sz) == LeafPages(pt, PagesOf(0, sz)) \cup TablePages(pt)
FreePanics(pt, sz) == DOMAIN pt.map # Special \cup PagesOf(0, sz)

-----------------------------------------------------------------------------
(* Building an address space: reqs are the mappings still to make. *)

\* Mutant: the new page is not cleared.
Fresh_junk == "junk"

\* kalloc() fills a page with junk, uvmalloc() clears it.
Fresh == "zero"

Req(va, pa, u, c) == [va |-> va, pa |-> pa, u |-> u, c |-> c]

\* uvmalloc() from oldsz to newsz.
Grow(oldsz, newsz) ==
  LET n == PGROUNDUP(oldsz) \div Unit
  IN  [i \in 1..Cardinality(PagesOf(oldsz, newsz)) |-> Req(n + i - 1, NoPage, TRUE, Fresh)]

\* proc_pagetable(): the trampoline is kernel text and the trapframe is freed
\* apart; neither is a page that a table owns.
NotOwned == -1
Special_reqs == <<Req(TRAMPOLINE, NotOwned, FALSE, "code"), Req(TRAPFRAME, NotOwned, FALSE, "regs")>>

\* Mutant: every page of the child is a user page.
Copy_user(pt, sz) == [i \in 1..Cardinality(PagesOf(0, sz)) |-> Req(i - 1, NoPage, TRUE, pt.map[i - 1].c)]

\* uvmcopy().
Copy(pt, sz) ==
  [i \in 1..Cardinality(PagesOf(0, sz)) |-> Req(i - 1, NoPage, pt.map[i - 1].u, pt.map[i - 1].c)]

Head_(p) == Head(job[p].reqs)
NeedsPage(p) == Head_(p).pa = NoPage /\ job[p].mem = NoPage
Building(p) == job[p].pc \in {"pagetable", "uvmcopy", "uvmfirst", "uvmalloc", "seg", "stack"} /\ job[p].reqs # <<>>

\* The call p has in progress goes on with the new locals j.
Goes(p, j) == job' = [job EXCEPT ![p] = j]

\* kalloc() of a user page.
build_page(p) ==
  /\ Building(p) /\ NeedsPage(p) /\ free # {}
  /\ Goes(p, [job[p] EXCEPT !.mem = Min(free)])
  /\ free' = free \ {Min(free)}
  /\ UNCHANGED <<proc, panic>>

\* walk() with alloc: the highest missing table.
build_table(p) ==
  /\ Building(p) /\ ~NeedsPage(p) /\ free # {}
  /\ LET missing == Missing(job[p].pt, Head_(p).va)
         node == CHOOSE n \in missing : \A m \in missing : m[1] <= n[1]
     IN  /\ missing # {}
         /\ Goes(p, [job[p] EXCEPT !.pt.tab = @ @@ (node :> Min(free))])
  /\ free' = free \ {Min(free)}
  /\ UNCHANGED <<proc, panic>>

\* mappages() sets the leaf.
build_leaf(p) ==
  /\ Building(p) /\ ~NeedsPage(p)
  /\ LET r == Head_(p)
         pa == IF r.pa = NoPage THEN job[p].mem ELSE r.pa
     IN  /\ Missing(job[p].pt, r.va) = {}
         /\ panic' = (panic \/ r.va \in DOMAIN job[p].pt.map)
         /\ Goes(p, [job[p] EXCEPT !.pt.map = @ @@ (r.va :> [pa |-> pa, u |-> r.u, c |-> r.c]),
                                   !.mem = NoPage, !.reqs = Tail(@)])
  /\ UNCHANGED <<free, proc>>

-----------------------------------------------------------------------------
(* The ends of a call. *)

Mem(p) == {job[p].mem} \ {NoPage}
Tf(r) == {r.tf} \ {NoPage}

\* Mutant: the pages of the arguments are forgotten.
ArgPages_kept(p) == {}

\* The argument pages sys_exec() and sys_ps() free at their end.
ArgPages(p) == job[p].args

\* Mutant: a failed exec() leaves its transaction open.
EndsOp_not(p) == job[p].op

\* exec() at bad: iunlockput() and end_op() when the file is still open.
EndsOp(p) == FALSE

\* The call of p fails having freed the pages gone.
Fails(p, gone) ==
  /\ Goes(p, [NoJob EXCEPT !.ok = FALSE, !.op = EndsOp(p)])
  /\ free' = free \cup gone \cup Mem(p) \cup ArgPages(p)

\* Mutant: the pages uvmalloc() mapped before it failed stay.
Dealloc_not(pt, sz) == {}

\* What uvmalloc() unmaps when it fails: the pages above sz.
Dealloc(pt, sz) == DOMAIN pt.map \ (Special \cup PagesOf(0, sz))

\* growproc(): uvmdealloc() takes back what was mapped.
grow_fails(p) ==
  LET vas == Dealloc(job[p].pt, proc[p].sz)
  IN  /\ Fails(p, LeafPages(job[p].pt, vas))
      /\ proc' = [proc EXCEPT ![p].pt = Unmap(job[p].pt, vas)]
      /\ UNCHANGED panic

\* fork() and userinit(): freeproc(np).  After proc_pagetable() failed there is
\* no page table; after uvmcopy() failed its pages are unmapped and sz is 0.
fork_fails(p) ==
  LET pt == job[p].pt
      copied == DOMAIN pt.map \ Special
  IN  /\ Fails(p, LeafPages(pt, copied) \cup TablePages(pt) \cup Tf(job[p]))
      /\ proc' = [proc EXCEPT ![job[p].child] = Unused]
      /\ panic' = (panic \/ (job[p].pc = "uvmcopy" /\ FreePanics(Unmap(pt, copied), 0)))

\* exec() at bad.
exec_fails(p) ==
  LET pt == job[p].pt
      up == Dealloc(pt, job[p].sz)
      building == job[p].pc \in {"args", "root", "pagetable"}
  IN  /\ Fails(p, LeafPages(pt, up) \cup (IF building THEN TablePages(pt)
                                          ELSE FreedWith(Unmap(pt, up), job[p].sz)))
      /\ panic' = (panic \/ (~building /\ FreePanics(Unmap(pt, up), job[p].sz)))
      /\ UNCHANGED proc

\* The step of p needs a page and there is none.
Starved(p) ==
  /\ free = {}
  /\ \/ Building(p) /\ (NeedsPage(p) \/ Missing(job[p].pt, Head_(p).va) # {})
     \/ job[p].pc \in {"trapframe", "root"}
     \/ job[p].pc = "args" /\ Cardinality(job[p].args) < job[p].nargs

out_of_memory(p) ==
  /\ Starved(p)
  /\ \/ job[p].call = "sbrk" /\ grow_fails(p)
     \/ job[p].call = "fork" /\ fork_fails(p)
     \/ job[p].call \in {"exec", "ps"} /\ exec_fails(p)

-----------------------------------------------------------------------------
(* allocproc(), fork(), userinit(). *)

\* A new process: the lowest unused slot.
allocproc(p, j) ==
  LET unused == {q \in Procs : proc[q].state = "UNUSED"}
  IN  IF unused = {}
      THEN Fails(p, {}) /\ UNCHANGED <<proc, panic>>
      ELSE LET np == Min(unused)
           IN  /\ Goes(p, [j EXCEPT !.pc = "trapframe", !.child = np])
               /\ proc' = [proc EXCEPT ![np].state = "USED"]
               /\ UNCHANGED <<free, panic>>

Idle(p) == proc[p].state = "RUNNING" /\ job[p].pc = "user"

\* At boot, in the name of the slot that becomes init.
userinit(p) ==
  /\ \A q \in Procs : proc[q].state = "UNUSED"
  /\ p = Min(Procs)
  /\ allocproc(p, [NoJob EXCEPT !.call = "userinit"])

fork(p) == Idle(p) /\ allocproc(p, [NoJob EXCEPT !.call = "fork"])

\* The trapframe page.
allocproc_trapframe(p) ==
  /\ job[p].pc = "trapframe" /\ free # {}
  /\ Goes(p, [job[p] EXCEPT !.tf = Min(free), !.pc = "root"])
  /\ free' = free \ {Min(free)}
  /\ UNCHANGED <<proc, panic>>

\* uvmcreate() in proc_pagetable().
uvmcreate(p) ==
  /\ job[p].pc = "root" /\ free # {}
  /\ Goes(p, [job[p] EXCEPT !.pt.tab = Node(Levels, 0) :> Min(free),
                            !.pc = "pagetable", !.reqs = Special_reqs])
  /\ free' = free \ {Min(free)}
  /\ UNCHANGED <<proc, panic>>

\* allocproc() returns to fork(), userinit() or (proc_pagetable only) exec().
pagetable_done(p) ==
  /\ job[p].pc = "pagetable" /\ job[p].reqs = <<>>
  /\ Goes(p, CASE job[p].call = "fork" -> [job[p] EXCEPT !.pc = "uvmcopy", !.reqs = Copy(proc[p].pt, proc[p].sz)]
               [] job[p].call = "userinit" -> [job[p] EXCEPT !.pc = "uvmfirst", !.reqs = Grow(0, Unit)]
               [] job[p].call = "exec" -> [job[p] EXCEPT !.pc = "load"])
  /\ UNCHANGED <<free, proc, panic>>

\* fork() and userinit() make the new process runnable.
fork_done(p) ==
  /\ job[p].pc \in {"uvmcopy", "uvmfirst"} /\ job[p].reqs = <<>>
  /\ proc' = [proc EXCEPT ![job[p].child] =
                [state |-> "RUNNING", pt |-> job[p].pt, tf |-> job[p].tf,
                 sz |-> IF job[p].call = "fork" THEN proc[p].sz ELSE Unit]]
  /\ Goes(p, NoJob)
  /\ UNCHANGED <<free, panic>>

-----------------------------------------------------------------------------
(* sbrk(). *)

\* Mutant: the size is set although uvmdealloc() frees nothing.
Shrunk_wraps(p, n) == proc[p].sz + n

\* The size uvmdealloc() returns: below zero is a huge unsigned number, and
\* nothing is done.
Shrunk(p, n) == IF proc[p].sz + n < 0 THEN proc[p].sz ELSE proc[p].sz + n

\* The pages uvmdealloc() unmaps.
Given(p, n) == IF proc[p].sz + n < 0 THEN {} ELSE PagesOf(proc[p].sz + n, proc[p].sz)

sys_sbrk(p, n) ==
  /\ Idle(p) /\ proc[p].sz + n <= MaxSize
  /\ IF n > 0
     THEN /\ Goes(p, [NoJob EXCEPT !.call = "sbrk", !.pc = "uvmalloc", !.pt = proc[p].pt,
                                   !.sz = proc[p].sz + n, !.reqs = Grow(proc[p].sz, proc[p].sz + n)])
          /\ UNCHANGED <<free, proc, panic>>
     ELSE /\ proc' = [proc EXCEPT ![p].pt = Unmap(@, Given(p, n)), ![p].sz = Shrunk(p, n)]
          /\ free' = free \cup LeafPages(proc[p].pt, Given(p, n))
          /\ panic' = (panic \/ UnmapPanics(proc[p].pt, Given(p, n)))
          /\ Goes(p, NoJob)

sbrk_done(p) ==
  /\ job[p].pc = "uvmalloc" /\ job[p].reqs = <<>>
  /\ proc' = [proc EXCEPT ![p].pt = job[p].pt, ![p].sz = job[p].sz]
  /\ Goes(p, NoJob)
  /\ UNCHANGED <<free, panic>>

-----------------------------------------------------------------------------
(* exec() and ps(). *)

\* sys_exec() and sys_ps(): n arguments, MAXARG or more are refused.
sys_exec(p, call, n) ==
  /\ Idle(p)
  /\ Goes(p, [NoJob EXCEPT !.call = call, !.pc = "args", !.nargs = n])
  /\ UNCHANGED <<free, proc, panic>>

\* kalloc() of the page of an argument; fetchaddr() or fetchstr() may then fail.
sys_exec_arg(p) ==
  /\ job[p].pc = "args" /\ free # {}
  /\ Cardinality(job[p].args) < Min({job[p].nargs, MAXARG})
  /\ Goes(p, [job[p] EXCEPT !.args = @ \cup {Min(free)}])
  /\ free' = free \ {Min(free)}
  /\ UNCHANGED <<proc, panic>>

sys_exec_bad(p) ==
  /\ job[p].pc = "args"
  /\ exec_fails(p)

\* ps() is read only; its pages are freed.
sys_ps_done(p) ==
  /\ job[p].pc = "args" /\ job[p].call = "ps" /\ Cardinality(job[p].args) = job[p].nargs
  /\ job[p].nargs < MAXARG
  /\ free' = free \cup ArgPages(p)
  /\ Goes(p, NoJob)
  /\ UNCHANGED <<proc, panic>>

\* exec() opens the file; it may be missing or not an executable.
exec_open(p) ==
  /\ job[p].pc = "args" /\ job[p].call = "exec" /\ Cardinality(job[p].args) = job[p].nargs
  /\ job[p].nargs < MAXARG
  /\ \E segs \in Programs : Goes(p, [job[p] EXCEPT !.pc = "root", !.op = TRUE, !.segs = segs])
  /\ UNCHANGED <<free, proc, panic>>

\* A goto bad that is not for want of memory: an unreadable or wrong header, a
\* short read of a segment, arguments that do not fit the stack.
exec_bad(p) ==
  /\ job[p].call = "exec"
  /\ \/ job[p].pc = "root"
     \/ job[p].pc \in {"load", "loadseg"} /\ job[p].segs # <<>>
     \/ job[p].pc = "push"
  /\ exec_fails(p)

\* The end of a segment in memory, and the size uvmalloc() returns for it.
SegEnd(s) == s.vaddr + s.memsz
SegSize(p, s) == IF SegEnd(s) < job[p].sz THEN job[p].sz ELSE SegEnd(s)

\* The header of the next segment: uvmalloc() begins.
exec_segment(p) ==
  /\ job[p].pc = "load" /\ job[p].segs # <<>>
  /\ LET s == Head(job[p].segs)
     IN  IF s.memsz < s.filesz \/ s.vaddr % Unit # 0 \/ SegSize(p, s) = 0
         THEN exec_fails(p)
         ELSE /\ Goes(p, [job[p] EXCEPT !.pc = "seg", !.reqs = Grow(job[p].sz, SegEnd(s))])
              /\ UNCHANGED <<free, proc, panic>>

\* uvmalloc() returns.
exec_grown(p) ==
  /\ job[p].pc = "seg" /\ job[p].reqs = <<>>
  /\ Goes(p, [job[p] EXCEPT !.pc = "loadseg", !.sz = SegSize(p, Head(job[p].segs))])
  /\ UNCHANGED <<free, proc, panic>>

\* loadseg().
exec_loadseg(p) ==
  /\ job[p].pc = "loadseg"
  /\ LET s == Head(job[p].segs)
         vas == PagesOf(s.vaddr, s.vaddr + s.filesz)
         map == job[p].pt.map
     IN  /\ panic' = (panic \/ UnmapPanics(job[p].pt, vas))
         /\ Goes(p, [job[p] EXCEPT !.pc = "load", !.segs = Tail(@),
                                   !.pt.map = [va \in DOMAIN map |->
                                      IF va \in vas THEN [map[va] EXCEPT !.c = "text"] ELSE map[va]]])
  /\ UNCHANGED <<free, proc>>

\* The file is closed; guard page and stack are allocated.
exec_stack(p) ==
  /\ job[p].pc = "load" /\ job[p].segs = <<>>
  /\ LET sz == PGROUNDUP(job[p].sz)
     IN  Goes(p, [job[p] EXCEPT !.pc = "stack", !.op = FALSE, !.sz = sz,
                                !.reqs = Grow(sz, sz + ((USERSTACK + 1) * Unit))])
  /\ UNCHANGED <<free, proc, panic>>

\* uvmclear() of the guard page.
exec_guard(p) ==
  /\ job[p].pc = "stack" /\ job[p].reqs = <<>>
  /\ Goes(p, [job[p] EXCEPT !.pc = "push", !.sz = @ + ((USERSTACK + 1) * Unit),
                            !.pt.map[job[p].sz \div Unit].u = FALSE])
  /\ UNCHANGED <<free, proc, panic>>

\* The arguments are pushed, and the new image replaces the old one.
exec_commit(p) ==
  /\ job[p].pc = "push"
  /\ proc' = [proc EXCEPT ![p].pt = [job[p].pt EXCEPT !.map[(job[p].sz \div Unit) - 1].c = "args"],
                          ![p].sz = job[p].sz]
  /\ free' = free \cup FreedWith(proc[p].pt, proc[p].sz) \cup ArgPages(p)
  /\ panic' = (panic \/ FreePanics(proc[p].pt, proc[p].sz))
  /\ Goes(p, NoJob)

-----------------------------------------------------------------------------
(* exit() and wait(). *)

exit(p) ==
  /\ Idle(p)
  /\ p # Min(Procs)                                      \* init does not exit
  /\ proc' = [proc EXCEPT ![p].state = "ZOMBIE"]
  /\ Goes(p, NoJob)
  /\ UNCHANGED <<free, panic>>

\* freeproc() of a zombie z, in wait().
wait(p, z) ==
  /\ Idle(p) /\ proc[z].state = "ZOMBIE"
  /\ free' = free \cup Tf(proc[z]) \cup FreedWith(proc[z].pt, proc[z].sz)
  /\ panic' = (panic \/ FreePanics(proc[z].pt, proc[z].sz))
  /\ proc' = [proc EXCEPT ![z] = Unused]
  /\ UNCHANGED job

Start(p) == \/ fork(p)
            \/ \E n \in Deltas : sys_sbrk(p, n)
            \/ \E n \in 0..MAXARG, call \in {"exec", "ps"} : sys_exec(p, call, n)
            \/ exit(p)
            \/ \E z \in Procs : wait(p, z)
Build(p) == build_page(p) \/ build_table(p) \/ build_leaf(p) \/ out_of_memory(p)
Fork(p) == userinit(p) \/ allocproc_trapframe(p) \/ uvmcreate(p) \/ pagetable_done(p) \/ fork_done(p)
Exec(p) == \/ sys_exec_arg(p) \/ sys_exec_bad(p) \/ sys_ps_done(p)
           \/ exec_open(p) \/ exec_bad(p) \/ exec_segment(p) \/ exec_grown(p)
           \/ exec_loadseg(p) \/ exec_stack(p) \/ exec_guard(p) \/ exec_commit(p)

\* The kernel has panicked, or the bound is reached and every call is over.
Done ==
  /\ panic \/ (calls = MaxCalls /\ \A p \in Procs : job[p].pc = "user")
  /\ UNCHANGED vars

Next ==
  \/ /\ ~panic
     /\ \E p \in Procs :
          \/ Start(p) /\ calls < MaxCalls /\ calls' = calls + 1
          \/ (Build(p) \/ Fork(p) \/ sbrk_done(p) \/ Exec(p)) /\ UNCHANGED calls
  \/ Done

Spec == Init /\ [][Next]_vars

-----------------------------------------------------------------------------
\* The shape of the state.
TypeOK ==
  /\ free \subseteq Pages
  /\ \A p \in Procs :
       /\ proc[p].state \in {"UNUSED", "USED", "RUNNING", "ZOMBIE"}
       /\ proc[p].sz \in 0..(MaxSize + (FAN ^ Levels) * Unit)
       /\ job[p].args \subseteq Pages

\* The page tables in use; while sbrk() runs p's own one is in its locals.
TableOf(p, k) ==
  CASE k = "job" -> job[p].pt
    [] k = "proc" -> IF job[p].call = "sbrk" THEN NoTable ELSE proc[p].pt

\* Everything that refers to a page.
Uses(pg) ==
  LET T == Procs \X {"job", "proc"}
  IN  (IF pg \in free THEN {<<"free">>} ELSE {})
      \cup UNION {{<<t, "tab", n>> : n \in {m \in DOMAIN TableOf(t[1], t[2]).tab : TableOf(t[1], t[2]).tab[m] = pg}} : t \in T}
      \cup UNION {{<<t, "map", v>> : v \in {w \in DOMAIN TableOf(t[1], t[2]).map : TableOf(t[1], t[2]).map[w].pa = pg}} : t \in T}
      \cup {<<p, "tf">> : p \in {q \in Procs : pg = proc[q].tf}}
      \cup {<<p, "local">> : p \in {q \in Procs : pg \in {job[q].tf, job[q].mem} \cup job[q].args}}

\* Every page is free or has exactly one owner, at every point of every call and
\* on every path out of it: nothing leaks, nothing is freed twice or while it is
\* mapped, and no two processes share a page.
PagesConserved == \A pg \in Pages : Cardinality(Uses(pg)) = 1

\* The size of a process says exactly which of its pages are mapped, which is
\* what uvmcopy(), uvmfree() and freewalk() rely on; none shows what kalloc() or
\* kfree() left in it.
ImageComplete ==
  \A p \in Procs : proc[p].state \in {"RUNNING", "ZOMBIE"} /\ job[p].call # "sbrk" =>
    /\ DOMAIN proc[p].pt.map = Special \cup PagesOf(0, proc[p].sz)
    /\ \A va \in DOMAIN proc[p].pt.map : proc[p].pt.map[va].c # "junk"

\* uvmunmap(), freewalk(), mappages() and loadseg() never panic.
NoPanic == ~panic

\* A failed exec() does not leave its inode locked or its transaction open.
ExecClosesFile == \A p \in Procs : job[p].pc = "user" => ~job[p].op

\* A step that ends a call with a failure leaves the image of its process as it
\* was: until then the call works on what it has in its locals.
FailureKeepsImage ==
  \A p \in Procs :
    proc[p].state = "RUNNING" /\ job[p].pc # "user" /\ job'[p].pc = "user" /\ ~job'[p].ok
      => proc'[p].sz = proc[p].sz /\ proc'[p].pt.map = proc[p].pt.map

\* The child of a fork() has its parent's memory: the same pages, contents and
\* protection, the guard page included.
ForkCopies ==
  [][\A p \in Procs : job[p].pc = "uvmcopy" /\ job'[p].pc = "user" /\ job'[p].ok =>
       LET old == proc[p].pt.map
           new == proc'[job[p].child].pt.map
       IN  /\ DOMAIN new = DOMAIN old
           /\ \A va \in DOMAIN old : new[va].u = old[va].u /\ new[va].c = old[va].c]_vars
=============================================================================
