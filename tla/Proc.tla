-------------------------------- MODULE Proc --------------------------------
(***************************************************************************)
(* Processes, CPUs and the process table of kernel/proc.c: the per-CPU     *)
(* scheduler loop, sched() and swtch(), preemption, fork, exit, wait,      *)
(* kill, sleep and wakeup.                                                 *)
(*                                                                         *)
(* Every step is a step of one CPU, which runs either its scheduler or the *)
(* process it has switched to.  p->lock and wait_lock are explicit, since  *)
(* both are held across other lock operations and p->lock is handed        *)
(* between a process and a scheduler by swtch().  A region that holds one  *)
(* lock and takes no other is one step.  A CPU that holds a lock has its   *)
(* interrupts off and is never preempted.                                  *)
(*                                                                         *)
(* Left out: memory, files and cwd of a process, exit status, pid wrap.    *)
(***************************************************************************)
EXTENDS Integers, FiniteSets

CONSTANTS NPROC,     \* slots of the process table; slot 0 is initproc
          CPUS,      \* harts
          KillPids,  \* arguments of kill() that are explored
          MaxPid     \* fork() is not called once nextpid exceeds this

ASSUME ProcAssumption == /\ NPROC \in Nat \ {0}
                         /\ IsFiniteSet(CPUS) /\ CPUS \intersect Int = {}
                         /\ KillPids \subseteq Nat
                         /\ MaxPid \in Nat

Slots == 0..(NPROC - 1)
initproc == 0
None == -1            \* a null struct proc pointer
Free == -1            \* a lock nobody holds

VARIABLES
  state, pid, parent, chan, killed,  \* fields of proc[s]
  nextpid,                           \* next pid to hand out
  lock,                              \* lock[s]: CPU that holds proc[s].lock
  wait_lock,                         \* CPU that holds wait_lock
  cproc,                             \* c->proc
  ctx,        \* "sched": in scheduler(); "resume": just switched to cproc;
              \* "proc": running cproc
  sidx,       \* slot the scheduler loop of each CPU is at
  pc,         \* where each process is when it runs
  idx,        \* its loop index in allocproc, wait, kill or wakeup
  arg,        \* pid to kill, slot forked, chan to wake up
  havekids,   \* wait()'s local variable
  targets     \* history: pids that kill() or a fault was aimed at

pvars == <<pc, idx, arg, havekids>>
tvars == <<state, pid, parent, chan, killed, nextpid>>
lvars == <<lock, wait_lock>>
cvars == <<cproc, ctx, sidx>>
vars == <<tvars, lvars, cvars, pvars, targets>>

Init ==
  /\ state = [s \in Slots |-> IF s = initproc THEN "RUNNABLE" ELSE "UNUSED"]
  /\ pid = [s \in Slots |-> IF s = initproc THEN 1 ELSE 0]
  /\ parent = [s \in Slots |-> None]
  /\ chan = [s \in Slots |-> None]
  /\ killed = [s \in Slots |-> FALSE]
  /\ nextpid = 2
  /\ lock = [s \in Slots |-> Free]
  /\ wait_lock = Free
  /\ cproc = [c \in CPUS |-> None]
  /\ ctx = [c \in CPUS |-> "sched"]
  /\ sidx = [c \in CPUS |-> 0]
  /\ pc = [s \in Slots |-> "user"]
  /\ idx = [s \in Slots |-> 0]
  /\ arg = [s \in Slots |-> 0]
  /\ havekids = [s \in Slots |-> FALSE]
  /\ targets = {}

(***************************************************************************)
(* Scheduling.                                                             *)
(***************************************************************************)
\* CPU c runs process code at program point l.
At(c, l) == ctx[c] = "proc" /\ pc[cproc[c]] = l

Goto(p, l) == pc' = [pc EXCEPT ![p] = l]

\* scheduler(): look at one slot; switch to it if it is RUNNABLE.
scheduler(c) ==
  LET s == sidx[c] IN
  /\ ctx[c] = "sched" /\ cproc[c] = None
  /\ lock[s] = Free
  /\ IF state[s] = "RUNNABLE"
     THEN /\ lock' = [lock EXCEPT ![s] = c]
          /\ state' = [state EXCEPT ![s] = "RUNNING"]
          /\ cproc' = [cproc EXCEPT ![c] = s]
          /\ ctx' = [ctx EXCEPT ![c] = "resume"]
          /\ UNCHANGED sidx
     ELSE /\ sidx' = [sidx EXCEPT ![c] = (s + 1) % NPROC]
          /\ UNCHANGED <<lock, state, cproc, ctx>>
  /\ UNCHANGED <<pid, parent, chan, killed, nextpid, wait_lock, pvars, targets>>

\* Mutant: the scan runs past the end of the table.
scheduler_back_past(c) ==
  LET s == sidx[c] IN
  /\ ctx[c] = "sched" /\ cproc[c] # None
  /\ cproc' = [cproc EXCEPT ![c] = None]
  /\ lock' = [lock EXCEPT ![s] = Free]
  /\ sidx' = [sidx EXCEPT ![c] = s + 1]
  /\ UNCHANGED <<tvars, wait_lock, ctx, pvars, targets>>

\* Mutant: the scan starts over at the front after every process run.
scheduler_back_first(c) ==
  LET s == sidx[c] IN
  /\ ctx[c] = "sched" /\ cproc[c] # None
  /\ cproc' = [cproc EXCEPT ![c] = None]
  /\ lock' = [lock EXCEPT ![s] = Free]
  /\ sidx' = [sidx EXCEPT ![c] = 0]
  /\ UNCHANGED <<tvars, wait_lock, ctx, pvars, targets>>

\* scheduler() after swtch() returns: the process is done running for now.
scheduler_back(c) ==
  LET s == sidx[c] IN
  /\ ctx[c] = "sched" /\ cproc[c] # None
  /\ cproc' = [cproc EXCEPT ![c] = None]
  /\ lock' = [lock EXCEPT ![s] = Free]
  /\ sidx' = [sidx EXCEPT ![c] = (s + 1) % NPROC]
  /\ UNCHANGED <<tvars, wait_lock, ctx, pvars, targets>>

\* The end of yield(), sleep() or the start of forkret(): tidy up chan and
\* release p->lock, taken by the scheduler.
resume(c) ==
  LET p == cproc[c] IN
  /\ ctx[c] = "resume"
  /\ ctx' = [ctx EXCEPT ![c] = "proc"]
  /\ lock' = [lock EXCEPT ![p] = Free]
  /\ chan' = [chan EXCEPT ![p] = None]
  /\ UNCHANGED <<state, pid, parent, killed, nextpid, wait_lock, cproc, sidx,
                 pvars, targets>>

\* Mutant: p->lock is not kept across swtch().
SwitchOut_unlocked(c, st) ==
  LET p == cproc[c] IN
  /\ lock[p] = Free
  /\ state' = [state EXCEPT ![p] = st]
  /\ ctx' = [ctx EXCEPT ![c] = "sched"]
  /\ UNCHANGED lock

\* acquire(&p->lock), a new state, and sched(): back to the scheduler with
\* p->lock held.
SwitchOut(c, st) ==
  LET p == cproc[c] IN
  /\ lock[p] = Free
  /\ lock' = [lock EXCEPT ![p] = c]
  /\ state' = [state EXCEPT ![p] = st]
  /\ ctx' = [ctx EXCEPT ![c] = "sched"]

\* Program points with interrupts on, in user space or in the kernel.
Preemptible == {"user", "yield", "sysret", "fork", "fork_parent", "fork_run",
                "wait", "kill", "exit", "panic"}

\* yield() from a timer interrupt that finds the CPU in the kernel.
yield(c) ==
  /\ ctx[c] = "proc" /\ pc[cproc[c]] \in Preemptible \ {"user"}
  /\ SwitchOut(c, "RUNNABLE")
  /\ Goto(cproc[c], IF At(c, "yield") THEN "user" ELSE pc[cproc[c]])
  /\ UNCHANGED <<pid, parent, chan, killed, nextpid, wait_lock, cproc, sidx,
                 idx, arg, havekids, targets>>

(***************************************************************************)
(* Traps from user space.                                                  *)
(***************************************************************************)
\* Enter program point l unless the process has been killed.
UnlessKilled(p, l) ==
  /\ lock[p] = Free
  /\ Goto(p, IF killed[p] THEN "exit" ELSE l)

Calls == {"fork", "wait", "kill", "exit"}

\* A system call: usertrap() checks killed(), then dispatches.
syscall(c, call, a) ==
  LET p == cproc[c] IN
  /\ At(c, "user")
  /\ call = "fork" => nextpid <= MaxPid
  /\ a \in (IF call = "kill" THEN KillPids ELSE {0})
  /\ UnlessKilled(p, call)
  /\ arg' = [arg EXCEPT ![p] = a]
  /\ idx' = [idx EXCEPT ![p] = 0]
  /\ UNCHANGED <<tvars, lvars, cvars, havekids, targets>>

\* A timer interrupt in user space.
timer(c) ==
  /\ At(c, "user")
  /\ UnlessKilled(cproc[c], "yield")
  /\ UNCHANGED <<tvars, lvars, cvars, idx, arg, havekids, targets>>

\* An unexpected exception in user space: setkilled().
fault(c) ==
  LET p == cproc[c] IN
  /\ At(c, "user")
  /\ lock[p] = Free
  /\ killed' = [killed EXCEPT ![p] = TRUE]
  /\ targets' = targets \union {pid[p]}
  /\ Goto(p, "sysret")
  /\ UNCHANGED <<state, pid, parent, chan, nextpid, lvars, cvars, idx, arg,
                 havekids>>

\* The way back to user space.
usertrapret(c) ==
  LET p == cproc[c] IN
  /\ At(c, "sysret")
  /\ UnlessKilled(p, "user")
  /\ arg' = [arg EXCEPT ![p] = 0]
  /\ idx' = [idx EXCEPT ![p] = 0]
  /\ havekids' = [havekids EXCEPT ![p] = FALSE]
  /\ UNCHANGED <<tvars, lvars, cvars, targets>>

(***************************************************************************)
(* fork().                                                                 *)
(***************************************************************************)
\* Mutant: the counter is not advanced.
allocpid_stuck == UNCHANGED nextpid

\* allocpid(): every pid is handed out once.
allocpid == nextpid' = nextpid + 1

\* Mutant: the killed mark stays in the freed slot.
freeproc_marked(s) ==
  /\ pid' = [pid EXCEPT ![s] = 0]
  /\ parent' = [parent EXCEPT ![s] = None]
  /\ chan' = [chan EXCEPT ![s] = None]
  /\ state' = [state EXCEPT ![s] = "UNUSED"]
  /\ UNCHANGED killed

\* The fields freeproc() resets.
freeproc(s) ==
  /\ pid' = [pid EXCEPT ![s] = 0]
  /\ parent' = [parent EXCEPT ![s] = None]
  /\ chan' = [chan EXCEPT ![s] = None]
  /\ killed' = [killed EXCEPT ![s] = FALSE]
  /\ state' = [state EXCEPT ![s] = "UNUSED"]

\* allocproc() looks at one slot; if it is UNUSED, fork() fills it in, or
\* runs out of memory and frees it again.
allocproc(c) ==
  LET p == cproc[c]
      s == idx[p] IN
  /\ At(c, "fork")
  /\ IF s = NPROC
     THEN Goto(p, "sysret") /\ UNCHANGED <<tvars, idx, arg>>
     ELSE /\ lock[s] = Free
          /\ IF state[s] # "UNUSED"
             THEN /\ idx' = [idx EXCEPT ![p] = s + 1]
                  /\ UNCHANGED <<tvars, pc, arg>>
             ELSE /\ allocpid
                  /\ \/ /\ pid' = [pid EXCEPT ![s] = nextpid]
                        /\ state' = [state EXCEPT ![s] = "USED"]
                        /\ pc' = [pc EXCEPT ![p] = "fork_parent", ![s] = "user"]
                        /\ arg' = [arg EXCEPT ![p] = s, ![s] = 0]
                        /\ idx' = [idx EXCEPT ![s] = 0]
                        /\ UNCHANGED <<parent, chan, killed>>
                     \/ /\ freeproc(s)
                        /\ Goto(p, "sysret")
                        /\ UNCHANGED <<arg, idx>>
  /\ UNCHANGED <<lvars, cvars, havekids, targets>>

fork_parent(c) ==
  LET p == cproc[c] IN
  /\ At(c, "fork_parent")
  /\ wait_lock = Free
  /\ parent' = [parent EXCEPT ![arg[p]] = p]
  /\ Goto(p, "fork_run")
  /\ UNCHANGED <<state, pid, chan, killed, nextpid, lvars, cvars, idx, arg,
                 havekids, targets>>

fork_run(c) ==
  LET p == cproc[c] IN
  /\ At(c, "fork_run")
  /\ lock[arg[p]] = Free
  /\ state' = [state EXCEPT ![arg[p]] = "RUNNABLE"]
  /\ Goto(p, "sysret")
  /\ UNCHANGED <<pid, parent, chan, killed, nextpid, lvars, cvars, idx, arg,
                 havekids, targets>>

(***************************************************************************)
(* exit().                                                                 *)
(***************************************************************************)
\* Mutant: the scan for children misses the last slot.
Children_short(p) == {s \in 0..(NPROC - 2) : parent[s] = p}

Children(p) == {s \in Slots : parent[s] = p}

\* A loop over the table comes to s before the other slots of S.
ComesFirst(s, S) == \A t \in S : s <= t

\* Start of exit(): init panics, spinning in the kernel for ever.
exit(c) ==
  LET p == cproc[c] IN
  /\ At(c, "exit")
  /\ IF p = initproc
     THEN Goto(p, "panic") /\ UNCHANGED wait_lock
     ELSE /\ wait_lock = Free
          /\ wait_lock' = c
          /\ Goto(p, "reparent")
  /\ UNCHANGED <<tvars, lock, cvars, idx, arg, havekids, targets>>

\* Mutant: exit() wakes its own channel, not its parent's.
reparent_self(c) ==
  LET p == cproc[c] IN
  /\ At(c, "reparent")
  /\ IF Children(p) # {}
     THEN /\ \E s \in Children(p) :
               ComesFirst(s, Children(p)) /\ parent' = [parent EXCEPT ![s] = initproc]
          /\ arg' = [arg EXCEPT ![p] = initproc]
          /\ Goto(p, "wake_init")
     ELSE /\ arg' = [arg EXCEPT ![p] = p]
          /\ Goto(p, "wake_parent")
          /\ UNCHANGED parent
  /\ idx' = [idx EXCEPT ![p] = 0]
  /\ UNCHANGED <<state, pid, chan, killed, nextpid, lvars, cvars, havekids,
                 targets>>

\* reparent() hands the next child to init and goes to wake init up; when no
\* child is left, exit() goes to wake its parent up.
reparent(c) ==
  LET p == cproc[c] IN
  /\ At(c, "reparent")
  /\ IF Children(p) # {}
     THEN /\ \E s \in Children(p) :
               ComesFirst(s, Children(p)) /\ parent' = [parent EXCEPT ![s] = initproc]
          /\ arg' = [arg EXCEPT ![p] = initproc]
          /\ Goto(p, "wake_init")
     ELSE /\ arg' = [arg EXCEPT ![p] = parent[p]]
          /\ Goto(p, "wake_parent")
          /\ UNCHANGED parent
  /\ idx' = [idx EXCEPT ![p] = 0]
  /\ UNCHANGED <<state, pid, chan, killed, nextpid, lvars, cvars, havekids,
                 targets>>

\* wakeup(arg): one slot per step, each under its p->lock.
wakeup(c) ==
  LET p == cproc[c]
      s == idx[p] IN
  /\ At(c, "wake_init") \/ At(c, "wake_parent")
  /\ IF s = NPROC
     THEN /\ Goto(p, IF At(c, "wake_init") THEN "reparent" ELSE "zombie")
          /\ UNCHANGED <<state, idx>>
     ELSE /\ s # p => lock[s] = Free
          /\ state' = [state EXCEPT ![s] =
                         IF s # p /\ @ = "SLEEPING" /\ chan[s] = arg[p]
                         THEN "RUNNABLE" ELSE @]
          /\ idx' = [idx EXCEPT ![p] = s + 1]
          /\ UNCHANGED pc
  /\ UNCHANGED <<pid, parent, chan, killed, nextpid, lvars, cvars, arg,
                 havekids, targets>>

\* End of exit(): become a zombie, release wait_lock, never run again.
zombie(c) ==
  LET p == cproc[c] IN
  /\ At(c, "zombie")
  /\ SwitchOut(c, "ZOMBIE")
  /\ wait_lock' = Free
  /\ Goto(p, "dead")
  /\ arg' = [arg EXCEPT ![p] = 0]
  /\ idx' = [idx EXCEPT ![p] = 0]
  /\ havekids' = [havekids EXCEPT ![p] = FALSE]
  /\ UNCHANGED <<pid, parent, chan, killed, nextpid, cproc, sidx, targets>>

(***************************************************************************)
(* wait().                                                                 *)
(***************************************************************************)
wait(c) ==
  LET p == cproc[c] IN
  /\ At(c, "wait")
  /\ wait_lock = Free
  /\ wait_lock' = c
  /\ idx' = [idx EXCEPT ![p] = 0]
  /\ havekids' = [havekids EXCEPT ![p] = FALSE]
  /\ Goto(p, "scan")
  /\ UNCHANGED <<tvars, lock, cvars, arg, targets>>

ChildrenLeft(p) == {s \in Children(p) : s >= idx[p]}

\* The scan reaches the next child and takes its lock; a zombie is freed,
\* unless copyout() of its status fails.
wait_child(c) ==
  LET p == cproc[c] IN
  /\ At(c, "scan")
  /\ \E s \in ChildrenLeft(p) :
       /\ ComesFirst(s, ChildrenLeft(p))
       /\ lock[s] = Free
       /\ idx' = [idx EXCEPT ![p] = s + 1]
       /\ IF state[s] = "ZOMBIE"
          THEN /\ freeproc(s) \/ UNCHANGED <<pid, parent, chan, killed, state>>
               /\ wait_lock' = Free
               /\ Goto(p, "sysret")
          ELSE UNCHANGED <<pid, parent, chan, killed, state, wait_lock, pc>>
  /\ havekids' = [havekids EXCEPT ![p] = TRUE]
  /\ UNCHANGED <<nextpid, lock, cvars, arg, targets>>

\* The scan found no zombie: give up, or go to sleep.
wait_end(c) ==
  LET p == cproc[c] IN
  /\ At(c, "scan") /\ ChildrenLeft(p) = {}
  /\ havekids[p] => lock[p] = Free
  /\ IF ~havekids[p] \/ killed[p]
     THEN wait_lock' = Free /\ Goto(p, "sysret")
     ELSE UNCHANGED wait_lock /\ Goto(p, "sleep")
  /\ UNCHANGED <<tvars, lock, cvars, idx, arg, havekids, targets>>

\* Mutant: the condition lock is not given up.
sleep_holding(c) ==
  LET p == cproc[c] IN
  /\ At(c, "sleep")
  /\ SwitchOut(c, "SLEEPING")
  /\ chan' = [chan EXCEPT ![p] = p]
  /\ Goto(p, "wait")
  /\ UNCHANGED <<pid, parent, killed, nextpid, wait_lock, cproc, sidx, idx,
                 arg, havekids, targets>>

\* sleep(p, &wait_lock); once awake the loop starts over under wait_lock.
sleep(c) ==
  LET p == cproc[c] IN
  /\ At(c, "sleep")
  /\ SwitchOut(c, "SLEEPING")
  /\ wait_lock' = Free
  /\ chan' = [chan EXCEPT ![p] = p]
  /\ Goto(p, "wait")
  /\ UNCHANGED <<pid, parent, killed, nextpid, cproc, sidx, idx, arg,
                 havekids, targets>>

(***************************************************************************)
(* kill().                                                                 *)
(***************************************************************************)
kill(c) ==
  LET p == cproc[c]
      s == idx[p] IN
  /\ At(c, "kill")
  /\ IF s = NPROC
     THEN Goto(p, "sysret") /\ UNCHANGED <<killed, state, idx, targets>>
     ELSE /\ lock[s] = Free
          /\ IF pid[s] = arg[p]
             THEN /\ killed' = [killed EXCEPT ![s] = TRUE]
                  /\ state' = [state EXCEPT ![s] =
                                 IF @ = "SLEEPING" THEN "RUNNABLE" ELSE @]
                  /\ targets' = targets \union {arg[p]}
                  /\ Goto(p, "sysret")
                  /\ UNCHANGED idx
             ELSE /\ idx' = [idx EXCEPT ![p] = s + 1]
                  /\ UNCHANGED <<killed, state, targets, pc>>
  /\ UNCHANGED <<pid, parent, chan, nextpid, lvars, cvars, arg, havekids>>

Step(c) ==
  \/ scheduler(c) \/ scheduler_back(c) \/ resume(c)
  \/ yield(c) \/ timer(c) \/ fault(c)
  \/ \E call \in Calls, a \in KillPids \union {0} : syscall(c, call, a)
  \/ usertrapret(c)
  \/ allocproc(c) \/ fork_parent(c) \/ fork_run(c)
  \/ exit(c) \/ reparent(c) \/ wakeup(c) \/ zombie(c)
  \/ wait(c) \/ wait_child(c) \/ wait_end(c) \/ sleep(c)
  \/ kill(c)

Next == \E c \in CPUS : Step(c)

Spec == Init /\ [][Next]_vars

(***************************************************************************)
(* Fairness.  A CPU in scheduler() goes on; a running process goes on with *)
(* the kernel call it is in; the timer keeps striking in preemptible code, *)
(* except in a panic, which may spin with interrupts off.                  *)
(* Strong fairness, because a step that waits for a spinlock is enabled    *)
(* only now and then: amoswap lets no spinning CPU lose for ever.          *)
(***************************************************************************)
SchedStep(c) == scheduler(c) \/ scheduler_back(c) \/ resume(c)

KernelStep(c) ==
  \/ usertrapret(c) \/ allocproc(c) \/ fork_parent(c) \/ fork_run(c)
  \/ exit(c) \/ reparent(c) \/ wakeup(c) \/ zombie(c)
  \/ wait(c) \/ wait_child(c) \/ wait_end(c) \/ sleep(c) \/ kill(c)

Tick(c) == timer(c) \/ (~At(c, "panic") /\ yield(c))

Fairness ==
  /\ \A c \in CPUS : SF_vars(SchedStep(c)) /\ SF_vars(Tick(c))
  /\ \A p \in Slots : SF_vars(\E c \in CPUS : cproc[c] = p /\ KernelStep(c))

LiveSpec == Spec /\ Fairness
-----------------------------------------------------------------------------
(***************************************************************************)
(* Properties.                                                             *)
(***************************************************************************)
PCs == Preemptible \union {"reparent", "wake_init", "wake_parent", "zombie",
                           "scan", "sleep", "dead"}

\* Type invariant; every loop index stays within the process table.
TypeOK ==
  /\ state \in [Slots -> {"UNUSED", "USED", "SLEEPING", "RUNNABLE",
                          "RUNNING", "ZOMBIE"}]
  /\ pid \in [Slots -> Nat]
  /\ parent \in [Slots -> Slots \union {None}]
  /\ chan \in [Slots -> Slots \union {None}]
  /\ killed \in [Slots -> BOOLEAN]
  /\ nextpid \in Nat
  /\ lock \in [Slots -> CPUS \union {Free}]
  /\ wait_lock \in CPUS \union {Free}
  /\ cproc \in [CPUS -> Slots \union {None}]
  /\ ctx \in [CPUS -> {"sched", "resume", "proc"}]
  /\ sidx \in [CPUS -> Slots]
  /\ pc \in [Slots -> PCs]
  /\ idx \in [Slots -> 0..NPROC]
  /\ arg \in [Slots -> Nat]
  /\ havekids \in [Slots -> BOOLEAN]
  /\ targets \subseteq Nat

\* A process, and its kernel stack, is on at most one CPU; it is on one
\* exactly while RUNNING, or while a CPU is still switching away from it
\* with its lock held.  So no slot is freed, reused or scheduled elsewhere
\* while a CPU is on its stack.
StackExclusive ==
  /\ \A c, d \in CPUS : cproc[c] # None /\ cproc[c] = cproc[d] => c = d
  /\ \A s \in Slots :
        state[s] = "RUNNING" => \E c \in CPUS : cproc[c] = s
  /\ \A c \in CPUS : cproc[c] # None =>
        \/ state[cproc[c]] = "RUNNING" /\ ctx[c] # "sched"
        \/ ctx[c] = "sched" /\ lock[cproc[c]] = c

\* The lock discipline of swtch(): a CPU inside scheduler() holds the lock
\* of the process it comes back from and nothing else (the "sched locks"
\* panic), and a process between two kernel calls holds nothing.
LockHandoff ==
  \A c \in CPUS :
    LET held == {s \in Slots : lock[s] = c} IN
    /\ held = (IF ctx[c] = "proc" \/ cproc[c] = None THEN {}
               ELSE {cproc[c]})
    /\ wait_lock = c <=>
         /\ ctx[c] = "proc"
         /\ pc[cproc[c]] \notin Preemptible

\* The parent of a process that can run or be waited for is a live process:
\* never a free slot, never a zombie.  So every zombie has somebody who can
\* still reap it.
ParentAlive ==
  \A s \in Slots \ {initproc} :
    state[s] \in {"RUNNABLE", "RUNNING", "SLEEPING", "ZOMBIE"} =>
      /\ parent[s] # None
      /\ state[parent[s]] \in {"RUNNABLE", "RUNNING", "SLEEPING"}

\* No lost wakeup between exit() and wait(): when wait_lock is free, a
\* process asleep in wait() has a child, and none of its children is a
\* zombie already.
NoLostExit ==
  wait_lock = Free =>
    \A p \in Slots : state[p] = "SLEEPING" =>
      /\ Children(p) # {}
      /\ \A s \in Children(p) : state[s] # "ZOMBIE"

\* Live processes have different pids, all below nextpid.
PidsUnique ==
  \A s, t \in Slots :
    /\ state[s] # "UNUSED" => pid[s] \in 1..(nextpid - 1)
    /\ state[s] # "UNUSED" /\ state[t] # "UNUSED" /\ pid[s] = pid[t] => s = t

\* Only the process a kill() or a fault was aimed at is killed: the mark
\* never outlives its process into the next user of the slot.
KilledWasTargeted ==
  \A s \in Slots :
    state[s] # "UNUSED" /\ killed[s] => pid[s] \in targets

\* The round-robin scan of scheduler() reaches every RUNNABLE process, however
\* the others are forked, preempted and woken up, unless init panics.
RunnableRuns ==
  \A s \in Slots : state[s] = "RUNNABLE" ~>
                     state[s] # "RUNNABLE" \/ pc[initproc] = "panic"

\* exit() always gets through wait_lock, the wakeups and its own lock, and
\* leaves a zombie.
ExitCompletes ==
  \A s \in Slots \ {initproc} :
    pc[s] = "exit" ~> state[s] = "ZOMBIE" \/ pc[initproc] = "panic"

\* wait() by the parent of a zombie returns: whether the child exited before,
\* during or after the scan, or was inherited by init.
WaitReturns ==
  \A p \in Slots :
    LET waiting == pc[p] \in {"wait", "scan", "sleep"} IN
    waiting /\ (\E s \in Children(p) : state[s] = "ZOMBIE") ~>
      ~waiting \/ pc[initproc] = "panic"
=============================================================================
