------------------------------ MODULE UserCopy ------------------------------
(***************************************************************************)
(* Copies between the kernel and user memory: copyout, copyin, copyinstr    *)
(* (kernel/vm.c), fetchaddr, fetchstr and argstr (kernel/syscall.c).        *)
(*                                                                         *)
(* A step is one turn of the loop, which handles what lies on one page.     *)
(* User memory is a function of virtual addresses: each page has a frame of *)
(* its own (Memory).  Addresses and sizes are uint64s modulo WORD.          *)
(* The byte at an address is its address, unless it is a nul; what copyout  *)
(* writes is "new".                                                         *)
(***************************************************************************)
EXTENDS Integers, Sequences, FiniteSetsExt

CONSTANTS PGSIZE,    \* bytes in a page
          NPAGES,    \* MAXVA / PGSIZE
          WORD,      \* 2^64
          IPSIZE,    \* sizeof(uint64), the bytes fetchaddr() reads
          MaxLen     \* bound: longest copy

UserCopyAssumption ==
  /\ \A n \in {PGSIZE, NPAGES, IPSIZE} : n \in Nat \ {0}
  /\ WORD \in Nat /\ WORD > (NPAGES * PGSIZE) + MaxLen /\ WORD % PGSIZE = 0 /\ MaxLen \in Nat

MAXVA == NPAGES * PGSIZE
VAs == 0..(MAXVA - 1)

\* How a page is mapped: not at all, without PTE_U, for reading, for writing.
Ptes == {"none", "kernel", "user", "userw"}

VARIABLES pte,      \* page table: page -> Ptes
          nuls,     \* addresses that hold a nul
          written,  \* addresses copyout() has written
          kbuf,     \* what was stored at dst: addresses, or "nul"
          c         \* the call: op, va, len (max), and the loop's locals

vars == <<pte, nuls, written, kbuf, c>>

Call(op, va, len) ==
  [op |-> op, va |-> va, len |-> len, cur |-> va, left |-> len, gotnul |-> FALSE,
   pc |-> "loop", ret |-> 0]

\* Mutant: only the start is compared.
Outside_start(addr, sz) == addr >= sz

\* fetchaddr()'s test against p->sz.
Outside(addr, sz) == addr >= sz \/ (addr + IPSIZE) % WORD > sz

Init ==
  /\ pte \in [0..(NPAGES - 1) -> Ptes]
  /\ written = {} /\ kbuf = <<>>
  /\ \/ /\ \E op \in {"copyout", "copyin"}, va \in 0..(WORD - 1), len \in 0..MaxLen : c = Call(op, va, len)
        /\ nuls = {}
     \/ /\ \E va \in 0..(WORD - 1), max \in 0..MaxLen : c = Call("copyinstr", va, max)
        /\ nuls \in SUBSET VAs
     \/ \* the pages below the size are mapped, all or all but the guard page
        /\ nuls = {}
        /\ \E va \in 0..(WORD - 1), sz \in 0..MAXVA :
             /\ \A g \in 0..(NPAGES - 1) : pte[g] # "none" <=> g * PGSIZE < sz
             /\ c = IF Outside(va, sz) THEN [Call("fetchaddr", va, sz) EXCEPT !.pc = "done", !.ret = -1]
                    ELSE [Call("fetchaddr", va, sz) EXCEPT !.left = IPSIZE]

PGROUNDDOWN(va) == va - (va % PGSIZE)
Page(va) == va \div PGSIZE

\* walkaddr(): a user page.
Readable(va) == va < MAXVA /\ pte[Page(va)] \in {"user", "userw"}

\* Mutant: a page that is mapped can be written.
Writable_mapped(va) == va < MAXVA /\ pte[Page(va)] # "none"

\* The test in copyout().
Writable(va) == va < MAXVA /\ pte[Page(va)] = "userw"

\* Mutant: the count is not cut at the end of the page.
Chunk_whole(n) == c.left

\* Bytes of this turn.
Chunk(n) == Min({PGSIZE - (n % PGSIZE), c.left})

Return(r) == c' = [c EXCEPT !.pc = "done", !.ret = r]

\* The loop goes on at the next page with n bytes fewer.
Advance(n) == [c EXCEPT !.left = @ - n, !.cur = (PGROUNDDOWN(@) + PGSIZE) % WORD]

copyout ==
  /\ c.op = "copyout" /\ c.pc = "loop"
  /\ IF c.left = 0 THEN Return(0) /\ UNCHANGED written
     ELSE IF ~Writable(PGROUNDDOWN(c.cur)) THEN Return(-1) /\ UNCHANGED written
     ELSE /\ written' = written \cup {c.cur + i : i \in 0..(Chunk(c.cur) - 1)}
          /\ c' = Advance(Chunk(c.cur))
  /\ UNCHANGED <<pte, nuls, kbuf>>

copyin ==
  /\ c.op \in {"copyin", "fetchaddr"} /\ c.pc = "loop"
  /\ IF c.left = 0 THEN Return(0) /\ UNCHANGED kbuf
     ELSE IF ~Readable(PGROUNDDOWN(c.cur)) THEN Return(-1) /\ UNCHANGED kbuf
     ELSE /\ kbuf' = kbuf \o [i \in 1..Chunk(c.cur) |-> c.cur + i - 1]
          /\ c' = Advance(Chunk(c.cur))
  /\ UNCHANGED <<pte, nuls, written>>

\* The bytes of the page up to the first nul, n at most; strings of addresses,
\* the nul among them.
Bytes(va, n) ==
  LET zeros == {i \in 1..n : va + i - 1 \in nuls}
  IN  [i \in 1..(IF zeros = {} THEN n ELSE Min(zeros)) |-> va + i - 1]

\* Mutant: bytes after a nul on an earlier page are taken too.
Stops_late == c.left = 0

\* The loop's condition.
Stops == c.gotnul \/ c.left = 0

copyinstr ==
  /\ c.op = "copyinstr" /\ c.pc = "loop"
  /\ IF Stops THEN Return(IF c.gotnul THEN 0 ELSE -1) /\ UNCHANGED kbuf
     ELSE IF ~Readable(PGROUNDDOWN(c.cur)) THEN Return(-1) /\ UNCHANGED kbuf
     ELSE LET b == Bytes(c.cur, Chunk(c.cur))
              found == b # <<>> /\ b[Len(b)] \in nuls
          IN  /\ kbuf' = kbuf \o b
              /\ c' = [Advance(IF found THEN Len(b) - 1 ELSE Len(b)) EXCEPT !.gotnul = found]
  /\ UNCHANGED <<pte, nuls, written>>

\* fetchstr(): strlen() of the buffer.
fetchstr(buf) == IF c.ret < 0 THEN -1 ELSE Len(buf) - 1

\* argstr().
argstr(buf) == fetchstr(buf)

Done == c.pc = "done" /\ UNCHANGED vars

Next == copyout \/ copyin \/ copyinstr \/ Done

Spec == Init /\ [][Next]_vars

-----------------------------------------------------------------------------
\* The shape of the state.
TypeOK ==
  /\ written \subseteq VAs
  /\ c.left \in 0..(MaxLen + IPSIZE) /\ c.cur \in 0..(WORD - 1) /\ c.pc \in {"loop", "done"}

Range_(n) == {(c.va + i) % WORD : i \in 0..(n - 1)}
User(va) == va \in VAs /\ pte[va \div PGSIZE] \in {"user", "userw"}
UserW(va) == va \in VAs /\ pte[va \div PGSIZE] = "userw"

\* No byte outside the user's writable pages, or outside the range, is ever
\* written, and no byte is read that the user could not read.
StaysInUserPages ==
  /\ \A va \in written : UserW(va) /\ va \in Range_(c.len)
  /\ \A i \in 1..Len(kbuf) : User(kbuf[i])

\* copyout() and copyin() succeed exactly when the whole range is the user's, and
\* have then moved exactly that range, in order, across any page boundaries.
CopiesRange ==
  c.pc = "done" =>
    /\ c.op = "copyout" => /\ c.ret = 0 <=> \A va \in Range_(c.len) : UserW(va)
                           /\ c.ret = 0 => written = Range_(c.len)
    /\ c.op = "copyin" => /\ c.ret = 0 <=> \A va \in Range_(c.len) : User(va)
                          /\ c.ret = 0 => kbuf = [i \in 1..c.len |-> c.va + i - 1]

\* fetchaddr() reads only below the process's size, whole words of user memory.
FetchesBelowSize ==
  c.op = "fetchaddr" /\ c.pc = "done" =>
    (c.ret = 0 <=> \A va \in c.va..(c.va + IPSIZE - 1) : va < c.len /\ User(va))

\* The first nul at or after the address, with user memory all the way to it.
StringAt(n) ==
  /\ c.va + n \in nuls
  /\ \A i \in 0..n : User(c.va + i) /\ (i < n => c.va + i \notin nuls)

\* copyinstr() succeeds exactly when the string and its nul fit in max bytes of
\* user memory, and has then stored exactly them; it never stores more than max.
CopiesString ==
  c.op = "copyinstr" =>
    /\ Len(kbuf) <= c.len
    /\ c.pc = "done" =>
         /\ c.ret = 0 <=> \E n \in 0..(c.len - 1) : StringAt(n)
         /\ c.ret = 0 => \A n \in 0..(c.len - 1) : StringAt(n) => kbuf = [i \in 1..(n + 1) |-> c.va + i - 1]

\* What the comment on argstr() says of its result.
ArgstrCountsNul == c.op = "copyinstr" /\ c.pc = "done" /\ c.ret = 0 => argstr(kbuf) = Len(kbuf)
=============================================================================
