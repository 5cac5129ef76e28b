------------------------------ MODULE MCMemory ------------------------------
(***************************************************************************)
(* Memory, for TLC: pages and page tables, copies to and from user memory,  *)
(* and the allocator of user programs.                                      *)
(*                                                                         *)
(* UserCopy has a page table that stands still during a copy, Umalloc an    *)
(* sbrk() that only moves the break; they share no variable with Memory.    *)
(* One of them moves in a behaviour, the others stay in an initial state.   *)
(* Memory comes twice: two processes with a small program, and one process  *)
(* with executables of several shapes.                                      *)
(***************************************************************************)
EXTENDS Integers, TLC

CONSTANTS Procs, Pages, NoPage, Levels, FAN, Unit, USERSTACK, MAXARG, MaxSize, MaxCalls,  \* of Memory
          PGSIZE, NPAGES, WORD, IPSIZE, MaxLen,       \* of UserCopy
          HEADER, CHUNK, TOP, Sizes                   \* of Umalloc

VARIABLES
  part,
  free, proc, job, calls, panic,
  pte, nuls, written, kbuf, c,
  h, alloc, asked

\* A segment.
Seg(vaddr, memsz, filesz) == [vaddr |-> vaddr, memsz |-> memsz, filesz |-> filesz]

OneProgram == {<<Seg(0, 1, 1)>>}
FewDeltas == {-2, 4}

\* One segment with a bss; a second one lower than the first; an empty one; a
\* wrong alignment after a good one.
MCPrograms == {<<Seg(0, 3, 2)>>, <<Seg(2, 1, 1), Seg(0, 2, 2)>>, <<Seg(0, 0, 0)>>, <<Seg(0, 2, 2), Seg(3, 1, 1)>>}
MCDeltas == {-5, -2, -1, 1, 3}

M == INSTANCE Memory WITH Programs <- OneProgram, Deltas <- FewDeltas
E == INSTANCE Memory WITH Programs <- MCPrograms, Deltas <- MCDeltas, Procs <- {1}, Pages <- 1..16,
                          Levels <- 3, FAN <- 3, MAXARG <- 3, MaxSize <- 9, MaxCalls <- 5
U == INSTANCE UserCopy
H == INSTANCE Umalloc

ASSUME MCAssumption ==
  M!MemoryAssumption /\ E!MemoryAssumption /\ U!UserCopyAssumption /\ H!UmallocAssumption

memory == <<free, proc, job, calls, panic>>
copy == <<pte, nuls, written, kbuf, c>>
heap == <<h, alloc, asked>>

Init ==
  /\ part \in {"procs", "exec", "copy", "heap"}
  /\ IF part = "exec" THEN E!Init ELSE M!Init
  /\ part # "copy" =>
       pte = [g \in 0..(NPAGES - 1) |-> "none"] /\ nuls = {} /\ c = U!Call("copyin", 0, 0)
  /\ U!Init /\ H!Init

Next ==
  /\ UNCHANGED part
  /\ \/ part = "procs" /\ M!Next /\ UNCHANGED <<copy, heap>>
     \/ part = "exec" /\ E!Next /\ UNCHANGED <<copy, heap>>
     \/ part = "copy" /\ U!Next /\ UNCHANGED <<memory, heap>>
     \/ part = "heap" /\ H!Next /\ UNCHANGED <<memory, copy>>

Spec == Init /\ [][Next]_<<part, memory, copy, heap>>

-----------------------------------------------------------------------------
\* Every page is free or has exactly one owner (see Memory).
PagesConserved == (part = "procs" => M!PagesConserved) /\ (part = "exec" => E!PagesConserved)

\* A copy between kernel and user moves the whole range or string, or fails (see
\* UserCopy).
CopiesRight == U!CopiesRange /\ U!CopiesString /\ U!FetchesBelowSize

\* Free and allocated blocks do not overlap (see Umalloc).
NoOverlap == H!NoOverlap
=============================================================================
