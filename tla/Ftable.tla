------------------------------- MODULE Ftable -------------------------------
(***************************************************************************)
(* The file table and descriptors: filealloc(), filedup(), fileclose()      *)
(* (kernel/file.c), fdalloc(), sys_dup, sys_close, sys_pipe and the file    *)
(* part of sys_open (kernel/sysfile.c), pipealloc() and pipeclose()         *)
(* (kernel/pipe.c), and what fork() and exit() do with descriptors.         *)
(*                                                                         *)
(* A step is a critical section of ftable.lock or of a pipe's lock, with    *)
(* the code after it that touches only the process itself.  Every failure   *)
(* the code handles may happen: no slot, no descriptor, no page, a bad user *)
(* address.  The content of files and pipes is in Content and Pipe.         *)
(***************************************************************************)
EXTENDS Naturals, Sequences, FiniteSets, FiniteSetsExt, SequencesExt

CONSTANTS Procs,    \* processes
          First,    \* the one that runs at the start
          NFILE,    \* slots of the table, 1..NFILE
          NOFILE,   \* descriptors of a process, 1..NOFILE
          Pages,    \* the pages pipes can have
          NoPage    \* no page

FtableAssumption ==
  /\ First \in Procs /\ NoPage \notin Pages /\ NFILE \in Nat /\ NOFILE \in Nat

VARIABLES
  file,     \* slots: ref, type, and the pipe and the end it is
  pipe,     \* pages of pipes: allocated, and the two open flags
  iref,     \* references to an inode that open files and calls hold
  pr,       \* processes: descriptors, and the call in progress
  panicked  \* filedup() or fileclose() met a count below one

vars == <<file, pipe, iref, pr, panicked>>

Slots == 1..NFILE
Fds   == 1..NOFILE
NoPipe == [alloc |-> FALSE, readopen |-> FALSE, writeopen |-> FALSE]
Empty  == [ref |-> 0, type |-> "none", page |-> NoPage, writable |-> FALSE]

\* A process between calls: "mine" are the slots it refers to other than by a
\* descriptor, "todo" those of them it has yet to close, "ff" fileclose's copy.
Idle(live, ofile) == [pc |-> "idle", live |-> live, ofile |-> ofile,
                      mine |-> <<>>, todo |-> <<>>, ff |-> Empty, put |-> FALSE]
NoFiles == [d \in Fds |-> 0]

Init ==
  /\ file = [s \in Slots |-> Empty]
  /\ pipe = [g \in Pages |-> NoPipe]
  /\ iref = 0
  /\ pr = [p \in Procs |-> Idle(p = First, NoFiles)]
  /\ panicked = FALSE

-----------------------------------------------------------------------------
\* filealloc(): the first slot without references, 0 if there is none.
FreeSlot == LET free == {s \in Slots : file[s].ref = 0}
            IN IF free = {} THEN 0 ELSE Min(free)

\* fdalloc(): the first free descriptor, 0 if there is none.
FreeFd(ofile) == LET free == {d \in Fds : ofile[d] = 0}
                 IN IF free = {} THEN 0 ELSE Min(free)

\* Go on to close the slots s, then finish the call.
Closing(v, s) == [v EXCEPT !.pc = "close", !.todo = s, !.mine = s]

-----------------------------------------------------------------------------
(***************************************************************************)
(* sys_open: the inode is referenced, a slot and a descriptor are found.    *)
(***************************************************************************)

\* Mutant: fileclose is not called for the slot that got no descriptor.
OpenFailed_slot(v, s) == [v EXCEPT !.pc = "close"]

\* filealloc or fdalloc failed: the slot, if there is one, is closed.
OpenFailed(v, s) == IF s = 0 THEN [v EXCEPT !.pc = "close"] ELSE Closing(v, <<s>>)

sys_open(p) ==
  LET v == pr[p]
      s == FreeSlot
      d == FreeFd(v.ofile)
  IN
  /\ v.pc = "idle" /\ v.live
  /\ iref' = iref + 1
  /\ \/ /\ s # 0 /\ d # 0
        /\ file' = [file EXCEPT ![s] = [@ EXCEPT !.ref = 1, !.type = "inode"]]
        /\ pr' = [pr EXCEPT ![p].ofile[d] = s]
     \/ /\ s = 0 \/ d = 0
        /\ file' = IF s = 0 THEN file ELSE [file EXCEPT ![s].ref = 1]
        /\ pr' = [pr EXCEPT ![p] = [OpenFailed(v, s) EXCEPT !.put = TRUE]]
  /\ UNCHANGED <<pipe, panicked>>

-----------------------------------------------------------------------------
(***************************************************************************)
(* sys_pipe and pipealloc().                                                *)
(***************************************************************************)

\* filealloc(), twice; on failure what was got is closed.
pipealloc(p) ==
  LET v == pr[p]
      s == FreeSlot
  IN
  /\ v.live
  /\ v.pc = "idle" \/ (v.pc = "pipe" /\ Len(v.mine) = 1)
  /\ \/ /\ s # 0
        /\ file' = [file EXCEPT ![s].ref = 1]
        /\ pr' = [pr EXCEPT ![p].pc = "pipe", ![p].mine = Append(@, s)]
     \/ /\ s = 0
        /\ pr' = [pr EXCEPT ![p] = Closing(v, v.mine)]
        /\ UNCHANGED file
  /\ UNCHANGED <<pipe, iref, panicked>>

\* Mutant: the descriptor of the read end is left behind.
PipeFds_left(ofile, d0, d1) == ofile

\* The descriptors after a failure of sys_pipe.
PipeFds(ofile, d0, d1) == [d \in Fds |-> IF d \in {d0, d1} THEN 0 ELSE ofile[d]]

\* kalloc() and the setting up of both ends, or the failure of kalloc; then
\* sys_pipe: two descriptors, and the copy of them to the user.
sys_pipe(p) ==
  LET v == pr[p]
      rf == v.mine[1]
      wf == v.mine[2]
      d0 == FreeFd(v.ofile)
      o1 == IF d0 = 0 THEN v.ofile ELSE [v.ofile EXCEPT ![d0] = rf]
      d1 == IF d0 = 0 THEN 0 ELSE FreeFd(o1)
      o2 == IF d1 = 0 THEN o1 ELSE [o1 EXCEPT ![d1] = wf]
  IN
  /\ v.pc = "pipe" /\ Len(v.mine) = 2
  /\ \/ /\ pr' = [pr EXCEPT ![p] = Closing(v, v.mine)]      \* kalloc failed
        /\ UNCHANGED <<file, pipe>>
     \/ \E g \in {h \in Pages : ~pipe[h].alloc} :
          /\ pipe' = [pipe EXCEPT ![g] = [alloc |-> TRUE, readopen |-> TRUE,
                                          writeopen |-> TRUE]]
          /\ file' = [file EXCEPT ![rf].type = "pipe", ![rf].page = g, ![rf].writable = FALSE,
                                  ![wf].type = "pipe", ![wf].page = g, ![wf].writable = TRUE]
          /\ \/ /\ d0 # 0 /\ d1 # 0
                /\ pr' = [pr EXCEPT ![p] = Idle(TRUE, o2)]
             \/ pr' = [pr EXCEPT ![p] = [Closing(v, v.mine) EXCEPT
                                           !.ofile = PipeFds(o2, d0, d1)]]
  /\ UNCHANGED <<iref, panicked>>

-----------------------------------------------------------------------------
(***************************************************************************)
(* sys_dup, sys_close, fork(), exit().                                      *)
(***************************************************************************)

\* filedup() of the slots in the descriptors D of p; a count below one panics.
filedup(D, ofile) ==
  /\ file' = [s \in Slots |->
               [file[s] EXCEPT !.ref = @ + Cardinality({d \in D : ofile[d] = s})]]
  /\ panicked' = \E d \in D : ofile[d] # 0 /\ file[ofile[d]].ref < 1

\* Mutant: the count is not raised.
dup_count(d) == {}

\* The descriptors whose files sys_dup counts once more.
dup_counted(d) == {d}

sys_dup(p) ==
  \E d \in Fds :
    /\ pr[p].pc = "idle" /\ pr[p].live
    /\ pr[p].ofile[d] # 0 /\ FreeFd(pr[p].ofile) # 0
    /\ pr' = [pr EXCEPT ![p].ofile[FreeFd(pr[p].ofile)] = pr[p].ofile[d]]
    /\ filedup(dup_counted(d), pr[p].ofile)
    /\ UNCHANGED <<pipe, iref>>

sys_close(p) ==
  \E d \in Fds :
    /\ pr[p].pc = "idle" /\ pr[p].live
    /\ pr[p].ofile[d] # 0
    /\ pr' = [pr EXCEPT ![p] = [Closing(@, <<pr[p].ofile[d]>>) EXCEPT !.ofile[d] = 0]]
    /\ UNCHANGED <<file, pipe, iref, panicked>>

\* fork(): the child has the same files; np is not running yet.
fork(p) ==
  \E q \in Procs :
    /\ pr[p].pc = "idle" /\ pr[p].live
    /\ pr[q].pc = "idle" /\ ~pr[q].live
    /\ pr' = [pr EXCEPT ![q] = Idle(TRUE, pr[p].ofile)]
    /\ filedup(Fds, pr[p].ofile)
    /\ UNCHANGED <<pipe, iref>>

\* exit() closes every descriptor in turn.
exit(p) ==
  LET open == SelectSeq([d \in Fds |-> pr[p].ofile[d]], LAMBDA s : s # 0) IN
  /\ pr[p].pc = "idle" /\ pr[p].live
  /\ \E q \in Procs \ {p} : pr[q].live      \* init does not exit
  /\ pr' = [pr EXCEPT ![p] = Closing(Idle(FALSE, NoFiles), open)]
  /\ UNCHANGED <<file, pipe, iref, panicked>>

-----------------------------------------------------------------------------
(***************************************************************************)
(* fileclose() and pipeclose().                                             *)
(***************************************************************************)

\* Mutant: the slot keeps its type.
Closed_type(f) == [f EXCEPT !.ref = 0]

\* The slot after its last reference went.
Closed(f) == Empty

\* Mutant: the object is let go at every close.
LastOne_any(s) == TRUE

LastOne(s) == file[s].ref = 1

\* The critical section: the last reference empties the slot, and leaves a copy.
fileclose(p) ==
  LET v == pr[p]
      s == Head(v.todo)
  IN
  /\ v.pc = "close" /\ v.todo # <<>> /\ v.ff = Empty
  /\ panicked' = (file[s].ref < 1)
  /\ file' = [file EXCEPT ![s] = IF @.ref = 1 THEN Closed(@) ELSE [@ EXCEPT !.ref = @ - 1]]
  /\ pr' = [pr EXCEPT ![p].todo = Tail(@), ![p].mine = Tail(v.todo),
                      ![p].ff = IF LastOne(s) THEN [file[s] EXCEPT !.ref = 0] ELSE Empty]
  /\ UNCHANGED <<pipe, iref>>

\* Mutant: the page is freed with the first end.
BothClosed_one(P) == ~P.readopen \/ ~P.writeopen

BothClosed(P) == ~P.readopen /\ ~P.writeopen

\* pipeclose(): one end is closed, and the page freed with the second.
pipeclose(P, writable) ==
  LET Q == IF writable THEN [P EXCEPT !.writeopen = FALSE] ELSE [P EXCEPT !.readopen = FALSE]
  IN [Q EXCEPT !.alloc = ~BothClosed(Q)]

\* After the critical section: the object the slot referred to is let go.
fileclose_object(p) ==
  LET ff == pr[p].ff IN
  /\ pr[p].pc = "close" /\ ff # Empty
  /\ pipe' = IF ff.type = "pipe" THEN [pipe EXCEPT ![ff.page] = pipeclose(@, ff.writable)]
             ELSE pipe
  /\ iref' = IF ff.type = "inode" THEN iref - 1 ELSE iref
  /\ pr' = [pr EXCEPT ![p].ff = Empty]
  /\ UNCHANGED <<file, panicked>>

\* The call returns; sys_open's failure has its own iunlockput.
Return(p) ==
  /\ pr[p].pc = "close" /\ pr[p].todo = <<>> /\ pr[p].ff = Empty
  /\ iref' = IF pr[p].put THEN iref - 1 ELSE iref
  /\ pr' = [pr EXCEPT ![p] = Idle(@.live, @.ofile)]
  /\ UNCHANGED <<file, pipe, panicked>>

Next ==
  /\ ~panicked
  /\ \E p \in Procs :
       \/ sys_open(p) \/ pipealloc(p) \/ sys_pipe(p) \/ sys_dup(p) \/ sys_close(p)
       \/ fork(p) \/ exit(p) \/ fileclose(p) \/ fileclose_object(p) \/ Return(p)

Spec == Init /\ [][Next]_vars

-----------------------------------------------------------------------------
(***************************************************************************)
(* Properties.                                                              *)
(***************************************************************************)

\* The shape of the state; no reference count is negative.
TypeOK ==
  /\ \A s \in Slots : file[s].ref \in Nat /\ file[s].type \in {"none", "pipe", "inode"}
  /\ iref \in Nat
  /\ \A p \in Procs : pr[p].ofile \in [Fds -> 0..NFILE] /\ pr[p].mine \in Seq(Slots)

Count(q, s) == Cardinality({i \in DOMAIN q : q[i] = s})

\* A slot's count is the number of descriptors, of all processes, and of
\* references of calls in progress that lead to it, through every failure of
\* open and pipe and every interleaving with fork and exit.
RefExact ==
  \A s \in Slots :
    file[s].ref = FoldSet(LAMBDA p, n : n + Count(pr[p].ofile, s) + Count(pr[p].mine, s),
                           0, Procs)

\* A descriptor always leads to a slot in use that says what it is open on.
DescriptorsUsable ==
  \A p \in Procs, d \in Fds :
    LET s == pr[p].ofile[d] IN s # 0 => file[s].ref > 0 /\ file[s].type # "none"

\* What leads to the object x: slots in use, and slots just emptied by fileclose.
Users(x(_)) == {s \in Slots : file[s].ref > 0 /\ x(file[s])}
Pending(x(_)) == {p \in Procs : x(pr[p].ff)}

\* An end of a pipe is open exactly while a slot is that end (or fileclose is
\* about to close it), by one slot only, and the page is allocated exactly
\* while an end is: no page leaks, none is freed under a user.
PipeEnds ==
  \A g \in Pages :
    LET R(f) == f.page = g /\ ~f.writable
        W(f) == f.page = g /\ f.writable
        n == Cardinality(Users(R)) + Cardinality(Pending(R))
        k == Cardinality(Users(W)) + Cardinality(Pending(W))
    IN /\ n = (IF pipe[g].readopen THEN 1 ELSE 0)
       /\ k = (IF pipe[g].writeopen THEN 1 ELSE 0)
       /\ pipe[g].alloc = (n + k > 0)

\* The inode has one reference for each slot open on it, for each close that is
\* about to iput it, and for each open that failed and has not yet returned.
InodeRefs ==
  LET I(f) == f.type = "inode"
  IN iref = Cardinality(Users(I)) + Cardinality(Pending(I))
              + Cardinality({p \in Procs : pr[p].put})

\* filedup and fileclose never meet a slot without references.
NoPanic == ~panicked
=============================================================================
