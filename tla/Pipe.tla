-------------------------------- MODULE Pipe --------------------------------
(***************************************************************************)
(* One pipe of kernel/pipe.c and the processes that hold its ends.         *)
(*                                                                         *)
(* pi->lock is explicit and every iteration of the copy loops is a step:   *)
(* kill() takes p->lock only, so it strikes between any two of them.       *)
(* nread and nwrite are unsigned ints and wrap around at UINT.             *)
(***************************************************************************)
EXTENDS Integers, Sequences, FiniteSets

CONSTANTS Readers, Writers,  \* processes that hold the read, the write end
          Byte,              \* byte values
          PIPESIZE,
          UINT,              \* 2^32: unsigned int arithmetic is modulo UINT
          MaxN,              \* largest count passed to read() and write()
          Nobody             \* pi->lock is free

ASSUME PipeAssumption == /\ PIPESIZE \in Nat \ {0}
                         /\ UINT \in Nat /\ UINT % PIPESIZE = 0
                         /\ UINT > PIPESIZE
                         /\ MaxN \in Nat
                         /\ Readers \intersect Writers = {}
                         /\ Nobody \notin Readers \union Writers

Procs == Readers \union Writers

VARIABLES
  data, nread, nwrite, readopen, writeopen,  \* struct pipe
  lk,        \* holder of pi->lock
  freed,     \* the page of the pipe has been given back by kfree()
  holders,   \* processes whose descriptor is still open
  pc,        \* where each process is in its call
  i, n,      \* bytes copied, bytes asked for
  killed,
  stranded   \* history: bytes written by a call that was killed before it
             \* woke the readers

vars == <<data, nread, nwrite, readopen, writeopen, lk, freed, holders, pc,
          i, n, killed, stranded>>

pipe == <<data, nread, nwrite, readopen, writeopen>>

Goto(p, l) == pc' = [pc EXCEPT ![p] = l]

\* pipealloc(): the byte array of a fresh page holds anything.
Init ==
  /\ data \in [0..(PIPESIZE - 1) -> Byte]
  /\ nread = 0 /\ nwrite = 0
  /\ readopen = TRUE /\ writeopen = TRUE
  /\ lk = Nobody
  /\ freed = FALSE
  /\ holders = Procs
  /\ pc = [p \in Procs |-> "idle"]
  /\ i = [p \in Procs |-> 0]
  /\ n = [p \in Procs |-> 0]
  /\ killed = [p \in Procs |-> FALSE]
  /\ stranded = FALSE

\* wakeup(): the sleepers on one of the two channels become runnable; they
\* still have to take pi->lock again.
wakeup(pcs, asleep, awake) ==
  [p \in Procs |-> IF pcs[p] = asleep THEN awake ELSE pcs[p]]

\* Mutants: the wakeup is forgotten.
wakeup_nread_lost(pcs) == pcs
wakeup_nwrite_lost(pcs) == pcs

wakeup_nread(pcs) == wakeup(pcs, "rsleep", "read")
wakeup_nwrite(pcs) == wakeup(pcs, "wsleep", "write")

\* read() or write() of count bytes reaches the pipe.
Call(p, count) ==
  /\ pc[p] = "idle" /\ p \in holders /\ ~killed[p]
  /\ Goto(p, IF p \in Readers THEN "read" ELSE "write")
  /\ i' = [i EXCEPT ![p] = 0]
  /\ n' = [n EXCEPT ![p] = count]
  /\ UNCHANGED <<pipe, lk, freed, holders, killed, stranded>>

\* acquire(&pi->lock), at the start of a call or at the end of sleep().
acquire(p) ==
  /\ pc[p] \in {"read", "write"}
  /\ lk = Nobody
  /\ lk' = p
  /\ Goto(p, IF pc[p] = "read" THEN "rloop" ELSE "wloop")
  /\ UNCHANGED <<pipe, freed, holders, i, n, killed, stranded>>

\* Release pi->lock and return to the caller.
Return(p, pcs) ==
  /\ lk' = Nobody
  /\ pc' = [pcs EXCEPT ![p] = "idle"]
  /\ i' = [i EXCEPT ![p] = 0]
  /\ n' = [n EXCEPT ![p] = 0]

\* Mutant: one byte too many fits.
Full_late == nwrite = (nread + PIPESIZE + 1) % UINT

Full == nwrite = (nread + PIPESIZE) % UINT
Empty == nread = nwrite

(***************************************************************************)
(* pipewrite(): the test at the top of its loop, then the body.            *)
(***************************************************************************)
\* Mutant: the loop does not look at killed().
pipewrite_test_stubborn(p) ==
  /\ pc[p] = "wloop" /\ i[p] < n[p]
  /\ IF ~readopen
     THEN Return(p, pc) /\ stranded' = (stranded \/ i[p] > 0)
     ELSE Goto(p, "wbody") /\ UNCHANGED <<lk, i, n, stranded>>
  /\ UNCHANGED <<pipe, freed, holders, killed>>

\* The read end is closed or the writer killed: return -1 at once.
pipewrite_test(p) ==
  /\ pc[p] = "wloop" /\ i[p] < n[p]
  /\ IF ~readopen \/ killed[p]
     THEN Return(p, pc) /\ stranded' = (stranded \/ i[p] > 0)
     ELSE Goto(p, "wbody") /\ UNCHANGED <<lk, i, n, stranded>>
  /\ UNCHANGED <<pipe, freed, holders, killed>>

\* No room: wake the readers and sleep.
pipewrite_full(p) ==
  /\ pc[p] = "wbody" /\ Full
  /\ pc' = [wakeup_nread(pc) EXCEPT ![p] = "wsleep"]
  /\ lk' = Nobody
  /\ stranded' = FALSE
  /\ UNCHANGED <<pipe, freed, holders, i, n, killed>>

\* Mutant: the counter is wider than an unsigned int.
pipewrite_byte_wide(p, b) ==
  /\ pc[p] = "wbody" /\ ~Full
  /\ data' = [data EXCEPT ![nwrite % PIPESIZE] = b]
  /\ nwrite' = nwrite + 1
  /\ i' = [i EXCEPT ![p] = @ + 1]
  /\ Goto(p, "wloop")
  /\ UNCHANGED <<nread, readopen, writeopen, lk, freed, holders, n, killed,
                 stranded>>

pipewrite_byte(p, b) ==
  /\ pc[p] = "wbody" /\ ~Full
  /\ data' = [data EXCEPT ![nwrite % PIPESIZE] = b]
  /\ nwrite' = (nwrite + 1) % UINT
  /\ i' = [i EXCEPT ![p] = @ + 1]
  /\ Goto(p, "wloop")
  /\ UNCHANGED <<nread, readopen, writeopen, lk, freed, holders, n, killed,
                 stranded>>

\* Everything is written, or copyin() of the next byte fails.
pipewrite_end(p) ==
  /\ \/ pc[p] = "wloop" /\ i[p] = n[p]
     \/ pc[p] = "wbody" /\ ~Full
  /\ Return(p, wakeup_nread(pc))
  /\ stranded' = FALSE
  /\ UNCHANGED <<pipe, freed, holders, killed>>

(***************************************************************************)
(* piperead().                                                             *)
(***************************************************************************)
\* Mutant: the test of writeopen is the wrong way round.
piperead_test_inverted(p) ==
  /\ pc[p] = "rloop"
  /\ IF Empty /\ ~writeopen
     THEN IF killed[p]
          THEN Return(p, pc)
          ELSE Goto(p, "rbody") /\ UNCHANGED <<lk, i, n>>
     ELSE Goto(p, "rcopy") /\ UNCHANGED <<lk, i, n>>
  /\ UNCHANGED <<pipe, freed, holders, killed, stranded>>

\* The first loop: wait while the pipe is empty and can still be written.
piperead_test(p) ==
  /\ pc[p] = "rloop"
  /\ IF Empty /\ writeopen
     THEN IF killed[p]
          THEN Return(p, pc)
          ELSE Goto(p, "rbody") /\ UNCHANGED <<lk, i, n>>
     ELSE Goto(p, "rcopy") /\ UNCHANGED <<lk, i, n>>
  /\ UNCHANGED <<pipe, freed, holders, killed, stranded>>

piperead_sleep(p) ==
  /\ pc[p] = "rbody"
  /\ Goto(p, "rsleep")
  /\ lk' = Nobody
  /\ UNCHANGED <<pipe, freed, holders, i, n, killed, stranded>>

\* The copy loop.  A byte whose copyout() fails is gone from the pipe.
piperead_byte(p) ==
  /\ pc[p] = "rcopy" /\ i[p] < n[p] /\ ~Empty
  /\ nread' = (nread + 1) % UINT
  /\ \/ i' = [i EXCEPT ![p] = @ + 1] /\ UNCHANGED <<lk, pc, n>>
     \/ Return(p, wakeup_nwrite(pc))
  /\ UNCHANGED <<data, nwrite, readopen, writeopen, freed, holders, killed,
                 stranded>>

piperead_end(p) ==
  /\ pc[p] = "rcopy"
  /\ i[p] = n[p] \/ Empty
  /\ Return(p, wakeup_nwrite(pc))
  /\ UNCHANGED <<pipe, freed, holders, killed, stranded>>

(***************************************************************************)
(* close(): the last holder of an end calls pipeclose().                   *)
(***************************************************************************)
\* Mutant: the page is freed when the first end closes.
pipeclose_early(p) ==
  LET writable == p \in Writers IN
  /\ lk = Nobody
  /\ IF writable
     THEN writeopen' = FALSE /\ pc' = wakeup_nread(pc) /\ UNCHANGED readopen
     ELSE readopen' = FALSE /\ pc' = wakeup_nwrite(pc) /\ UNCHANGED writeopen
  /\ stranded' = (stranded /\ ~writable)
  /\ freed' = TRUE

pipeclose(p) ==
  LET writable == p \in Writers IN
  /\ lk = Nobody
  /\ IF writable
     THEN writeopen' = FALSE /\ pc' = wakeup_nread(pc) /\ UNCHANGED readopen
     ELSE readopen' = FALSE /\ pc' = wakeup_nwrite(pc) /\ UNCHANGED writeopen
  /\ stranded' = (stranded /\ ~writable)
  /\ freed' = (~readopen' /\ ~writeopen')

close(p) ==
  LET mine == IF p \in Readers THEN Readers ELSE Writers IN
  /\ pc[p] = "idle" /\ p \in holders
  /\ holders' = holders \ {p}
  /\ IF holders \intersect mine = {p}
     THEN pipeclose(p)
     ELSE UNCHANGED <<readopen, writeopen, pc, freed, stranded>>
  /\ UNCHANGED <<data, nread, nwrite, lk, i, n, killed>>

kill(p) ==
  /\ ~killed[p] /\ p \in holders
  /\ killed' = [killed EXCEPT ![p] = TRUE]
  /\ Goto(p, CASE pc[p] = "rsleep" -> "read"
               [] pc[p] = "wsleep" -> "write"
               [] OTHER -> pc[p])
  /\ UNCHANGED <<pipe, lk, freed, holders, i, n, stranded>>

pipewrite(p) == \/ pipewrite_test(p) \/ pipewrite_full(p) \/ pipewrite_end(p)
                \/ \E b \in Byte : pipewrite_byte(p, b)
piperead(p) == \/ piperead_test(p) \/ piperead_sleep(p)
               \/ piperead_byte(p) \/ piperead_end(p)

\* A killed process, and one that is done, does nothing more.
Done == holders = {} /\ UNCHANGED vars

Next == \/ \E p \in Procs : \/ \E count \in 0..MaxN : Call(p, count)
                            \/ acquire(p) \/ pipewrite(p) \/ piperead(p)
                            \/ close(p) \/ kill(p)
        \/ Done

Spec == Init /\ [][Next]_vars

\* Calls in the kernel go on: the scheduler runs every runnable process and
\* no CPU loses the race for pi->lock for ever.
Fairness == \A p \in Procs : /\ SF_vars(acquire(p))
                             /\ WF_vars(pipewrite(p)) /\ WF_vars(piperead(p))

LiveSpec == Spec /\ Fairness
-----------------------------------------------------------------------------
(***************************************************************************)
(* Properties.                                                             *)
(***************************************************************************)
\* Type invariant; the counters stay unsigned ints.
TypeOK ==
  /\ data \in [0..(PIPESIZE - 1) -> Byte]
  /\ nread \in 0..(UINT - 1) /\ nwrite \in 0..(UINT - 1)
  /\ readopen \in BOOLEAN /\ writeopen \in BOOLEAN
  /\ lk \in Procs \union {Nobody}
  /\ freed \in BOOLEAN /\ stranded \in BOOLEAN
  /\ holders \subseteq Procs
  /\ pc \in [Procs -> {"idle", "read", "rloop", "rbody", "rcopy", "rsleep",
                       "write", "wloop", "wbody", "wsleep"}]
  /\ i \in [Procs -> 0..MaxN] /\ n \in [Procs -> 0..MaxN]
  /\ killed \in [Procs -> BOOLEAN]

Buffered == (nwrite - nread) % UINT
FIFO == INSTANCE PipeFifo WITH
          q     <- [k \in 1..Buffered |-> data[(nread + k - 1) % PIPESIZE]],
          ropen <- readopen,
          wopen <- writeopen

\* The ring buffer of pipewrite() and piperead(), with its wrapping counters,
\* is a bounded FIFO queue: the bytes leave in the order they came, none is
\* overwritten before it is read, and no byte enters once the read end is
\* closed.
FifoSpec == FIFO!FSpec

\* No lost wakeup on the write side: a writer sleeps only while the pipe is
\* full and somebody can still drain it.
WriterSleepJustified ==
  lk = Nobody =>
    \A p \in Procs : pc[p] = "wsleep" => Full /\ readopen

\* No lost wakeup on the read side, but for one case: a writer that was
\* killed half way through left its bytes without waking anybody.
ReaderSleepJustified ==
  lk = Nobody =>
    \A p \in Procs : pc[p] = "rsleep" => writeopen /\ (Empty \/ stranded)

\* Nobody sleeps in sleep(&pi->nwrite) or sleep(&pi->nread) past what they wait
\* for, whichever order reads, writes, kills and closes come in.
SleepJustified == WriterSleepJustified /\ ReaderSleepJustified

\* A read that returns no byte means end of file: with two readers, the one
\* that wakes up too late sleeps again.
NoSpuriousEof ==
  \A p \in Procs :
    pc[p] = "rcopy" /\ i[p] = 0 /\ n[p] > 0 /\ Empty => ~writeopen

\* The page is given back once, and nobody is inside the pipe then or later.
NoUseAfterFree == freed => holders = {} /\ \A p \in Procs : pc[p] = "idle"

\* The close of the write end reaches every reader: no read() goes on for
\* ever after it.
EofReachesReaders ==
  \A p \in Readers : pc[p] # "idle" /\ ~writeopen ~> pc[p] = "idle"

\* A killed process leaves the pipe, unless kill() comes between its test of
\* killed() and its sleep(), which no lock prevents.
KilledLeaves ==
  \A p \in Procs :
    killed[p] /\ pc[p] \notin {"rbody", "rsleep", "wbody", "wsleep"} ~>
      pc[p] = "idle"
=============================================================================
