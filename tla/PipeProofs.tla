----------------------------- MODULE PipeProofs -----------------------------
(***************************************************************************)
(* Proofs about Pipe, for every PIPESIZE, every width of the counters that  *)
(* is a multiple of it, and any number of readers and writers: the ring     *)
(* buffer implements PipeFifo, no wakeup is lost, and the page is given     *)
(* back once nobody uses it.                                               *)
(***************************************************************************)
EXTENDS Pipe, SequenceTheorems, TLAPS

\* The default provers, with a second try for a leaf that was cut short.
USE SMTT(20), SMTT(30), Zenon

USE PipeAssumption

\* The ring of pi->data, indexed by the wrapping nread and nwrite.
INSTANCE RingLemmas WITH N <- PIPESIZE, U <- UINT, Elem <- Byte

\* PIPESIZE and the width of the counters fit each other.
LEMMA Sizes == RingSizes
  BY DEF RingSizes

USE Sizes
-----------------------------------------------------------------------------
(***************************************************************************)
(* The inductive invariant.                                                *)
(***************************************************************************)
Holding == {"rloop", "rbody", "rcopy", "wloop", "wbody"}

\* pi->lock is held inside the loops, by readers or writers.
LockInv ==
  \A p \in Procs :
    /\ pc[p] \in Holding <=> lk = p
    /\ pc[p] # "idle" => p \in holders
    /\ pc[p] \in {"read", "rloop", "rbody", "rcopy", "rsleep"} => p \in Readers
    /\ pc[p] \in {"write", "wloop", "wbody", "wsleep"} => p \in Writers
    /\ i[p] <= n[p]
    /\ pc[p] = "wbody" => i[p] < n[p]

\* An end is open while somebody holds it.
EndInv ==
  /\ ~readopen => holders \intersect Readers = {}
  /\ ~writeopen => holders \intersect Writers = {}
  /\ freed => ~readopen /\ ~writeopen

\* What the holder of pi->lock has seen still holds.
SeenInv ==
  \A p \in Procs :
    /\ pc[p] = "wbody" => readopen
    /\ pc[p] = "rbody" => writeopen /\ nread = nwrite
    /\ pc[p] = "rcopy" /\ i[p] = 0 /\ n[p] > 0 /\ nread = nwrite => ~writeopen

\* Sleepers are waited for: what would let them go on has not happened, or
\* the holder of pi->lock has yet to call wakeup().
SleepInv ==
  \A p \in Procs :
    /\ pc[p] = "wsleep" =>
         /\ readopen
         /\ Count(nread, nwrite) = PIPESIZE \/ \E h \in Procs : pc[h] = "rcopy"
    /\ pc[p] = "rsleep" =>
         /\ writeopen
         /\ \/ nread = nwrite \/ stranded
            \/ \E h \in Procs : pc[h] \in {"wloop", "wbody"} /\ i[h] > 0

PipeInv == /\ TypeOK /\ LockInv /\ EndInv /\ SeenInv /\ SleepInv
           /\ Count(nread, nwrite) <= PIPESIZE

\* The invariant holds in a new pipe.
LEMMA PipeInit == Init => PipeInv
  <1> SUFFICES ASSUME Init PROVE PipeInv
    OBVIOUS
  <1>1. TypeOK
    <2>1. 0 \in 0..MaxN /\ 0 \in 0..(UINT - 1)
      OBVIOUS
    <2> QED BY Zenon, <2>1 DEF Init, TypeOK, Procs
  <1>2. Count(nread, nwrite) = 0
    BY DEF Init, Count
  <1> QED BY <1>1, <1>2 DEF Init, PipeInv, LockInv, EndInv, SeenInv, SleepInv, Holding, Procs

\* A call that reaches the pipe.
LEMMA CallInv ==
  ASSUME PipeInv, NEW p \in Procs, NEW count \in 0..MaxN, Call(p, count)
  PROVE  PipeInv'
  <1>0. /\ TypeOK /\ LockInv /\ EndInv /\ SeenInv /\ SleepInv
        /\ Count(nread, nwrite) <= PIPESIZE
    BY DEF PipeInv
  <1>1. /\ pc[p] = "idle" /\ p \in holders
        /\ pc' = [pc EXCEPT ![p] = IF p \in Readers THEN "read" ELSE "write"]
        /\ i' = [i EXCEPT ![p] = 0] /\ n' = [n EXCEPT ![p] = count]
        /\ UNCHANGED <<data, nread, nwrite, readopen, writeopen, lk, freed, holders, killed, stranded>>
    BY DEF Call, Goto, pipe
  <1>2. /\ pc'[p] = (IF p \in Readers THEN "read" ELSE "write") /\ i'[p] = 0 /\ n'[p] = count
        /\ \A q \in Procs : q # p => pc'[q] = pc[q] /\ i'[q] = i[q] /\ n'[q] = n[q]
    BY <1>0, <1>1 DEF TypeOK
  <1>3. TypeOK'
    BY <1>0, <1>1 DEF TypeOK
  <1>4. LockInv'
    <2> SUFFICES ASSUME NEW q \in Procs
                 PROVE  /\ pc'[q] \in Holding <=> lk' = q
                        /\ pc'[q] # "idle" => q \in holders'
                        /\ pc'[q] \in {"read", "rloop", "rbody", "rcopy", "rsleep"} => q \in Readers
                        /\ pc'[q] \in {"write", "wloop", "wbody", "wsleep"} => q \in Writers
                        /\ i'[q] <= n'[q]
                        /\ pc'[q] = "wbody" => i'[q] < n'[q]
      BY DEF LockInv
    <2>1. CASE q = p
      BY <2>1, <1>0, <1>1, <1>2 DEF LockInv, Holding, Procs
    <2>2. CASE q # p
      BY <2>2, <1>0, <1>1, <1>2 DEF LockInv, Holding
    <2> QED BY <2>1, <2>2
  <1>5. EndInv'
    BY <1>0, <1>1 DEF EndInv
  <1>6. SeenInv'
    BY <1>0, <1>1, <1>2 DEF SeenInv
  <1>7. SleepInv'
    BY <1>0, <1>1, <1>2 DEF SleepInv
  <1>8. Count(nread', nwrite') <= PIPESIZE
    BY <1>0, <1>1
  <1> QED BY <1>3, <1>4, <1>5, <1>6, <1>7, <1>8 DEF PipeInv

\* pi->lock is taken.
LEMMA AcquireInv ==
  ASSUME PipeInv, NEW p \in Procs, acquire(p)
  PROVE  PipeInv'
  <1>0. /\ TypeOK /\ LockInv /\ EndInv /\ SeenInv /\ SleepInv
        /\ Count(nread, nwrite) <= PIPESIZE
    BY DEF PipeInv
  <1>1. /\ pc[p] \in {"read", "write"} /\ lk = Nobody /\ lk' = p
        /\ pc' = [pc EXCEPT ![p] = IF pc[p] = "read" THEN "rloop" ELSE "wloop"]
        /\ UNCHANGED <<data, nread, nwrite, readopen, writeopen, freed, holders, i, n, killed, stranded>>
    BY DEF acquire, Goto, pipe
  <1>2. /\ pc'[p] = (IF pc[p] = "read" THEN "rloop" ELSE "wloop")
        /\ \A q \in Procs : q # p => pc'[q] = pc[q]
    BY <1>0, <1>1 DEF TypeOK
  <1>3. TypeOK'
    BY <1>0, <1>1 DEF TypeOK
  <1>4. LockInv'
    <2> SUFFICES ASSUME NEW q \in Procs
                 PROVE  /\ pc'[q] \in Holding <=> lk' = q
                        /\ pc'[q] # "idle" => q \in holders'
                        /\ pc'[q] \in {"read", "rloop", "rbody", "rcopy", "rsleep"} => q \in Readers
                        /\ pc'[q] \in {"write", "wloop", "wbody", "wsleep"} => q \in Writers
                        /\ i'[q] <= n'[q]
                        /\ pc'[q] = "wbody" => i'[q] < n'[q]
      BY DEF LockInv
    <2>1. CASE q = p
      BY <2>1, <1>0, <1>1, <1>2 DEF LockInv, Holding, Procs
    <2>2. CASE q # p
      BY <2>2, <1>0, <1>1, <1>2 DEF LockInv, Holding
    <2> QED BY <2>1, <2>2
  <1>5. EndInv'
    BY <1>0, <1>1 DEF EndInv
  <1>6. SeenInv'
    BY <1>0, <1>1, <1>2 DEF SeenInv
  <1>7. SleepInv'
    BY <1>0, <1>1, <1>2 DEF SleepInv
  <1>8. Count(nread', nwrite') <= PIPESIZE
    BY <1>0, <1>1
  <1> QED BY <1>3, <1>4, <1>5, <1>6, <1>7, <1>8 DEF PipeInv

\* pipewrite() gives up.
LEMMA WriteTestReturnInv ==
  ASSUME PipeInv, NEW p \in Procs, pipewrite_test(p), ~readopen \/ killed[p]
  PROVE  PipeInv'
  <1>0. /\ TypeOK /\ LockInv /\ EndInv /\ SeenInv /\ SleepInv
        /\ Count(nread, nwrite) <= PIPESIZE
    BY DEF PipeInv
  <1>1. /\ pc[p] = "wloop" /\ lk' = Nobody /\ pc' = [pc EXCEPT ![p] = "idle"]
        /\ i' = [i EXCEPT ![p] = 0] /\ n' = [n EXCEPT ![p] = 0]
        /\ stranded' = (stranded \/ i[p] > 0)
        /\ UNCHANGED <<data, nread, nwrite, readopen, writeopen, freed, holders, killed>>
    BY DEF pipewrite_test, Return, pipe
  <1>2. /\ lk = p /\ \A q \in Procs : q # p => pc[q] \notin Holding
        /\ pc'[p] = "idle" /\ i'[p] = 0 /\ n'[p] = 0
        /\ \A q \in Procs : q # p => pc'[q] = pc[q] /\ i'[q] = i[q] /\ n'[q] = n[q]
    BY <1>0, <1>1 DEF TypeOK, LockInv, Holding
  <1>3. TypeOK'
    BY <1>0, <1>1 DEF TypeOK
  <1>4. LockInv'
    <2> SUFFICES ASSUME NEW q \in Procs
                 PROVE  /\ pc'[q] \in Holding <=> lk' = q
                        /\ pc'[q] # "idle" => q \in holders'
                        /\ pc'[q] \in {"read", "rloop", "rbody", "rcopy", "rsleep"} => q \in Readers
                        /\ pc'[q] \in {"write", "wloop", "wbody", "wsleep"} => q \in Writers
                        /\ i'[q] <= n'[q]
                        /\ pc'[q] = "wbody" => i'[q] < n'[q]
      BY DEF LockInv
    <2>1. CASE q = p
      BY <2>1, <1>0, <1>1, <1>2 DEF LockInv, Holding, Procs, TypeOK
    <2>2. CASE q # p
      BY <2>2, <1>0, <1>1, <1>2 DEF LockInv, Holding, Procs
    <2> QED BY <2>1, <2>2
  <1>5. EndInv'
    BY <1>0, <1>1 DEF EndInv
  <1>6. SeenInv'
    BY <1>0, <1>1, <1>2 DEF SeenInv, Holding
  <1>7. SleepInv'
    BY ZenonT(30), <1>0, <1>1, <1>2 DEF SleepInv, Holding
  <1>8. Count(nread', nwrite') <= PIPESIZE
    BY <1>0, <1>1
  <1> QED BY <1>3, <1>4, <1>5, <1>6, <1>7, <1>8 DEF PipeInv

\* pipewrite() goes on.
LEMMA WriteTestInv ==
  ASSUME PipeInv, NEW p \in Procs, pipewrite_test(p), ~(~readopen \/ killed[p])
  PROVE  PipeInv'
  <1>0. /\ TypeOK /\ LockInv /\ EndInv /\ SeenInv /\ SleepInv
        /\ Count(nread, nwrite) <= PIPESIZE
    BY DEF PipeInv
  <1>1. /\ pc[p] = "wloop" /\ i[p] < n[p] /\ pc' = [pc EXCEPT ![p] = "wbody"] /\ readopen
        /\ UNCHANGED <<data, nread, nwrite, readopen, writeopen, freed, holders, killed, lk, i, n, stranded>>
    BY DEF pipewrite_test, Goto, pipe
  <1>2. /\ lk = p /\ \A q \in Procs : q # p => pc[q] \notin Holding
        /\ pc'[p] = "wbody" /\ i'[p] = i[p] /\ n'[p] = n[p]
        /\ \A q \in Procs : q # p => pc'[q] = pc[q] /\ i'[q] = i[q] /\ n'[q] = n[q]
    BY <1>0, <1>1 DEF TypeOK, LockInv, Holding
  <1>3. TypeOK'
    BY <1>0, <1>1 DEF TypeOK
  <1>4. LockInv'
    <2> SUFFICES ASSUME NEW q \in Procs
                 PROVE  /\ pc'[q] \in Holding <=> lk' = q
                        /\ pc'[q] # "idle" => q \in holders'
                        /\ pc'[q] \in {"read", "rloop", "rbody", "rcopy", "rsleep"} => q \in Readers
                        /\ pc'[q] \in {"write", "wloop", "wbody", "wsleep"} => q \in Writers
                        /\ i'[q] <= n'[q]
                        /\ pc'[q] = "wbody" => i'[q] < n'[q]
      BY DEF LockInv
    <2>1. CASE q = p
      BY <2>1, <1>0, <1>1, <1>2 DEF LockInv, Holding, Procs, TypeOK
    <2>2. CASE q # p
      BY <2>2, <1>0, <1>1, <1>2 DEF LockInv, Holding, Procs
    <2> QED BY <2>1, <2>2
  <1>5. EndInv'
    BY <1>0, <1>1 DEF EndInv
  <1>6. SeenInv'
    BY <1>0, <1>1, <1>2 DEF SeenInv, Holding
  <1>7. SleepInv'
    BY <1>0, <1>1, <1>2 DEF SleepInv, Holding
  <1>8. Count(nread', nwrite') <= PIPESIZE
    BY <1>0, <1>1
  <1> QED BY <1>3, <1>4, <1>5, <1>6, <1>7, <1>8 DEF PipeInv

\* pipewrite() wakes the readers and sleeps.
LEMMA WriteFullInv ==
  ASSUME PipeInv, NEW p \in Procs, pipewrite_full(p)
  PROVE  PipeInv'
  <1>0. /\ TypeOK /\ LockInv /\ EndInv /\ SeenInv /\ SleepInv
        /\ Count(nread, nwrite) <= PIPESIZE
    BY DEF PipeInv
  <1>1. /\ pc[p] = "wbody" /\ Full /\ lk' = Nobody /\ stranded' = FALSE
        /\ pc' = [[q \in Procs |-> IF pc[q] = "rsleep" THEN "read" ELSE pc[q]] EXCEPT ![p] = "wsleep"]
        /\ UNCHANGED <<data, nread, nwrite, readopen, writeopen, freed, holders, killed, i, n>>
    BY DEF pipewrite_full, wakeup_nread, wakeup, pipe
  <1>a. Full <=> Count(nread, nwrite) = PIPESIZE
    BY <1>0, CounterFacts DEF TypeOK, Full
  <1>2. /\ lk = p /\ \A q \in Procs : q # p => pc[q] \notin Holding
        /\ pc'[p] = "wsleep" /\ i'[p] = i[p] /\ n'[p] = n[p]
        /\ \A q \in Procs : q # p => pc'[q] = (IF pc[q] = "rsleep" THEN "read" ELSE pc[q]) /\ i'[q] = i[q] /\ n'[q] = n[q]
    BY <1>0, <1>1 DEF TypeOK, LockInv, Holding
  <1>3. TypeOK'
    BY Zenon, <1>0, <1>1 DEF TypeOK
  <1>4. LockInv'
    <2> SUFFICES ASSUME NEW q \in Procs
                 PROVE  /\ pc'[q] \in Holding <=> lk' = q
                        /\ pc'[q] # "idle" => q \in holders'
                        /\ pc'[q] \in {"read", "rloop", "rbody", "rcopy", "rsleep"} => q \in Readers
                        /\ pc'[q] \in {"write", "wloop", "wbody", "wsleep"} => q \in Writers
                        /\ i'[q] <= n'[q]
                        /\ pc'[q] = "wbody" => i'[q] < n'[q]
      BY DEF LockInv
    <2>1. CASE q = p
      BY <2>1, <1>0, <1>1, <1>2 DEF LockInv, Holding, Procs, TypeOK
    <2>2. CASE q # p
      BY <2>2, <1>0, <1>1, <1>2 DEF LockInv, Holding, Procs
    <2> QED BY <2>1, <2>2
  <1>5. EndInv'
    BY <1>0, <1>1 DEF EndInv
  <1>6. SeenInv'
    BY <1>0, <1>1, <1>2 DEF SeenInv, Holding
  <1>7. SleepInv'
    BY <1>0, <1>1, <1>2, <1>a DEF SleepInv, SeenInv, Holding
  <1>8. Count(nread', nwrite') <= PIPESIZE
    BY <1>0, <1>1
  <1> QED BY <1>3, <1>4, <1>5, <1>6, <1>7, <1>8 DEF PipeInv

\* pipewrite() stores a byte.
LEMMA WriteByteInv ==
  ASSUME PipeInv, NEW p \in Procs, NEW b \in Byte, pipewrite_byte(p, b)
  PROVE  PipeInv'
  <1>0. /\ TypeOK /\ LockInv /\ EndInv /\ SeenInv /\ SleepInv
        /\ Count(nread, nwrite) <= PIPESIZE
    BY DEF PipeInv
  <1>1. /\ pc[p] = "wbody" /\ ~Full /\ nwrite' = (nwrite + 1) % UINT
        /\ data' = [data EXCEPT ![nwrite % PIPESIZE] = b]
        /\ i' = [i EXCEPT ![p] = i[p] + 1] /\ pc' = [pc EXCEPT ![p] = "wloop"]
        /\ UNCHANGED <<nread, readopen, writeopen, lk, freed, holders, n, killed, stranded>>
    BY DEF pipewrite_byte, Goto
  <1>a. Full <=> Count(nread, nwrite) = PIPESIZE
    BY <1>0, CounterFacts DEF TypeOK, Full
  <1>2. /\ lk = p /\ \A q \in Procs : q # p => pc[q] \notin Holding
        /\ pc'[p] = "wloop" /\ i'[p] = i[p] + 1 /\ n'[p] = n[p]
        /\ \A q \in Procs : q # p => pc'[q] = pc[q] /\ i'[q] = i[q] /\ n'[q] = n[q]
    BY <1>0, <1>1 DEF TypeOK, LockInv, Holding
  <1>b. nwrite' \in 0..(UINT - 1) /\ Count(nread, nwrite') = Count(nread, nwrite) + 1
    <2>1. nwrite' = Succ(nwrite) /\ nwrite' \in 0..(UINT - 1)
      BY <1>0, <1>1, CounterFacts DEF TypeOK
    <2>2. Count(nread, nwrite) \in 0..(UINT - 1)
      BY <1>0, CounterFacts DEF TypeOK
    <2>3. Count(nread, nwrite) < UINT - 1
      BY <1>0, <1>1, <1>a, <2>2
    <2> QED BY <1>0, <2>1, <2>3, CountSteps DEF TypeOK
  <1>c. i[p] < n[p] /\ i[p] + 1 \in 0..MaxN
    BY <1>0, <1>1 DEF LockInv, TypeOK
  <1>3. TypeOK'
    <2>1. data' \in [0..(PIPESIZE - 1) -> Byte]
      BY <1>0, <1>1 DEF TypeOK
    <2> QED BY Zenon, <2>1, <1>0, <1>1, <1>b, <1>c DEF TypeOK
  <1>4. LockInv'
    <2> SUFFICES ASSUME NEW q \in Procs
                 PROVE  /\ pc'[q] \in Holding <=> lk' = q
                        /\ pc'[q] # "idle" => q \in holders'
                        /\ pc'[q] \in {"read", "rloop", "rbody", "rcopy", "rsleep"} => q \in Readers
                        /\ pc'[q] \in {"write", "wloop", "wbody", "wsleep"} => q \in Writers
                        /\ i'[q] <= n'[q]
                        /\ pc'[q] = "wbody" => i'[q] < n'[q]
      BY DEF LockInv
    <2>1. CASE q = p
      BY <2>1, <1>c, <1>0, <1>1, <1>2 DEF LockInv, Holding, Procs, TypeOK
    <2>2. CASE q # p
      BY <2>2, <1>0, <1>1, <1>2 DEF LockInv, Holding, Procs
    <2> QED BY <2>1, <2>2
  <1>5. EndInv'
    BY <1>0, <1>1 DEF EndInv
  <1>6. SeenInv'
    BY <1>0, <1>1, <1>2 DEF SeenInv, Holding
  <1>7. SleepInv'
    BY <1>0, <1>1, <1>2, <1>a, <1>c DEF SleepInv, Holding, TypeOK
  <1>8. Count(nread', nwrite') <= PIPESIZE
    <2>1. Count(nread, nwrite) \in 0..(UINT - 1)
      BY <1>0, CounterFacts DEF TypeOK
    <2> QED BY <2>1, <1>0, <1>1, <1>a, <1>b
  <1> QED BY <1>3, <1>4, <1>5, <1>6, <1>7, <1>8 DEF PipeInv

\* pipewrite() wakes the readers and returns.
LEMMA WriteEndInv ==
  ASSUME PipeInv, NEW p \in Procs, pipewrite_end(p)
  PROVE  PipeInv'
  <1>0. /\ TypeOK /\ LockInv /\ EndInv /\ SeenInv /\ SleepInv
        /\ Count(nread, nwrite) <= PIPESIZE
    BY DEF PipeInv
  <1>1. /\ pc[p] \in {"wloop", "wbody"} /\ lk' = Nobody /\ stranded' = FALSE
        /\ pc' = [[q \in Procs |-> IF pc[q] = "rsleep" THEN "read" ELSE pc[q]] EXCEPT ![p] = "idle"]
        /\ i' = [i EXCEPT ![p] = 0] /\ n' = [n EXCEPT ![p] = 0]
        /\ UNCHANGED <<data, nread, nwrite, readopen, writeopen, freed, holders, killed>>
    BY DEF pipewrite_end, Return, wakeup_nread, wakeup, pipe
  <1>2. /\ lk = p /\ \A q \in Procs : q # p => pc[q] \notin Holding
        /\ pc'[p] = "idle" /\ i'[p] = 0 /\ n'[p] = 0
        /\ \A q \in Procs : q # p => pc'[q] = (IF pc[q] = "rsleep" THEN "read" ELSE pc[q]) /\ i'[q] = i[q] /\ n'[q] = n[q]
    BY <1>0, <1>1 DEF TypeOK, LockInv, Holding
  <1>3. TypeOK'
    <2>1. pc' \in [Procs -> {"idle", "read", "rloop", "rbody", "rcopy", "rsleep",
                             "write", "wloop", "wbody", "wsleep"}]
      BY <1>0, <1>1 DEF TypeOK
    <2>2. i' \in [Procs -> 0..MaxN] /\ n' \in [Procs -> 0..MaxN]
      BY <1>0, <1>1 DEF TypeOK
    <2> QED BY Zenon, <2>1, <2>2, <1>0, <1>1 DEF TypeOK
  <1>4. LockInv'
    <2> SUFFICES ASSUME NEW q \in Procs
                 PROVE  /\ pc'[q] \in Holding <=> lk' = q
                        /\ pc'[q] # "idle" => q \in holders'
                        /\ pc'[q] \in {"read", "rloop", "rbody", "rcopy", "rsleep"} => q \in Readers
                        /\ pc'[q] \in {"write", "wloop", "wbody", "wsleep"} => q \in Writers
                        /\ i'[q] <= n'[q]
                        /\ pc'[q] = "wbody" => i'[q] < n'[q]
      BY DEF LockInv
    <2>1. CASE q = p
      BY <2>1, <1>0, <1>1, <1>2 DEF LockInv, Holding, Procs, TypeOK
    <2>2. CASE q # p
      BY <2>2, <1>0, <1>1, <1>2 DEF LockInv, Holding, Procs
    <2> QED BY <2>1, <2>2
  <1>5. EndInv'
    BY <1>0, <1>1 DEF EndInv
  <1>6. SeenInv'
    BY <1>0, <1>1, <1>2 DEF SeenInv, Holding
  <1>7. SleepInv'
    BY Zenon, <1>0, <1>1, <1>2 DEF SleepInv, Holding
  <1>8. Count(nread', nwrite') <= PIPESIZE
    BY <1>0, <1>1
  <1> QED BY <1>3, <1>4, <1>5, <1>6, <1>7, <1>8 DEF PipeInv
-----------------------------------------------------------------------------

\* piperead() of a killed process returns.
LEMMA ReadTestReturnInv ==
  ASSUME PipeInv, NEW p \in Procs, piperead_test(p), Empty, writeopen, killed[p]
  PROVE  PipeInv'
  <1>0. /\ TypeOK /\ LockInv /\ EndInv /\ SeenInv /\ SleepInv
        /\ Count(nread, nwrite) <= PIPESIZE
    BY DEF PipeInv
  <1>1. /\ pc[p] = "rloop" /\ lk' = Nobody /\ pc' = [pc EXCEPT ![p] = "idle"]
        /\ i' = [i EXCEPT ![p] = 0] /\ n' = [n EXCEPT ![p] = 0]
        /\ UNCHANGED <<data, nread, nwrite, readopen, writeopen, freed, holders, killed, stranded>>
    BY DEF piperead_test, Return, pipe
  <1>2. /\ lk = p /\ \A q \in Procs : q # p => pc[q] \notin Holding
        /\ pc'[p] = "idle" /\ i'[p] = 0 /\ n'[p] = 0
        /\ \A q \in Procs : q # p => pc'[q] = pc[q] /\ i'[q] = i[q] /\ n'[q] = n[q]
    BY <1>0, <1>1 DEF TypeOK, LockInv, Holding
  <1>3. TypeOK'
    BY <1>0, <1>1 DEF TypeOK
  <1>4. LockInv'
    <2> SUFFICES ASSUME NEW q \in Procs
                 PROVE  /\ pc'[q] \in Holding <=> lk' = q
                        /\ pc'[q] # "idle" => q \in holders'
                        /\ pc'[q] \in {"read", "rloop", "rbody", "rcopy", "rsleep"} => q \in Readers
                        /\ pc'[q] \in {"write", "wloop", "wbody", "wsleep"} => q \in Writers
                        /\ i'[q] <= n'[q]
                        /\ pc'[q] = "wbody" => i'[q] < n'[q]
      BY DEF LockInv
    <2>1. CASE q = p
      BY <2>1, <1>0, <1>1, <1>2 DEF LockInv, Holding, Procs, TypeOK
    <2>2. CASE q # p
      BY <2>2, <1>0, <1>1, <1>2 DEF LockInv, Holding, Procs
    <2> QED BY <2>1, <2>2
  <1>5. EndInv'
    BY <1>0, <1>1 DEF EndInv
  <1>6. SeenInv'
    BY <1>0, <1>1, <1>2 DEF SeenInv, Holding
  <1>7. SleepInv'
    BY <1>0, <1>1, <1>2 DEF SleepInv, Holding
  <1>8. Count(nread', nwrite') <= PIPESIZE
    BY <1>0, <1>1
  <1> QED BY <1>3, <1>4, <1>5, <1>6, <1>7, <1>8 DEF PipeInv

\* piperead() is about to sleep.
LEMMA ReadWaitInv ==
  ASSUME PipeInv, NEW p \in Procs, piperead_test(p), Empty, writeopen, ~killed[p]
  PROVE  PipeInv'
  <1>0. /\ TypeOK /\ LockInv /\ EndInv /\ SeenInv /\ SleepInv
        /\ Count(nread, nwrite) <= PIPESIZE
    BY DEF PipeInv
  <1>1. /\ pc[p] = "rloop" /\ pc' = [pc EXCEPT ![p] = "rbody"] /\ nread = nwrite
        /\ UNCHANGED <<data, nread, nwrite, readopen, writeopen, freed, holders, killed, lk, i, n, stranded>>
    BY DEF piperead_test, Goto, pipe, Empty
  <1>2. /\ lk = p /\ \A q \in Procs : q # p => pc[q] \notin Holding
        /\ pc'[p] = "rbody" /\ i'[p] = i[p] /\ n'[p] = n[p]
        /\ \A q \in Procs : q # p => pc'[q] = pc[q] /\ i'[q] = i[q] /\ n'[q] = n[q]
    BY <1>0, <1>1 DEF TypeOK, LockInv, Holding
  <1>3. TypeOK'
    BY <1>0, <1>1 DEF TypeOK
  <1>4. LockInv'
    <2> SUFFICES ASSUME NEW q \in Procs
                 PROVE  /\ pc'[q] \in Holding <=> lk' = q
                        /\ pc'[q] # "idle" => q \in holders'
                        /\ pc'[q] \in {"read", "rloop", "rbody", "rcopy", "rsleep"} => q \in Readers
                        /\ pc'[q] \in {"write", "wloop", "wbody", "wsleep"} => q \in Writers
                        /\ i'[q] <= n'[q]
                        /\ pc'[q] = "wbody" => i'[q] < n'[q]
      BY DEF LockInv
    <2>1. CASE q = p
      BY <2>1, <1>0, <1>1, <1>2 DEF LockInv, Holding, Procs, TypeOK
    <2>2. CASE q # p
      BY <2>2, <1>0, <1>1, <1>2 DEF LockInv, Holding, Procs
    <2> QED BY Zenon, <2>1, <2>2
  <1>5. EndInv'
    BY <1>0, <1>1 DEF EndInv
  <1>6. SeenInv'
    BY <1>0, <1>1, <1>2 DEF SeenInv, Holding
  <1>7. SleepInv'
    BY <1>0, <1>1, <1>2 DEF SleepInv, Holding
  <1>8. Count(nread', nwrite') <= PIPESIZE
    BY <1>0, <1>1
  <1> QED BY <1>3, <1>4, <1>5, <1>6, <1>7, <1>8 DEF PipeInv

\* piperead() goes on to copy.
LEMMA ReadGoInv ==
  ASSUME PipeInv, NEW p \in Procs, piperead_test(p), ~(Empty /\ writeopen)
  PROVE  PipeInv'
  <1>0. /\ TypeOK /\ LockInv /\ EndInv /\ SeenInv /\ SleepInv
        /\ Count(nread, nwrite) <= PIPESIZE
    BY DEF PipeInv
  <1>1. /\ pc[p] = "rloop" /\ pc' = [pc EXCEPT ![p] = "rcopy"] /\ (nread = nwrite => ~writeopen)
        /\ UNCHANGED <<data, nread, nwrite, readopen, writeopen, freed, holders, killed, lk, i, n, stranded>>
    BY DEF piperead_test, Goto, pipe, Empty
  <1>2. /\ lk = p /\ \A q \in Procs : q # p => pc[q] \notin Holding
        /\ pc'[p] = "rcopy" /\ i'[p] = i[p] /\ n'[p] = n[p]
        /\ \A q \in Procs : q # p => pc'[q] = pc[q] /\ i'[q] = i[q] /\ n'[q] = n[q]
    BY <1>0, <1>1 DEF TypeOK, LockInv, Holding
  <1>3. TypeOK'
    BY <1>0, <1>1 DEF TypeOK
  <1>4. LockInv'
    <2> SUFFICES ASSUME NEW q \in Procs
                 PROVE  /\ pc'[q] \in Holding <=> lk' = q
                        /\ pc'[q] # "idle" => q \in holders'
                        /\ pc'[q] \in {"read", "rloop", "rbody", "rcopy", "rsleep"} => q \in Readers
                        /\ pc'[q] \in {"write", "wloop", "wbody", "wsleep"} => q \in Writers
                        /\ i'[q] <= n'[q]
                        /\ pc'[q] = "wbody" => i'[q] < n'[q]
      BY DEF LockInv
    <2>1. CASE q = p
      BY <2>1, <1>0, <1>1, <1>2 DEF LockInv, Holding, Procs, TypeOK
    <2>2. CASE q # p
      BY <2>2, <1>0, <1>1, <1>2 DEF LockInv, Holding, Procs
    <2> QED BY <2>1, <2>2
  <1>5. EndInv'
    BY <1>0, <1>1 DEF EndInv
  <1>6. SeenInv'
    BY <1>0, <1>1, <1>2 DEF SeenInv, Holding
  <1>7. SleepInv'
    BY <1>0, <1>1, <1>2 DEF SleepInv, Holding
  <1>8. Count(nread', nwrite') <= PIPESIZE
    BY <1>0, <1>1
  <1> QED BY <1>3, <1>4, <1>5, <1>6, <1>7, <1>8 DEF PipeInv

\* piperead() sleeps.
LEMMA ReadSleepInv ==
  ASSUME PipeInv, NEW p \in Procs, piperead_sleep(p)
  PROVE  PipeInv'
  <1>0. /\ TypeOK /\ LockInv /\ EndInv /\ SeenInv /\ SleepInv
        /\ Count(nread, nwrite) <= PIPESIZE
    BY DEF PipeInv
  <1>1. /\ pc[p] = "rbody" /\ pc' = [pc EXCEPT ![p] = "rsleep"] /\ lk' = Nobody
        /\ UNCHANGED <<data, nread, nwrite, readopen, writeopen, freed, holders, killed, i, n, stranded>>
    BY DEF piperead_sleep, Goto, pipe
  <1>2. /\ lk = p /\ \A q \in Procs : q # p => pc[q] \notin Holding
        /\ pc'[p] = "rsleep" /\ i'[p] = i[p] /\ n'[p] = n[p]
        /\ \A q \in Procs : q # p => pc'[q] = pc[q] /\ i'[q] = i[q] /\ n'[q] = n[q]
    BY <1>0, <1>1 DEF TypeOK, LockInv, Holding
  <1>3. TypeOK'
    BY <1>0, <1>1 DEF TypeOK
  <1>4. LockInv'
    <2> SUFFICES ASSUME NEW q \in Procs
                 PROVE  /\ pc'[q] \in Holding <=> lk' = q
                        /\ pc'[q] # "idle" => q \in holders'
                        /\ pc'[q] \in {"read", "rloop", "rbody", "rcopy", "rsleep"} => q \in Readers
                        /\ pc'[q] \in {"write", "wloop", "wbody", "wsleep"} => q \in Writers
                        /\ i'[q] <= n'[q]
                        /\ pc'[q] = "wbody" => i'[q] < n'[q]
      BY DEF LockInv
    <2>1. CASE q = p
      BY <2>1, <1>0, <1>1, <1>2 DEF LockInv, Holding, Procs, TypeOK
    <2>2. CASE q # p
      BY <2>2, <1>0, <1>1, <1>2 DEF LockInv, Holding, Procs
    <2> QED BY <2>1, <2>2
  <1>5. EndInv'
    BY <1>0, <1>1 DEF EndInv
  <1>6. SeenInv'
    BY <1>0, <1>1, <1>2 DEF SeenInv, Holding
  <1>7. SleepInv'
    BY <1>0, <1>1, <1>2 DEF SleepInv, SeenInv, Holding
  <1>8. Count(nread', nwrite') <= PIPESIZE
    BY <1>0, <1>1
  <1> QED BY <1>3, <1>4, <1>5, <1>6, <1>7, <1>8 DEF PipeInv

\* piperead() takes a byte.
LEMMA ReadByteInv ==
  ASSUME PipeInv, NEW p \in Procs, piperead_byte(p), i' = [i EXCEPT ![p] = @ + 1], UNCHANGED <<lk, pc, n>>
  PROVE  PipeInv'
  <1>0. /\ TypeOK /\ LockInv /\ EndInv /\ SeenInv /\ SleepInv
        /\ Count(nread, nwrite) <= PIPESIZE
    BY DEF PipeInv
  <1>1. /\ pc[p] = "rcopy" /\ i[p] < n[p] /\ nread # nwrite /\ nread' = (nread + 1) % UINT
        /\ i' = [i EXCEPT ![p] = i[p] + 1]
        /\ UNCHANGED <<data, nwrite, readopen, writeopen, lk, freed, holders, pc, n, killed, stranded>>
    BY DEF piperead_byte, Empty
  <1>2. /\ lk = p /\ \A q \in Procs : q # p => pc[q] \notin Holding
        /\ pc'[p] = "rcopy" /\ i'[p] = i[p] + 1 /\ n'[p] = n[p]
        /\ \A q \in Procs : q # p => pc'[q] = pc[q] /\ i'[q] = i[q] /\ n'[q] = n[q]
    BY <1>0, <1>1 DEF TypeOK, LockInv, Holding
  <1>b. nread' \in 0..(UINT - 1) /\ Count(nread', nwrite) = Count(nread, nwrite) - 1
        /\ Count(nread, nwrite) \in 0..(UINT - 1)
    <2>1. nread' = Succ(nread) /\ nread' \in 0..(UINT - 1)
      BY <1>0, <1>1, CounterFacts DEF TypeOK
    <2>2. Count(nread, nwrite) \in 0..(UINT - 1) /\ Count(nread, nwrite) # 0
      BY <1>0, <1>1, CounterFacts DEF TypeOK
    <2> QED BY <1>0, <2>1, <2>2, CountSteps DEF TypeOK
  <1>c. i[p] + 1 \in 0..MaxN /\ i[p] + 1 > 0 /\ i[p] + 1 <= n[p]
    BY <1>0, <1>1 DEF TypeOK
  <1>3. TypeOK'
    BY ZenonT(30), <1>0, <1>1, <1>b, <1>c DEF TypeOK
  <1>4. LockInv'
    <2> SUFFICES ASSUME NEW q \in Procs
                 PROVE  /\ pc'[q] \in Holding <=> lk' = q
                        /\ pc'[q] # "idle" => q \in holders'
                        /\ pc'[q] \in {"read", "rloop", "rbody", "rcopy", "rsleep"} => q \in Readers
                        /\ pc'[q] \in {"write", "wloop", "wbody", "wsleep"} => q \in Writers
                        /\ i'[q] <= n'[q]
                        /\ pc'[q] = "wbody" => i'[q] < n'[q]
      BY DEF LockInv
    <2>1. CASE q = p
      BY <2>1, <1>c, <1>0, <1>1, <1>2 DEF LockInv, Holding, Procs, TypeOK
    <2>2. CASE q # p
      BY Zenon, <2>2, <1>0, <1>1, <1>2 DEF LockInv, Holding, Procs
    <2> QED BY Zenon, <2>1, <2>2
  <1>5. EndInv'
    BY Zenon, <1>0, <1>1 DEF EndInv
  <1>6. SeenInv'
    BY <1>0, <1>1, <1>2, <1>c DEF SeenInv, Holding
  <1>7. SleepInv'
    BY <1>0, <1>1, <1>2 DEF SleepInv, Holding
  <1>8. Count(nread', nwrite') <= PIPESIZE
    BY <1>0, <1>1, <1>b
  <1> QED BY <1>3, <1>4, <1>5, <1>6, <1>7, <1>8 DEF PipeInv

\* piperead() loses a byte and returns.
LEMMA ReadFaultInv ==
  ASSUME PipeInv, NEW p \in Procs, piperead_byte(p), Return(p, wakeup_nwrite(pc))
  PROVE  PipeInv'
  <1>0. /\ TypeOK /\ LockInv /\ EndInv /\ SeenInv /\ SleepInv
        /\ Count(nread, nwrite) <= PIPESIZE
    BY DEF PipeInv
  <1>1. /\ pc[p] = "rcopy" /\ nread # nwrite /\ nread' = (nread + 1) % UINT /\ lk' = Nobody
        /\ pc' = [[q \in Procs |-> IF pc[q] = "wsleep" THEN "write" ELSE pc[q]] EXCEPT ![p] = "idle"]
        /\ i' = [i EXCEPT ![p] = 0] /\ n' = [n EXCEPT ![p] = 0]
        /\ UNCHANGED <<data, nwrite, readopen, writeopen, freed, holders, killed, stranded>>
    BY DEF piperead_byte, Empty, Return, wakeup_nwrite, wakeup
  <1>2. /\ lk = p /\ \A q \in Procs : q # p => pc[q] \notin Holding
        /\ pc'[p] = "idle" /\ i'[p] = 0 /\ n'[p] = 0
        /\ \A q \in Procs : q # p => pc'[q] = (IF pc[q] = "wsleep" THEN "write" ELSE pc[q]) /\ i'[q] = i[q] /\ n'[q] = n[q]
    BY <1>0, <1>1 DEF TypeOK, LockInv, Holding
  <1>b. nread' \in 0..(UINT - 1) /\ Count(nread', nwrite) = Count(nread, nwrite) - 1
        /\ Count(nread, nwrite) \in 0..(UINT - 1)
    <2>1. nread' = Succ(nread) /\ nread' \in 0..(UINT - 1)
      BY <1>0, <1>1, CounterFacts DEF TypeOK
    <2>2. Count(nread, nwrite) \in 0..(UINT - 1) /\ Count(nread, nwrite) # 0
      BY <1>0, <1>1, CounterFacts DEF TypeOK
    <2> QED BY <1>0, <2>1, <2>2, CountSteps DEF TypeOK
  <1>3. TypeOK'
    BY <1>0, <1>1, <1>b DEF TypeOK
  <1>4. LockInv'
    <2> SUFFICES ASSUME NEW q \in Procs
                 PROVE  /\ pc'[q] \in Holding <=> lk' = q
                        /\ pc'[q] # "idle" => q \in holders'
                        /\ pc'[q] \in {"read", "rloop", "rbody", "rcopy", "rsleep"} => q \in Readers
                        /\ pc'[q] \in {"write", "wloop", "wbody", "wsleep"} => q \in Writers
                        /\ i'[q] <= n'[q]
                        /\ pc'[q] = "wbody" => i'[q] < n'[q]
      BY DEF LockInv
    <2>1. CASE q = p
      BY <2>1, <1>0, <1>1, <1>2 DEF LockInv, Holding, Procs, TypeOK
    <2>2. CASE q # p
      BY <2>2, <1>0, <1>1, <1>2 DEF LockInv, Holding, Procs
    <2> QED BY <2>1, <2>2
  <1>5. EndInv'
    BY <1>0, <1>1 DEF EndInv
  <1>6. SeenInv'
    BY <1>0, <1>1, <1>2 DEF SeenInv, Holding
  <1>7. SleepInv'
    BY Zenon, <1>0, <1>1, <1>2 DEF SleepInv, Holding
  <1>8. Count(nread', nwrite') <= PIPESIZE
    BY <1>0, <1>1, <1>b
  <1> QED BY <1>3, <1>4, <1>5, <1>6, <1>7, <1>8 DEF PipeInv

\* piperead() wakes the writers and returns.
LEMMA ReadEndInv ==
  ASSUME PipeInv, NEW p \in Procs, piperead_end(p)
  PROVE  PipeInv'
  <1>0. /\ TypeOK /\ LockInv /\ EndInv /\ SeenInv /\ SleepInv
        /\ Count(nread, nwrite) <= PIPESIZE
    BY DEF PipeInv
  <1>1. /\ pc[p] = "rcopy" /\ lk' = Nobody
        /\ pc' = [[q \in Procs |-> IF pc[q] = "wsleep" THEN "write" ELSE pc[q]] EXCEPT ![p] = "idle"]
        /\ i' = [i EXCEPT ![p] = 0] /\ n' = [n EXCEPT ![p] = 0]
        /\ UNCHANGED <<data, nread, nwrite, readopen, writeopen, freed, holders, killed, stranded>>
    BY DEF piperead_end, Return, wakeup_nwrite, wakeup, pipe
  <1>2. /\ lk = p /\ \A q \in Procs : q # p => pc[q] \notin Holding
        /\ pc'[p] = "idle" /\ i'[p] = 0 /\ n'[p] = 0
        /\ \A q \in Procs : q # p => pc'[q] = (IF pc[q] = "wsleep" THEN "write" ELSE pc[q]) /\ i'[q] = i[q] /\ n'[q] = n[q]
    BY <1>0, <1>1 DEF TypeOK, LockInv, Holding
  <1>3. TypeOK'
    BY <1>0, <1>1 DEF TypeOK
  <1>4. LockInv'
    <2> SUFFICES ASSUME NEW q \in Procs
                 PROVE  /\ pc'[q] \in Holding <=> lk' = q
                        /\ pc'[q] # "idle" => q \in holders'
                        /\ pc'[q] \in {"read", "rloop", "rbody", "rcopy", "rsleep"} => q \in Readers
                        /\ pc'[q] \in {"write", "wloop", "wbody", "wsleep"} => q \in Writers
                        /\ i'[q] <= n'[q]
                        /\ pc'[q] = "wbody" => i'[q] < n'[q]
      BY DEF LockInv
    <2>1. CASE q = p
      BY <2>1, <1>0, <1>1, <1>2 DEF LockInv, Holding, Procs, TypeOK
    <2>2. CASE q # p
      BY <2>2, <1>0, <1>1, <1>2 DEF LockInv, Holding, Procs
    <2> QED BY <2>1, <2>2
  <1>5. EndInv'
    BY <1>0, <1>1 DEF EndInv
  <1>6. SeenInv'
    BY <1>0, <1>1, <1>2 DEF SeenInv, Holding
  <1>7. SleepInv'
    BY Zenon, <1>0, <1>1, <1>2 DEF SleepInv, Holding
  <1>8. Count(nread', nwrite') <= PIPESIZE
    BY <1>0, <1>1
  <1> QED BY <1>3, <1>4, <1>5, <1>6, <1>7, <1>8 DEF PipeInv

\* The last writer closes its end.
LEMMA CloseWriteInv ==
  ASSUME PipeInv, NEW p \in Procs, close(p), holders \intersect Writers = {p}
  PROVE  PipeInv'
  <1>0. /\ TypeOK /\ LockInv /\ EndInv /\ SeenInv /\ SleepInv
        /\ Count(nread, nwrite) <= PIPESIZE
    BY DEF PipeInv
  <1>1. /\ pc[p] = "idle" /\ p \in Writers /\ p \notin Readers /\ p \in holders /\ lk = Nobody
        /\ holders' = holders \ {p} /\ writeopen' = FALSE /\ readopen' = readopen
        /\ pc' = [q \in Procs |-> IF pc[q] = "rsleep" THEN "read" ELSE pc[q]]
        /\ stranded' = FALSE /\ freed' = (~readopen' /\ ~writeopen')
        /\ UNCHANGED <<data, nread, nwrite, lk, i, n, killed>>
    BY Zenon DEF close, pipeclose, wakeup_nread, wakeup, Procs
  <1>2. /\ \A q \in Procs : pc'[q] = (IF pc[q] = "rsleep" THEN "read" ELSE pc[q]) /\ pc[q] \notin Holding
        /\ holders' = holders \ {p}
    BY <1>0, <1>1 DEF LockInv, TypeOK
  <1>3. TypeOK'
    BY Zenon, <1>0, <1>1 DEF TypeOK, wakeup
  <1>4. LockInv'
    BY <1>0, <1>1, <1>2 DEF LockInv, Holding, Procs
  <1>5. EndInv'
    BY ZenonT(30), <1>0, <1>1 DEF EndInv
  <1>6. SeenInv'
    BY <1>0, <1>1, <1>2 DEF SeenInv, Holding
  <1>7. SleepInv'
    BY <1>0, <1>1, <1>2 DEF SleepInv, Holding
  <1>8. Count(nread', nwrite') <= PIPESIZE
    BY <1>0, <1>1
  <1> QED BY <1>3, <1>4, <1>5, <1>6, <1>7, <1>8 DEF PipeInv

\* The last reader closes its end.
LEMMA CloseReadInv ==
  ASSUME PipeInv, NEW p \in Procs, close(p), holders \intersect Readers = {p}
  PROVE  PipeInv'
  <1>0. /\ TypeOK /\ LockInv /\ EndInv /\ SeenInv /\ SleepInv
        /\ Count(nread, nwrite) <= PIPESIZE
    BY DEF PipeInv
  <1>1. /\ pc[p] = "idle" /\ p \in Readers /\ p \notin Writers /\ p \in holders /\ lk = Nobody
        /\ holders' = holders \ {p} /\ readopen' = FALSE /\ writeopen' = writeopen
        /\ pc' = [q \in Procs |-> IF pc[q] = "wsleep" THEN "write" ELSE pc[q]]
        /\ stranded' = (stranded /\ TRUE) /\ freed' = (~readopen' /\ ~writeopen')
        /\ UNCHANGED <<data, nread, nwrite, lk, i, n, killed>>
    BY DEF close, pipeclose, wakeup_nwrite, wakeup, Procs
  <1>2. /\ \A q \in Procs : pc'[q] = (IF pc[q] = "wsleep" THEN "write" ELSE pc[q]) /\ pc[q] \notin Holding
        /\ holders' = holders \ {p}
    BY <1>0, <1>1 DEF LockInv, TypeOK
  <1>3. TypeOK'
    BY Zenon, <1>0, <1>1 DEF TypeOK, wakeup
  <1>4. LockInv'
    BY <1>0, <1>1, <1>2 DEF LockInv, Holding, Procs
  <1>5. EndInv'
    BY Zenon, <1>0, <1>1 DEF EndInv
  <1>6. SeenInv'
    BY <1>0, <1>1, <1>2 DEF SeenInv, Holding
  <1>7. SleepInv'
    BY Zenon, <1>0, <1>1, <1>2 DEF SleepInv, Holding
  <1>8. Count(nread', nwrite') <= PIPESIZE
    BY <1>0, <1>1
  <1> QED BY <1>3, <1>4, <1>5, <1>6, <1>7, <1>8 DEF PipeInv

\* A process gives its descriptor back, and others keep theirs.
LEMMA CloseOneInv ==
  ASSUME PipeInv, NEW p \in Procs, close(p), UNCHANGED <<readopen, writeopen, pc, freed, stranded>>
  PROVE  PipeInv'
  <1>0. /\ TypeOK /\ LockInv /\ EndInv /\ SeenInv /\ SleepInv
        /\ Count(nread, nwrite) <= PIPESIZE
    BY DEF PipeInv
  <1>1. /\ pc[p] = "idle" /\ p \in holders /\ holders' = holders \ {p}
        /\ UNCHANGED <<data, nread, nwrite, lk, i, n, killed, readopen, writeopen, pc, freed, stranded>>
    BY DEF close
  <1>3. TypeOK'
    BY <1>0, <1>1 DEF TypeOK, wakeup
  <1>4. LockInv'
    BY <1>0, <1>1 DEF LockInv
  <1>5. EndInv'
    BY <1>0, <1>1 DEF EndInv
  <1>6. SeenInv'
    BY <1>0, <1>1 DEF SeenInv
  <1>7. SleepInv'
    BY <1>0, <1>1 DEF SleepInv
  <1>8. Count(nread', nwrite') <= PIPESIZE
    BY <1>0, <1>1
  <1> QED BY <1>3, <1>4, <1>5, <1>6, <1>7, <1>8 DEF PipeInv

\* kill() strikes.
LEMMA KillInv ==
  ASSUME PipeInv, NEW p \in Procs, kill(p)
  PROVE  PipeInv'
  <1>0. /\ TypeOK /\ LockInv /\ EndInv /\ SeenInv /\ SleepInv
        /\ Count(nread, nwrite) <= PIPESIZE
    BY DEF PipeInv
  <1>1. /\ p \in holders /\ killed' = [killed EXCEPT ![p] = TRUE]
        /\ pc' = [pc EXCEPT ![p] = IF pc[p] = "rsleep" THEN "read"
                                   ELSE IF pc[p] = "wsleep" THEN "write" ELSE pc[p]]
        /\ UNCHANGED <<data, nread, nwrite, readopen, writeopen, lk, freed, holders, i, n, stranded>>
    <2>1. (CASE pc[p] = "rsleep" -> "read" [] pc[p] = "wsleep" -> "write" [] OTHER -> pc[p])
            = (IF pc[p] = "rsleep" THEN "read" ELSE IF pc[p] = "wsleep" THEN "write" ELSE pc[p])
      OBVIOUS
    <2> QED BY Zenon, <2>1 DEF kill, Goto, pipe
  <1>2. /\ pc'[p] = (IF pc[p] = "rsleep" THEN "read" ELSE IF pc[p] = "wsleep" THEN "write" ELSE pc[p])
        /\ \A q \in Procs : q # p => pc'[q] = pc[q]
    BY <1>0, <1>1 DEF TypeOK
  <1>3. TypeOK'
    BY <1>0, <1>1 DEF TypeOK, wakeup
  <1>4. LockInv'
    <2> SUFFICES ASSUME NEW q \in Procs
                 PROVE  /\ pc'[q] \in Holding <=> lk' = q
                        /\ pc'[q] # "idle" => q \in holders'
                        /\ pc'[q] \in {"read", "rloop", "rbody", "rcopy", "rsleep"} => q \in Readers
                        /\ pc'[q] \in {"write", "wloop", "wbody", "wsleep"} => q \in Writers
                        /\ i'[q] <= n'[q]
                        /\ pc'[q] = "wbody" => i'[q] < n'[q]
      BY DEF LockInv
    <2>1. CASE q = p
      BY <2>1, <1>0, <1>1, <1>2 DEF LockInv, Holding, Procs, TypeOK
    <2>2. CASE q # p
      BY <2>2, <1>0, <1>1, <1>2 DEF LockInv, Holding, Procs
    <2> QED BY <2>1, <2>2
  <1>5. EndInv'
    BY <1>0, <1>1 DEF EndInv
  <1>6. SeenInv'
    BY <1>0, <1>1, <1>2 DEF SeenInv
  <1>7. SleepInv'
    BY <1>0, <1>1, <1>2 DEF SleepInv
  <1>8. Count(nread', nwrite') <= PIPESIZE
    BY <1>0, <1>1
  <1> QED BY <1>3, <1>4, <1>5, <1>6, <1>7, <1>8 DEF PipeInv

\* pipeclose(), or one of several holders lets go.
LEMMA CloseInv ==
  ASSUME PipeInv, NEW p \in Procs, close(p)
  PROVE  PipeInv'
  <1>1. CASE p \in Readers /\ holders \intersect Readers = {p}
    BY <1>1, CloseReadInv
  <1>2. CASE p \notin Readers /\ holders \intersect Writers = {p}
    BY <1>2, CloseWriteInv
  <1>3. CASE ~(holders \intersect (IF p \in Readers THEN Readers ELSE Writers) = {p})
    <2>1. UNCHANGED <<readopen, writeopen, pc, freed, stranded>>
      BY <1>3 DEF close
    <2> QED BY <2>1, CloseOneInv
  <1> QED BY <1>1, <1>2, <1>3

\* The steps of pipewrite().
LEMMA WriteInv ==
  ASSUME PipeInv, NEW p \in Procs, pipewrite(p)
  PROVE  PipeInv'
  BY WriteTestReturnInv, WriteTestInv, WriteFullInv, WriteByteInv, WriteEndInv DEF pipewrite

\* The steps of piperead().
LEMMA ReadInv ==
  ASSUME PipeInv, NEW p \in Procs, piperead(p)
  PROVE  PipeInv'
  <1>1. CASE piperead_test(p)
    BY <1>1, ReadTestReturnInv, ReadWaitInv, ReadGoInv
  <1>2. CASE piperead_byte(p)
    <2>1. \/ i' = [i EXCEPT ![p] = @ + 1] /\ UNCHANGED <<lk, pc, n>>
          \/ Return(p, wakeup_nwrite(pc))
      BY <1>2 DEF piperead_byte
    <2> QED BY <1>2, <2>1, ReadByteInv, ReadFaultInv
  <1> QED BY <1>1, <1>2, ReadSleepInv, ReadEndInv DEF piperead

\* Every step keeps the invariant.
LEMMA PipeNext == PipeInv /\ [Next]_vars => PipeInv'
  <1> SUFFICES ASSUME PipeInv, [Next]_vars PROVE PipeInv'
    OBVIOUS
  <1>1. CASE UNCHANGED vars
    BY <1>1 DEF vars, PipeInv, TypeOK, LockInv, EndInv, SeenInv, SleepInv
  <1>2. CASE Done
    BY <1>1, <1>2 DEF Done
  <1>3. ASSUME NEW p \in Procs,
               \/ \E count \in 0..MaxN : Call(p, count)
               \/ acquire(p) \/ pipewrite(p) \/ piperead(p) \/ close(p) \/ kill(p)
        PROVE  PipeInv'
    BY <1>3, CallInv, AcquireInv, WriteInv, ReadInv, CloseInv, KillInv
  <1> QED BY <1>1, <1>2, <1>3 DEF Next
-----------------------------------------------------------------------------
\* The inductive invariant of pipewrite(), piperead() and pipeclose().
THEOREM PipeInvariant == Spec => []PipeInv
  BY PipeInit, PipeNext, PTL DEF Spec

\* Type correctness; the counters stay unsigned ints.
THEOREM TypeCorrect == Spec => []TypeOK
  <1>1. PipeInv => TypeOK
    BY DEF PipeInv
  <1> QED BY <1>1, PipeInvariant, PTL

\* No writer sleeps while the pipe has room or its readers are gone.
THEOREM WriterSleepJustifiedHolds == Spec => []WriterSleepJustified
  <1>1. PipeInv => WriterSleepJustified
    <2> SUFFICES ASSUME PipeInv, lk = Nobody, NEW p \in Procs, pc[p] = "wsleep"
                 PROVE  Full /\ readopen
      BY DEF WriterSleepJustified
    <2>1. Count(nread, nwrite) = PIPESIZE /\ readopen
      BY DEF PipeInv, SleepInv, LockInv, Holding, Procs
    <2> QED BY <2>1, CounterFacts DEF PipeInv, TypeOK, Full
  <1> QED BY <1>1, PipeInvariant, PTL

\* No reader sleeps while there are bytes, but for those of a killed writer.
THEOREM ReaderSleepJustifiedHolds == Spec => []ReaderSleepJustified
  <1>1. PipeInv => ReaderSleepJustified
    BY DEF PipeInv, SleepInv, LockInv, Holding, Procs, ReaderSleepJustified, Empty
  <1> QED BY <1>1, PipeInvariant, PTL

\* No wakeup of a pipe is lost, on either side.
THEOREM SleepJustifiedHolds == Spec => []SleepJustified
  BY WriterSleepJustifiedHolds, ReaderSleepJustifiedHolds, PTL DEF SleepJustified

\* A read of no byte is the end of the file.
THEOREM NoSpuriousEofHolds == Spec => []NoSpuriousEof
  <1>1. PipeInv => NoSpuriousEof
    BY DEF PipeInv, SeenInv, NoSpuriousEof, Empty
  <1> QED BY <1>1, PipeInvariant, PTL

\* kfree() of the pipe comes after its last user.
THEOREM NoUseAfterFreeHolds == Spec => []NoUseAfterFree
  <1>1. PipeInv => NoUseAfterFree
    BY DEF PipeInv, TypeOK, EndInv, LockInv, NoUseAfterFree, Procs
  <1> QED BY <1>1, PipeInvariant, PTL
-----------------------------------------------------------------------------
(***************************************************************************)
(* The ring buffer implements the queue.                                   *)
(***************************************************************************)
HIDE PipeAssumption

Queue == [k \in 1..Buffered |-> data[(nread + k - 1) % PIPESIZE]]

\* The abstract queue is the part of the ring between the counters.
LEMMA QueueIsRing ==
  TypeOK => /\ Buffered = Count(nread, nwrite)
            /\ Queue = Ring(data, nread, Count(nread, nwrite))
            /\ Queue \in Seq(Byte) /\ Len(Queue) = Count(nread, nwrite)
            /\ Count(nread, nwrite) \in 0..(UINT - 1)
  <1> SUFFICES ASSUME TypeOK
               PROVE  /\ Buffered = Count(nread, nwrite)
                      /\ Queue = Ring(data, nread, Count(nread, nwrite))
                      /\ Queue \in Seq(Byte) /\ Len(Queue) = Count(nread, nwrite)
                      /\ Count(nread, nwrite) \in 0..(UINT - 1)
    OBVIOUS
  <1>1. Buffered = Count(nread, nwrite) /\ Count(nread, nwrite) \in 0..(UINT - 1)
    BY CounterFacts DEF Buffered, TypeOK
  <1>2. Queue = Ring(data, nread, Count(nread, nwrite))
    BY <1>1 DEF Queue, Ring
  <1>3. RingFacts(data, nread, Count(nread, nwrite))
    <2>1. data \in [0..(PIPESIZE - 1) -> Byte] /\ nread \in 0..(UINT - 1)
      BY DEF TypeOK
    <2>2. Count(nread, nwrite) \in Nat
      BY <1>1
    <2> QED BY <2>1, <2>2, RingSeq
  <1> QED BY <1>1, <1>2, <1>3 DEF RingFacts

\* The same after a step.
LEMMA QueueIsRingNext ==
  TypeOK' => Queue' = Ring(data', nread', Count(nread', nwrite'))
  <1> SUFFICES ASSUME TypeOK' PROVE Queue' = Ring(data', nread', Count(nread', nwrite'))
    OBVIOUS
  <1>1. nread' \in 0..(UINT - 1) /\ nwrite' \in 0..(UINT - 1)
    BY DEF TypeOK
  <1>2. Buffered' = Count(nread', nwrite')
    BY <1>1, CounterFacts DEF Buffered
  <1> QED BY <1>2 DEF Queue, Ring

\* A byte stored by pipewrite() is put into the queue.
LEMMA PutStep ==
  ASSUME PipeInv, PipeInv', NEW p \in Procs, NEW b \in Byte, pipewrite_byte(p, b)
  PROVE  FIFO!Put(b)
  <1>0. /\ TypeOK /\ TypeOK' /\ LockInv /\ EndInv /\ SeenInv
        /\ Count(nread, nwrite) <= PIPESIZE
    BY DEF PipeInv
  <1>1. /\ pc[p] = "wbody" /\ ~Full /\ nwrite' = (nwrite + 1) % UINT
        /\ data' = [data EXCEPT ![nwrite % PIPESIZE] = b]
        /\ UNCHANGED <<nread, readopen, writeopen>>
    BY DEF pipewrite_byte
  <1>2. readopen /\ writeopen
    BY <1>0, <1>1 DEF SeenInv, LockInv, EndInv
  <1>3. /\ Count(nread, nwrite) \in 0..(UINT - 1) /\ Count(nread, nwrite) < PIPESIZE
        /\ nwrite' = Succ(nwrite)
    <2>1. nread \in 0..(UINT - 1) /\ nwrite \in 0..(UINT - 1)
      BY <1>0 DEF TypeOK
    <2>2. /\ Count(nread, nwrite) \in 0..(UINT - 1) /\ nwrite' = Succ(nwrite)
          /\ nwrite = (nread + PIPESIZE) % UINT <=> Count(nread, nwrite) = PIPESIZE
      BY <2>1, <1>1, CounterFacts
    <2>3. Count(nread, nwrite) # PIPESIZE
      BY <2>2, <1>1 DEF Full
    <2> QED BY <2>2, <2>3, <1>0, PipeAssumption
  <1>4. Count(nread', nwrite') = Count(nread, nwrite) + 1
    <2>1. Count(nread, nwrite) < UINT - 1
      BY <1>3, PipeAssumption
    <2>2. nread \in 0..(UINT - 1) /\ nwrite \in 0..(UINT - 1)
      BY <1>0 DEF TypeOK
    <2>3. Count(nread, Succ(nwrite)) = Count(nread, nwrite) + 1
      BY <2>1, <2>2, CountSteps
    <2> QED BY <2>3, <1>1, <1>3
  <1>5. Queue' = Append(Queue, b)
    <2>1. Queue' = Ring(data', nread, Count(nread, nwrite) + 1)
      BY <1>0, <1>1, <1>4, QueueIsRingNext
    <2>2. Ring([data EXCEPT ![nwrite % PIPESIZE] = b], nread, Count(nread, nwrite) + 1)
            = Append(Ring(data, nread, Count(nread, nwrite)), b)
      <3>1. /\ data \in [0..(PIPESIZE - 1) -> Byte]
            /\ nread \in 0..(UINT - 1) /\ nwrite \in 0..(UINT - 1)
        BY <1>0 DEF TypeOK
      <3>2. Count(nread, nwrite) < PIPESIZE
        BY Zenon, <1>3
      <3> QED BY Zenon, <3>1, <3>2, RingPut
    <2> QED BY Zenon, <2>1, <2>2, <1>0, <1>1, QueueIsRing
  <1>6. Len(Queue) < PIPESIZE
    BY <1>0, <1>3, QueueIsRing
  <1> QED BY Zenon, <1>1, <1>2, <1>5, <1>6 DEF FIFO!Put, Queue

\* A byte taken by piperead() is got from the queue.
LEMMA GetStep ==
  ASSUME PipeInv, PipeInv', NEW p \in Procs, piperead_byte(p)
  PROVE  FIFO!Get
  <1>0. TypeOK /\ TypeOK' /\ LockInv /\ EndInv
    BY DEF PipeInv
  <1>1. /\ pc[p] = "rcopy" /\ nread # nwrite /\ nread' = (nread + 1) % UINT
        /\ UNCHANGED <<data, nwrite, readopen, writeopen>>
    BY Zenon DEF piperead_byte, Empty
  <1>2. readopen
    BY <1>0, <1>1 DEF LockInv, EndInv
  <1>3. /\ Count(nread, nwrite) \in 0..(UINT - 1) /\ Count(nread, nwrite) # 0
        /\ nread' = Succ(nread)
    BY <1>0, <1>1, CounterFacts DEF TypeOK
  <1>4. Count(nread', nwrite') = Count(nread, nwrite) - 1
    <2>1. nread \in 0..(UINT - 1) /\ nwrite \in 0..(UINT - 1)
      BY <1>0 DEF TypeOK
    <2>2. Count(Succ(nread), nwrite) = Count(nread, nwrite) - 1
      BY <2>1, <1>3, CountSteps
    <2> QED BY <2>2, <1>1, <1>3
  <1>5. Queue' = Tail(Queue)
    <2>1. Queue' = Ring(data, Succ(nread), Count(nread, nwrite) - 1)
      BY <1>0, <1>1, <1>3, <1>4, QueueIsRingNext
    <2>2. Count(nread, nwrite) \in Nat /\ Count(nread, nwrite) > 0
      BY <1>3
    <2>3. Ring(data, Succ(nread), Count(nread, nwrite) - 1)
            = Tail(Ring(data, nread, Count(nread, nwrite)))
      BY Zenon, <1>0, <2>2, RingGet DEF TypeOK
    <2> QED BY <2>1, <2>3, <1>0, QueueIsRing
  <1>6. Queue # <<>>
    <2>1. Len(Queue) # 0
      BY <1>0, <1>3, QueueIsRing
    <2> QED BY <2>1
  <1> QED BY Zenon, <1>1, <1>2, <1>5, <1>6 DEF FIFO!Get, Queue

\* The last holder of an end closes it.
LEMMA CloseStep ==
  ASSUME PipeInv, NEW p \in Procs, close(p)
  PROVE  FIFO!CloseRead \/ FIFO!CloseWrite \/ UNCHANGED FIFO!fvars
  <1>0. EndInv /\ p \in holders /\ UNCHANGED <<data, nread, nwrite>>
    BY DEF PipeInv, close
  <1>1. Queue' = Queue
    BY <1>0 DEF Queue, Buffered
  <1>2. CASE p \in Readers /\ holders \intersect Readers = {p}
    <2>1. readopen' = FALSE /\ writeopen' = writeopen
      BY <1>2, PipeAssumption DEF close, pipeclose
    <2>2. readopen
      BY <1>0, <1>2 DEF EndInv
    <2> QED BY Zenon, <1>1, <2>1, <2>2 DEF FIFO!CloseRead, Queue
  <1>3. CASE p \notin Readers /\ holders \intersect Writers = {p}
    <2>1. writeopen' = FALSE /\ readopen' = readopen
      BY <1>3 DEF close, pipeclose, Procs
    <2>2. writeopen
      BY <1>0, <1>3 DEF EndInv, Procs
    <2> QED BY Zenon, <1>1, <2>1, <2>2 DEF FIFO!CloseWrite, Queue
  <1>4. CASE ~(holders \intersect (IF p \in Readers THEN Readers ELSE Writers) = {p})
    <2>1. readopen' = readopen /\ writeopen' = writeopen
      BY <1>4 DEF close
    <2> QED BY <1>1, <2>1 DEF FIFO!fvars, Queue
  <1> QED BY <1>2, <1>3, <1>4

\* A new pipe is an empty queue.
LEMMA FifoInit == Init => FIFO!FInit
  <1> SUFFICES ASSUME Init PROVE FIFO!FInit
    OBVIOUS
  <1>1. TypeOK
    BY PipeInit DEF PipeInv
  <1>2. Count(nread, nwrite) = 0
    BY DEF Init, Count
  <1>3. Queue \in Seq(Byte) /\ Len(Queue) = 0
    BY <1>1, <1>2, QueueIsRing
  <1>4. Queue = <<>>
    BY <1>3
  <1> QED BY <1>4 DEF Init, FIFO!FInit, Queue

\* Every step is one of the queue, or stutters.
LEMMA FifoNext == PipeInv /\ PipeInv' /\ [Next]_vars => [FIFO!FNext]_(FIFO!fvars)
  <1> SUFFICES ASSUME PipeInv, PipeInv', [Next]_vars
               PROVE  FIFO!FNext \/ UNCHANGED FIFO!fvars
    OBVIOUS
  <1>1. CASE UNCHANGED pipe
    BY <1>1 DEF pipe, FIFO!fvars, Buffered
  <1>2. ASSUME NEW p \in Procs, NEW b \in Byte, pipewrite_byte(p, b)
        PROVE  FIFO!FNext
    BY <1>2, PutStep DEF FIFO!FNext
  <1>3. ASSUME NEW p \in Procs, piperead_byte(p)
        PROVE  FIFO!FNext
    BY <1>3, GetStep DEF FIFO!FNext
  <1>4. ASSUME NEW p \in Procs, close(p)
        PROVE  FIFO!FNext \/ UNCHANGED FIFO!fvars
    BY <1>4, CloseStep DEF FIFO!FNext
  <1>5. CASE UNCHANGED vars
    BY <1>1, <1>5 DEF vars, pipe
  <1>6. CASE Done
    BY <1>5, <1>6 DEF Done
  <1>7. ASSUME NEW p \in Procs,
               \/ \E count \in 0..MaxN : Call(p, count)
               \/ acquire(p) \/ pipewrite_test(p) \/ pipewrite_full(p) \/ pipewrite_end(p)
               \/ piperead_test(p) \/ piperead_sleep(p) \/ piperead_end(p) \/ kill(p)
        PROVE  UNCHANGED pipe
    BY <1>7 DEF Call, acquire, pipewrite_test, pipewrite_full, pipewrite_end, piperead_test,
                piperead_sleep, piperead_end, kill
  <1> QED BY <1>1, <1>2, <1>3, <1>4, <1>5, <1>6, <1>7 DEF Next, pipewrite, piperead

\* A pipe is a bounded FIFO queue, for every size of its array and of its
\* counters: pipewrite() and piperead() implement PipeFifo.
THEOREM ImplementsFifo == Spec => FifoSpec
  <1>1. PipeInv /\ PipeInv' /\ [Next]_vars => [FIFO!FNext]_(FIFO!fvars)
    BY FifoNext
  <1> QED BY <1>1, FifoInit, PipeInvariant, PTL DEF Spec, FifoSpec, FIFO!FSpec
=============================================================================
