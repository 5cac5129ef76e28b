----------------------------- MODULE LogProofs -----------------------------
(***************************************************************************)
(* Proofs about Log: the inductive invariant LogInv, the properties that   *)
(* follow from it, the refinement of AtomicDisk and the log-space bound.   *)
(***************************************************************************)
EXTENDS Log, FiniteSetTheorems, TLAPS

\* The default provers, with a second try for a leaf that was cut short.
USE SMTT(20), SMTT(30), Zenon

\* The constants of kernel/log.c as the proofs use them.
USE ValAssumption, SizeAssumption, FiniteAssumption

\* Open calls are finitely many, so outstanding counts them.
LEMMA InOpFinite == IsFiniteSet(InOp) /\ Cardinality(InOp) \in Nat
  <1>1. InOp \in SUBSET Procs
    BY DEF InOp
  <1> QED BY <1>1, FS_Subset, FS_CardinalityType

PCs == {"idle", "woken", "asleep", "inop", "commit"}

\* wakeup() touches sleeping processes only.
LEMMA WakeupFacts ==
  ASSUME NEW f \in [Procs -> PCs]
  PROVE  /\ wakeup(f) \in [Procs -> PCs]
         /\ \A q \in Procs : /\ wakeup(f)[q] = "inop" <=> f[q] = "inop"
                             /\ wakeup(f)[q] = "commit" <=> f[q] = "commit"
                             /\ wakeup(f)[q] # "asleep"
  BY DEF wakeup, PCs

\* Appending a block to a header adds it to the blocks the header names.
LEMMA RangeAppend ==
  ASSUME NEW S, NEW s \in Seq(S), NEW x \in S
  PROVE  Range(Append(s, x)) = Range(s) \union {x}
  <1> DEFINE t == Append(s, x)
  <1>1. /\ t \in Seq(S) /\ Len(t) = Len(s) + 1 /\ t[Len(s) + 1] = x
        /\ \A i \in 1..Len(s) : t[i] = s[i]
    OBVIOUS
  <1>2. DOMAIN t = 1..(Len(s) + 1) /\ DOMAIN s = 1..Len(s)
    BY <1>1
  <1>3. Range(t) \subseteq Range(s) \union {x}
    <2>1. ASSUME NEW i \in DOMAIN t PROVE t[i] \in Range(s) \union {x}
      <3>1. CASE i = Len(s) + 1
        BY <3>1, <1>1
      <3>2. CASE i \in 1..Len(s)
        BY <3>2, <1>1, <1>2 DEF Range
      <3> QED BY <3>1, <3>2, <1>2
    <2> QED BY <2>1 DEF Range
  <1>4. Range(s) \union {x} \subseteq Range(t)
    <2>1. ASSUME NEW i \in DOMAIN s PROVE s[i] \in Range(t)
      <3>1. i \in DOMAIN t /\ t[i] = s[i]
        BY <1>1, <1>2
      <3> QED BY <3>1 DEF Range
    <2>2. x \in Range(t)
      <3>1. Len(s) + 1 \in DOMAIN t
        BY <1>2
      <3> QED BY <3>1, <1>1 DEF Range
    <2> QED BY <2>1, <2>2 DEF Range
  <1> QED BY <1>3, <1>4

\* Boot establishes the invariant.
LEMMA InitInv == Init => LogInv
  <1> SUFFICES ASSUME Init PROVE LogInv
    OBVIOUS
  <1>1. TypeOK
    <2>1. /\ disk \in [Blocks -> Entries]
          /\ logdata \in [1..(NLOG - 1) -> Entries]
      BY DEF Init, Entries
    <2>2. /\ head \in Seq(Blocks) /\ lh \in Seq(Blocks)
      BY DEF Init
    <2>3. /\ cache \in [Blocks -> Val \union {NotCached}]
          /\ pin \in [Blocks -> {0, 1}]
          /\ pc \in [Procs -> {"idle", "woken", "asleep", "inop", "commit"}]
          /\ wrote \in [Procs -> SUBSET Blocks]
      BY DEF Init
    <2> QED BY Zenon, <2>1, <2>2, <2>3 DEF Init, TypeOK
  <1>2. PhaseInv
    <2>1. InOp = {}
      BY DEF Init, InOp
    <2>2. Cardinality(InOp) = 0
      BY <2>1, FS_EmptySet
    <2> QED BY <2>2 DEF Init, PhaseInv
  <1>3. HeadInv
    BY DEF Init, HeadInv, IsInjective
  <1>4. CacheInv
    BY DEF Init, CacheInv, Pending
  <1>5. DataInv
    BY DEF Init, DataInv
  <1> QED BY <1>1, <1>2, <1>3, <1>4, <1>5 DEF LogInv

\* begin_op() either sleeps or counts itself in.
LEMMA BeginInv ==
  ASSUME LogInv, NEW p \in Procs, begin_op(p) PROVE LogInv'
  <1> USE DEF LogInv
  <1>1. TypeOK'
    BY DEF begin_op, TypeOK
  <1>2. PhaseInv'
    <2>1. CASE pc' = [pc EXCEPT ![p] = "asleep"] /\ UNCHANGED outstanding
      <3>1. InOp' = InOp
        BY <2>1 DEF begin_op, TypeOK, InOp
      <3> QED BY <2>1, <3>1 DEF begin_op, TypeOK, PhaseInv
    <2>2. CASE /\ pc' = [pc EXCEPT ![p] = "inop"]
               /\ outstanding' = outstanding + 1 /\ ~committing
      <3>1. InOp' = InOp \union {p} /\ p \notin InOp
        BY <2>2 DEF begin_op, TypeOK, InOp
      <3>2. Cardinality(InOp') = Cardinality(InOp) + 1
        BY Zenon, <3>1, InOpFinite, FS_AddElement
      <3> QED BY <2>2, <3>2 DEF begin_op, TypeOK, PhaseInv, Recovering
    <2> QED BY <2>1, <2>2 DEF begin_op
  <1>3. HeadInv'
    BY DEF begin_op, TypeOK, PhaseInv, HeadInv
  <1>4. CacheInv'
    BY DEF begin_op, CacheInv, Pending
  <1>5. DataInv'
    BY DEF begin_op, DataInv
  <1> QED BY <1>1, <1>2, <1>3, <1>4, <1>5

\* log_write() appends a block to the transaction, pinning its buffer, or
\* finds it there already.
LEMMA LogWriteInv ==
  ASSUME LogInv, NEW p \in Procs, NEW b \in Blocks, NEW v \in Val,
         log_write(p, b, v)
  PROVE  LogInv'
  <1> USE DEF LogInv
  <1>0. InOp' = InOp /\ outstanding > 0 /\ phase = "run" /\ head = <<>>
    <2>1. p \in InOp
      BY DEF InOp, log_write
    <2>2. Cardinality(InOp) # 0
      BY <2>1, InOpFinite, FS_EmptySet
    <2> QED BY <2>2, InOpFinite DEF InOp, log_write, PhaseInv, HeadInv
  <1>1. PhaseInv'
    BY <1>0 DEF log_write, PhaseInv
  <1>2. CASE UNCHANGED <<lh, pin, cache>>
    <2>1. TypeOK'
      BY Zenon, <1>2 DEF log_write, TypeOK
    <2>2. HeadInv' /\ CacheInv' /\ DataInv'
      BY <1>2 DEF log_write, HeadInv, CacheInv, Pending, DataInv
    <2> QED BY <1>1, <2>1, <2>2
  <1>3. CASE /\ b \in Range(lh) /\ UNCHANGED <<lh, pin>>
             /\ cache' = [cache EXCEPT ![b] = v]
    <2>1. TypeOK'
      BY Zenon, <1>3 DEF log_write, TypeOK
    <2>2. HeadInv'
      BY <1>3 DEF log_write, HeadInv
    <2>3. CacheInv'
      BY <1>0, <1>3 DEF log_write, CacheInv, Pending, TypeOK
    <2>4. DataInv'
      BY <1>0, <1>3 DEF log_write, DataInv
    <2> QED BY <1>1, <2>1, <2>2, <2>3, <2>4
  <1>4. CASE /\ b \notin Range(lh) /\ lh' = Append(lh, b)
             /\ pin' = [pin EXCEPT ![b] = @ + 1]
             /\ cache' = [cache EXCEPT ![b] = v]
             /\ Len(lh) < NLOG - 1
    <2>1. pin[b] = 0
      BY <1>0, <1>4 DEF CacheInv, Pending
    <2>2. TypeOK'
      BY <1>4, <2>1 DEF log_write, TypeOK
    <2>3. HeadInv'
      BY <1>0, <1>4 DEF log_write, TypeOK, HeadInv, IsInjective, Range
    <2>4. Range(lh') = Range(lh) \union {b}
      BY <1>4, RangeAppend DEF TypeOK
    <2>5. CacheInv'
      BY <1>0, <1>4, <2>1, <2>4 DEF log_write, CacheInv, Pending, TypeOK
    <2>6. DataInv'
      BY <1>0, <1>4 DEF log_write, DataInv
    <2> QED BY <1>1, <2>2, <2>3, <2>5, <2>6
  <1>5. Len(lh) \in Nat
    BY DEF TypeOK
  <1> QED BY <1>2, <1>3, <1>4, <1>5 DEF log_write

\* end_op() leaves; the last one out starts the commit.
LEMMA EndInv ==
  ASSUME LogInv, NEW p \in Procs, end_op(p) PROVE LogInv'
  <1> USE DEF LogInv
  <1>0. p \in InOp /\ outstanding > 0 /\ phase = "run" /\ ~committing
    <2>1. p \in InOp
      BY DEF InOp, end_op
    <2>2. Cardinality(InOp) # 0
      BY <2>1, InOpFinite, FS_EmptySet
    <2> QED BY <2>1, <2>2, InOpFinite DEF end_op, PhaseInv
  <1> DEFINE left == [pc EXCEPT ![p] = "idle"]
  <1>w. /\ left \in [Procs -> PCs]
        /\ wakeup(left) \in [Procs -> PCs]
        /\ \A q \in Procs : /\ wakeup(left)[q] = "inop" <=> left[q] = "inop"
                            /\ wakeup(left)[q] = "commit" <=> left[q] = "commit"
    <2>1. left \in [Procs -> PCs]
      BY DEF TypeOK, PCs
    <2> HIDE DEF left
    <2> QED BY <2>1, WakeupFacts
  <1>1. TypeOK'
    <2>1. pc' \in [Procs -> PCs]
      <3>1. [pc EXCEPT ![p] = "commit"] \in [Procs -> PCs]
        BY DEF TypeOK, PCs
      <3>2. pc' = [pc EXCEPT ![p] = "commit"] \/ pc' = wakeup(left)
        BY Zenon, <1>0 DEF end_op
      <3> HIDE DEF left
      <3> QED BY Zenon, <3>1, <3>2, <1>w
    <2>2. outstanding' \in Nat /\ wrote' \in [Procs -> SUBSET Blocks]
      BY <1>0 DEF end_op, TypeOK
    <2>3. /\ committing' \in BOOLEAN /\ tail' \in Nat
          /\ phase' \in {phase, "finish", "write_log"}
      <3>1. CASE outstanding = 1
        BY <1>0, <3>1 DEF end_op
      <3>2. CASE outstanding # 1
        BY <1>0, <3>2 DEF end_op, TypeOK
      <3> QED BY <3>1, <3>2
    <2> QED BY <1>0, <2>1, <2>2, <2>3 DEF end_op, TypeOK, PCs
  <1>2. InOp' = InOp \ {p}
    BY Zenon, <1>0, <1>w DEF end_op, TypeOK, InOp
  <1>3. Cardinality(InOp') = outstanding - 1
    BY Zenon, <1>0, <1>2, InOpFinite, FS_RemoveElement DEF PhaseInv
  <1>4. PhaseInv'
    <2>1. CASE outstanding = 1
      BY <1>0, <1>3, <2>1 DEF end_op, PhaseInv, TypeOK
    <2>2. CASE outstanding # 1
      BY Zenon, <1>0, <1>3, <1>w, <2>2 DEF end_op, PhaseInv, TypeOK
    <2> QED BY <2>1, <2>2
  <1>5. HeadInv'
    BY <1>0 DEF end_op, HeadInv, TypeOK
  <1>6. CacheInv'
    BY <1>0 DEF end_op, HeadInv, CacheInv, Pending, TypeOK, Range
  <1>7. DataInv'
    BY <1>0 DEF end_op, HeadInv, DataInv, TypeOK
  <1> QED BY <1>1, <1>4, <1>5, <1>6, <1>7

\* The copy of a transaction's blocks into the log.
LEMMA WriteLogInv == LogInv /\ write_log => LogInv'
  <1> SUFFICES ASSUME LogInv, write_log PROVE LogInv'
    OBVIOUS
  <1> USE DEF LogInv
  <1>1. /\ tail + 1 \in 1..Len(lh) /\ tail + 1 \in 1..(NLOG - 1)
        /\ lh[tail + 1] \in Blocks /\ cache[lh[tail + 1]] \in Val
    BY DEF write_log, TypeOK, HeadInv, CacheInv, Pending, Range
  <1>2. TypeOK'
    BY <1>1 DEF write_log, TypeOK, Entries
  <1>3. PhaseInv'
    BY DEF write_log, PhaseInv, InOp
  <1>4. HeadInv'
    BY <1>1 DEF write_log, HeadInv, TypeOK
  <1>5. CacheInv'
    BY DEF write_log, CacheInv, Pending
  <1>6. DataInv'
    BY <1>1 DEF write_log, HeadInv, DataInv, TypeOK
  <1> QED BY <1>2, <1>3, <1>4, <1>5, <1>6

\* The header write that commits.
LEMMA WriteHeadInv == LogInv /\ write_head => LogInv'
  <1> SUFFICES ASSUME LogInv, write_head PROVE LogInv'
    OBVIOUS
  <1> USE DEF LogInv
  <1>1. TypeOK'
    BY DEF write_head, TypeOK
  <1>2. PhaseInv'
    BY DEF write_head, PhaseInv, InOp
  <1>3. HeadInv'
    BY DEF write_head, HeadInv, TypeOK
  <1>4. CacheInv'
    <2>1. Pending' = Pending
      <3>1. Pending = Range(lh) /\ Pending' = {lh[i] : i \in (0 + 1)..Len(lh)}
        BY DEF write_head, Pending
      <3>2. DOMAIN lh = (0 + 1)..Len(lh)
        BY DEF TypeOK
      <3> QED BY <3>1, <3>2 DEF Range
    <2> QED BY <2>1 DEF write_head, CacheInv
  <1>5. DataInv'
    <2>1. \A i \in 1..Len(lh) : logdata[i] \in Val
      BY DEF write_head, DataInv, CacheInv, Pending, Range, TypeOK
    <2> QED BY <2>1 DEF write_head, HeadInv, DataInv, TypeOK, Range
  <1> QED BY <1>1, <1>2, <1>3, <1>4, <1>5

\* One block of install_trans() and its bunpin().
LEMMA InstallInv == LogInv /\ install_trans => LogInv'
  <1> SUFFICES ASSUME LogInv, install_trans PROVE LogInv'
    OBVIOUS
  <1> USE DEF LogInv
  <1> DEFINE b == lh[tail + 1]
  <1>1. /\ tail + 1 \in 1..Len(lh) /\ tail + 1 \in 1..(NLOG - 1)
        /\ b \in Blocks /\ b \in Range(head)
        /\ logdata[tail + 1] \in Val /\ logdata[tail + 1] = cache[b]
        /\ pin[b] = 1 /\ phase = "install" /\ head = lh
    BY DEF install_trans, TypeOK, HeadInv, DataInv, CacheInv, Pending, Range
  <1>2. \A i \in 1..Len(lh) : i # tail + 1 => lh[i] # b
    BY <1>1 DEF HeadInv, IsInjective, TypeOK
  <1>3. /\ disk' = [disk EXCEPT ![b] = logdata[tail + 1]]
        /\ cache' = [cache EXCEPT ![b] = logdata[tail + 1]]
        /\ pin' = [pin EXCEPT ![b] = 0]
    BY <1>1 DEF install_trans, InstallOne, TypeOK
  <1>4. Pending' = Pending \ {b} /\ b \in Pending
    <2>1. Pending = {lh[i] : i \in (tail + 1)..Len(lh)}
      BY <1>1 DEF Pending
    <2>2. Pending' = {lh[i] : i \in (tail + 2)..Len(lh)}
      <3>1. CASE tail + 1 = Len(lh)
        <4>1. Pending' = {}
          BY <3>1 DEF install_trans, Pending
        <4>2. (tail + 2)..Len(lh) = {}
          BY <3>1 DEF TypeOK
        <4> QED BY <4>1, <4>2
      <3>2. CASE tail + 1 # Len(lh)
        <4>1. Pending' = {lh[i] : i \in ((tail + 1) + 1)..Len(lh)}
          BY <3>2 DEF install_trans, InstallOne, Pending
        <4>2. (tail + 1) + 1 = tail + 2
          BY DEF TypeOK
        <4> QED BY <4>1, <4>2
      <3> QED BY <3>1, <3>2
    <2>3. (tail + 1)..Len(lh) = {tail + 1} \union (tail + 2)..Len(lh)
      BY <1>1 DEF TypeOK
    <2>4. \A i \in (tail + 2)..Len(lh) : lh[i] # b
      BY <1>1, <1>2 DEF TypeOK
    <2>5. b \in Pending
      BY <2>1, <2>3
    <2>6. Pending = {b} \union Pending'
      BY <2>1, <2>2, <2>3
    <2>7. b \notin Pending'
      BY <2>2, <2>4
    <2> QED BY <2>5, <2>6, <2>7
  <1> HIDE DEF b
  <1>5. TypeOK'
    BY <1>1, <1>3 DEF install_trans, InstallOne, TypeOK, Entries
  <1>6. PhaseInv'
    BY DEF install_trans, PhaseInv, InOp
  <1>7. HeadInv'
    BY <1>1 DEF install_trans, InstallOne, HeadInv, TypeOK
  <1>8. CacheInv'
    BY <1>1, <1>3, <1>4 DEF CacheInv, TypeOK
  <1>9. DataInv'
    BY <1>1, <1>2, <1>3 DEF install_trans, InstallOne, HeadInv, DataInv, TypeOK, b
  <1> QED BY <1>5, <1>6, <1>7, <1>8, <1>9

\* One block of install_trans() during recovery.
LEMMA RecoverInstallInv == LogInv /\ recover_install => LogInv'
  <1> SUFFICES ASSUME LogInv, recover_install PROVE LogInv'
    OBVIOUS
  <1> USE DEF LogInv
  <1> DEFINE b == lh[tail + 1]
  <1>1. /\ tail + 1 \in 1..Len(lh) /\ tail + 1 \in 1..(NLOG - 1)
        /\ b \in Blocks /\ b \in Range(head)
        /\ logdata[tail + 1] \in Val /\ phase = "rinstall" /\ head = lh
    BY DEF recover_install, TypeOK, HeadInv, DataInv, Range
  <1>2. \A i \in 1..Len(lh) : i # tail + 1 => lh[i] # b
    BY <1>1 DEF HeadInv, IsInjective, TypeOK
  <1>3. /\ disk' = [disk EXCEPT ![b] = logdata[tail + 1]]
        /\ cache' = [cache EXCEPT ![b] = logdata[tail + 1]]
    BY DEF recover_install, InstallOne
  <1> HIDE DEF b
  <1>5. TypeOK'
    BY <1>1, <1>3 DEF recover_install, InstallOne, TypeOK, Entries
  <1>6. PhaseInv'
    BY DEF recover_install, PhaseInv, InOp
  <1>7. HeadInv'
    BY <1>1 DEF recover_install, InstallOne, HeadInv, TypeOK
  <1>8. CacheInv'
    BY <1>1, <1>3 DEF recover_install, CacheInv, Pending, TypeOK
  <1>9. DataInv'
    BY <1>1, <1>2, <1>3
       DEF recover_install, InstallOne, HeadInv, DataInv, TypeOK, b
  <1> QED BY <1>5, <1>6, <1>7, <1>8, <1>9

\* Erasing the header, after commit or after recovery.
LEMMA ClearInv == LogInv /\ (clear_head \/ recover_clear) => LogInv'
  <1> SUFFICES ASSUME LogInv, clear_head \/ recover_clear PROVE LogInv'
    OBVIOUS
  <1> USE DEF LogInv, clear_head, recover_clear
  <1>1. TypeOK'
    <2>1. <<>> \in Seq(Blocks)
      OBVIOUS
    <2>2. CASE clear_head
      BY <2>1, <2>2 DEF TypeOK
    <2>3. CASE recover_clear
      BY <2>1, <2>3 DEF TypeOK
    <2> QED BY <2>2, <2>3
  <1>2. PhaseInv'
    <2>1. CASE clear_head
      BY <2>1 DEF PhaseInv, InOp
    <2>2. CASE recover_clear
      BY <2>2 DEF PhaseInv, InOp
    <2> QED BY <2>1, <2>2
  <1>3. HeadInv'
    BY DEF HeadInv, IsInjective, TypeOK
  <1>4. Pending = {} /\ Pending' = {}
    BY DEF Pending, Range
  <1>5. CacheInv'
    BY <1>4 DEF CacheInv
  <1>6. DataInv'
    BY DEF DataInv, Range, TypeOK
  <1> QED BY <1>1, <1>2, <1>3, <1>5, <1>6

\* The committer lets the others in again.
LEMMA FinishInv ==
  ASSUME LogInv, NEW p \in Procs, finish_commit(p) PROVE LogInv'
  <1> USE DEF LogInv
  <1> DEFINE left == [pc EXCEPT ![p] = "idle"]
  <1>w. /\ left \in [Procs -> PCs]
        /\ wakeup(left) \in [Procs -> PCs]
        /\ \A q \in Procs : /\ wakeup(left)[q] = "inop" <=> left[q] = "inop"
                            /\ wakeup(left)[q] = "commit" <=> left[q] = "commit"
    <2>1. left \in [Procs -> PCs]
      BY DEF TypeOK, PCs
    <2> HIDE DEF left
    <2> QED BY <2>1, WakeupFacts
  <1>1. TypeOK'
    BY Zenon, <1>w DEF finish_commit, TypeOK, PCs
  <1>2. InOp' = InOp
    BY Zenon, <1>w DEF finish_commit, TypeOK, InOp
  <1>3. PhaseInv'
    <2>1. /\ phase' = "run" /\ committing' = FALSE /\ outstanding' = outstanding
          /\ pc[p] = "commit" /\ pc' = wakeup(left)
      BY Zenon DEF finish_commit
    <2>2. ASSUME NEW q \in Procs PROVE pc'[q] # "commit"
      <3>1. left[q] # "commit"
        BY Zenon, <2>1 DEF PhaseInv, TypeOK
      <3> HIDE DEF left
      <3> QED BY Zenon, <3>1, <2>1, <1>w
    <2> QED BY Zenon, <1>2, <2>1, <2>2 DEF PhaseInv
  <1>4. HeadInv'
    BY DEF finish_commit, HeadInv, PhaseInv
  <1>5. CacheInv'
    BY DEF finish_commit, CacheInv, Pending, HeadInv, Range
  <1>6. DataInv'
    BY DEF finish_commit, DataInv
  <1> QED BY <1>1, <1>3, <1>4, <1>5, <1>6

\* Recovery reads the header.
LEMMA ReadHeadInv == LogInv /\ read_head => LogInv'
  <1> SUFFICES ASSUME LogInv, read_head PROVE LogInv'
    OBVIOUS
  <1> USE DEF LogInv, read_head
  <1>1. TypeOK'
    BY DEF TypeOK
  <1>2. PhaseInv'
    BY DEF PhaseInv, InOp
  <1>3. HeadInv'
    BY DEF HeadInv, TypeOK
  <1>4. CacheInv'
    BY DEF CacheInv, Pending
  <1>5. DataInv'
    BY DEF DataInv, TypeOK
  <1> QED BY <1>1, <1>2, <1>3, <1>4, <1>5

\* The buffer cache reads in and recycles buffers; kill() wakes a sleeper.
LEMMA EnvInv ==
  ASSUME LogInv,
         \/ \E b \in Blocks : bread(b) \/ recycle(b)
         \/ \E p \in Procs : kill(p)
  PROVE  LogInv'
  <1> USE DEF LogInv
  <1>1. ASSUME NEW b \in Blocks, bread(b) PROVE LogInv'
    <2>1. disk[b] \in Val
      <3>1. CASE b \notin Range(head)
        BY <3>1 DEF DataInv
      <3>2. CASE b \in Range(head)
        <4>1. PICK i \in 1..Len(head) : head[i] = b
          BY <3>2 DEF Range, TypeOK
        <4>2. phase \in {"install", "clear"} /\ head = lh
          BY <1>1, <4>1 DEF bread, Recovering, TypeOK, HeadInv
        <4>3. b \notin Pending
          BY <1>1 DEF bread, CacheInv
        <4>4. phase = "install" => i \in 1..tail
          BY <4>1, <4>2, <4>3 DEF Pending, TypeOK
        <4>5. disk[b] = logdata[i] /\ logdata[i] \in Val
          BY <4>1, <4>2, <4>4 DEF DataInv
        <4> QED BY <4>5
      <3> QED BY <3>1, <3>2
    <2>2. TypeOK'
      BY <1>1, <2>1 DEF bread, TypeOK
    <2>3. PhaseInv' /\ HeadInv'
      BY <1>1 DEF bread, PhaseInv, HeadInv, InOp
    <2>4. CacheInv' /\ b \notin Pending
      BY <1>1 DEF bread, CacheInv, Pending, TypeOK
    <2>5. DataInv'
      <3>1. /\ UNCHANGED <<disk, logdata, head, lh, phase, tail>>
            /\ \A c \in Blocks : c # b => cache'[c] = cache[c]
        BY Zenon, <1>1 DEF bread, TypeOK
      <3>2. ASSUME NEW i \in 1..Len(lh),
                   \/ phase \in {"write_log", "write_head"}
                   \/ phase = "install" /\ i > tail
            PROVE  cache'[lh[i]] = cache[lh[i]]
        <4>1. lh[i] \in Pending /\ lh[i] \in Blocks
          BY <3>2 DEF Pending, Range, TypeOK
        <4> QED BY Zenon, <2>4, <3>1, <4>1
      <3>3. ASSUME phase = "write_log", NEW i \in 1..tail
            PROVE  logdata'[i] = cache'[lh'[i]]
        <4>1. tail < Len(lh) /\ tail \in Nat /\ Len(lh) \in Nat
          BY <3>3 DEF HeadInv, TypeOK
        <4>2. i \in 1..Len(lh)
          BY <4>1
        <4>3. logdata[i] = cache[lh[i]]
          BY Zenon, <3>3 DEF DataInv
        <4>4. cache'[lh[i]] = cache[lh[i]]
          BY <3>2, <3>3, <4>2
        <4> QED BY Zenon, <3>1, <4>3, <4>4
      <3>4. ASSUME phase = "write_head", NEW i \in 1..Len(lh)
            PROVE  logdata'[i] = cache'[lh'[i]]
        <4>1. logdata[i] = cache[lh[i]]
          BY Zenon, <3>4 DEF DataInv
        <4>2. cache'[lh[i]] = cache[lh[i]]
          BY <3>2, <3>4
        <4> QED BY Zenon, <3>1, <4>1, <4>2
      <3>5. ASSUME phase = "install", NEW i \in (tail + 1)..Len(lh)
            PROVE  logdata'[i] = cache'[lh'[i]]
        <4>1. i \in 1..Len(lh) /\ i > tail
          BY <3>5 DEF TypeOK
        <4>2. logdata[i] = cache[lh[i]]
          BY Zenon, <3>5 DEF DataInv
        <4>3. cache'[lh[i]] = cache[lh[i]]
          BY <3>2, <3>5, <4>1
        <4> QED BY Zenon, <3>1, <4>2, <4>3
      <3> QED BY Zenon, <3>1, <3>3, <3>4, <3>5 DEF DataInv
    <2> QED BY <2>2, <2>3, <2>4, <2>5
  <1>2. ASSUME NEW b \in Blocks, recycle(b) PROVE LogInv'
    <2>1. b \notin Pending
      BY <1>2 DEF recycle, CacheInv
    <2>2. TypeOK'
      BY <1>2 DEF recycle, TypeOK
    <2>3. PhaseInv' /\ HeadInv'
      BY <1>2 DEF recycle, PhaseInv, HeadInv, InOp
    <2>4. CacheInv'
      BY <1>2, <2>1 DEF recycle, CacheInv, Pending, TypeOK
    <2>5. DataInv'
      BY <1>2, <2>1 DEF recycle, DataInv, Pending, Range, TypeOK, HeadInv
    <2> QED BY <2>2, <2>3, <2>4, <2>5
  <1>3. ASSUME NEW p \in Procs, kill(p) PROVE LogInv'
    <2>1. TypeOK' /\ InOp' = InOp
      BY <1>3 DEF kill, TypeOK, InOp
    <2>2. PhaseInv'
      BY <1>3, <2>1 DEF kill, PhaseInv, TypeOK
    <2>3. HeadInv' /\ CacheInv' /\ DataInv'
      BY <1>3 DEF kill, HeadInv, CacheInv, Pending, DataInv
    <2> QED BY <2>1, <2>2, <2>3
  <1> QED BY <1>1, <1>2, <1>3

\* A crash loses the memory and may tear the block being written, which is
\* either an uncommitted log block or a home block the log still covers.
LEMMA CrashInv == LogInv /\ Crash => LogInv'
  <1> SUFFICES ASSUME LogInv, Crash PROVE LogInv'
    OBVIOUS
  <1> USE DEF LogInv
  <1>1. /\ logdata' \in [1..(NLOG - 1) -> Entries]
        /\ \A i \in 1..Len(head) : logdata'[i] = logdata[i]
    <2>1. CASE phase = "write_log"
      <3>1. /\ tail + 1 \in 1..Len(lh) /\ tail + 1 \in 1..(NLOG - 1)
            /\ lh[tail + 1] \in Blocks /\ cache[lh[tail + 1]] \in Val
            /\ head = <<>>
        BY <2>1 DEF TypeOK, HeadInv, CacheInv, Pending, Range
      <3>2. PICK x \in Residue(logdata[tail + 1], cache[lh[tail + 1]]) :
               logdata' = [logdata EXCEPT ![tail + 1] = x]
        BY <2>1 DEF Crash
      <3>3. x \in Entries
        BY <3>1 DEF Residue, Entries, TypeOK
      <3>4. 1..Len(head) = {}
        BY <3>1
      <3> QED BY <3>1, <3>2, <3>3, <3>4 DEF TypeOK
    <2>2. CASE phase # "write_log"
      BY <2>2 DEF Crash, TypeOK
    <2> QED BY <2>1, <2>2
  <1>2. /\ disk' \in [Blocks -> Entries]
        /\ \A b \in Blocks : b \notin Range(head) => disk'[b] = disk[b]
    <2>1. CASE phase \in {"install", "rinstall"}
      <3>1. /\ tail + 1 \in 1..Len(lh) /\ tail + 1 \in 1..(NLOG - 1)
            /\ lh[tail + 1] \in Blocks /\ lh[tail + 1] \in Range(head)
        BY <2>1 DEF TypeOK, HeadInv, Range
      <3>2. PICK x \in Residue(disk[lh[tail + 1]], logdata[tail + 1]) :
               disk' = [disk EXCEPT ![lh[tail + 1]] = x]
        BY <2>1 DEF Crash
      <3>3. x \in Entries
        BY <3>1 DEF Residue, Entries, TypeOK
      <3> QED BY <3>1, <3>2, <3>3 DEF TypeOK
    <2>2. CASE phase \notin {"install", "rinstall"}
      BY <2>2 DEF Crash, TypeOK
    <2> QED BY <2>1, <2>2
  <1>3. TypeOK'
    <2>1. head' \in Seq(Blocks) /\ lh' \in Seq(Blocks)
      BY DEF Crash, TypeOK
    <2>2. /\ cache' \in [Blocks -> Val \union {NotCached}]
          /\ pin' \in [Blocks -> {0, 1}]
      BY DEF Crash
    <2>3. pc' \in [Procs -> PCs] /\ wrote' \in [Procs -> SUBSET Blocks]
      BY DEF Crash, PCs
    <2>4. /\ outstanding' \in Nat /\ committing' \in BOOLEAN /\ tail' \in Nat
          /\ phase' = "read_head" /\ panicked' \in BOOLEAN
      BY Zenon DEF Crash
    <2> QED BY <1>1, <1>2, <2>1, <2>2, <2>3, <2>4 DEF TypeOK, PCs
  <1>4. PhaseInv'
    <2>1. InOp' = {}
      BY DEF Crash, InOp
    <2>2. Cardinality(InOp') = 0
      BY <2>1, FS_EmptySet
    <2> QED BY Zenon, <2>2 DEF Crash, PhaseInv
  <1>5. HeadInv'
    BY DEF Crash, HeadInv, IsInjective
  <1>6. CacheInv'
    BY DEF Crash, CacheInv, Pending
  <1>7. DataInv'
    BY Zenon, <1>1, <1>2 DEF Crash, DataInv
  <1> QED BY <1>3, <1>4, <1>5, <1>6, <1>7

\* Every step preserves the invariant.
LEMMA NextInv == LogInv /\ [Next]_vars => LogInv'
  <1> SUFFICES ASSUME LogInv, [Next]_vars PROVE LogInv'
    OBVIOUS
  <1>1. CASE UNCHANGED vars
    BY <1>1 DEF vars, LogInv, TypeOK, PhaseInv, HeadInv, CacheInv, DataInv,
                Pending, InOp
  <1>2. CASE Next
    <2>1. CASE Commit
      BY <2>1, WriteLogInv, WriteHeadInv, InstallInv, ClearInv DEF Commit
    <2>2. CASE Recover
      BY <2>2, ReadHeadInv, RecoverInstallInv, ClearInv DEF Recover
    <2> QED BY <1>2, <2>1, <2>2, BeginInv, EndInv, FinishInv, EnvInv,
               LogWriteInv, CrashInv DEF Next
  <1> QED BY <1>1, <1>2

\* The inductive invariant holds in every reachable state, whatever the
\* number of processes, blocks and log entries.
THEOREM LogInvariant == Spec => []LogInv
  BY InitInv, NextInv, PTL DEF Spec

\* Type correctness of the log's variables.
THEOREM TypeCorrect == Spec => []TypeOK
  <1>1. LogInv => TypeOK
    BY DEF LogInv
  <1> QED BY <1>1, LogInvariant, PTL

\* Nothing sleeps in begin_op() with nobody left to call wakeup(&log).
LEMMA SleeperStep ==
  LogInv /\ SleeperHasWaker /\ [Next]_vars => SleeperHasWaker'
  <1> SUFFICES ASSUME LogInv, SleeperHasWaker, [Next]_vars
               PROVE  SleeperHasWaker'
    OBVIOUS
  <1> USE DEF SleeperHasWaker
  <1>0. LogInv'
    BY NextInv
  <1>1. CASE UNCHANGED vars
    BY <1>1 DEF vars
  <1>2. ASSUME NEW p \in Procs, begin_op(p) PROVE SleeperHasWaker'
    <2>1. CASE outstanding' = outstanding + 1
      BY <1>2, <2>1 DEF begin_op, LogInv, TypeOK
    <2>2. CASE committing
      BY <1>2, <2>2 DEF begin_op, LogInv, TypeOK
    <2>3. CASE /\ Len(lh) + (outstanding + 1) * MAXOPBLOCKS > LOGSIZE
               /\ ~committing
      <3>1. phase = "run"
        BY <1>2, <2>3 DEF begin_op, Recovering, LogInv, TypeOK, PhaseInv
      <3>2. ASSUME outstanding = 0 PROVE FALSE
        <4>1. Len(lh) = 0
          BY <3>1, <3>2 DEF LogInv, HeadInv
        <4> QED BY <2>3, <3>2, <4>1
      <3>3. outstanding > 0
        BY <3>2 DEF LogInv, TypeOK
      <3> QED BY <1>2, <3>3, <2>3 DEF begin_op, LogInv, TypeOK
    <2> QED BY Zenon, <1>2, <2>1, <2>2, <2>3 DEF begin_op
  <1>3. ASSUME NEW p \in Procs, end_op(p) PROVE SleeperHasWaker'
    <2> DEFINE left == [pc EXCEPT ![p] = "idle"]
    <2>1. CASE committing' 
      BY <2>1
    <2>2. CASE pc' = wakeup(left)
      <3>1. left \in [Procs -> PCs]
        BY DEF LogInv, TypeOK, PCs
      <3> HIDE DEF left
      <3> QED BY <2>2, <3>1, WakeupFacts
    <2> QED BY <1>3, <2>1, <2>2 DEF end_op
  <1>4. ASSUME NEW p \in Procs, finish_commit(p) PROVE SleeperHasWaker'
    <2> DEFINE left == [pc EXCEPT ![p] = "idle"]
    <2>1. left \in [Procs -> PCs]
      BY DEF LogInv, TypeOK, PCs
    <2>2. pc' = wakeup(left)
      BY Zenon, <1>4 DEF finish_commit
    <2> HIDE DEF left
    <2> QED BY <2>1, <2>2, WakeupFacts
  <1>5. ASSUME NEW p \in Procs, kill(p) PROVE SleeperHasWaker'
    BY <1>5 DEF kill, LogInv, TypeOK
  <1>6. CASE /\ UNCHANGED <<pc, outstanding, committing>>
    BY <1>6
  <1>7. CASE Crash
    BY <1>7 DEF Crash
  <1> QED
    BY Zenon, <1>1, <1>2, <1>3, <1>4, <1>5, <1>6, <1>7
       DEF Next, Commit, Recover, log_write, bread, recycle, write_log,
           write_head, install_trans, clear_head, read_head, recover_install,
           recover_clear

\* A process asleep in begin_op() always has an open call or a running
\* commit ahead of it, so a wakeup(&log) is still to come.
THEOREM SleeperSafe == Spec => []SleeperHasWaker
  <1>1. Init => SleeperHasWaker
    BY DEF Init, SleeperHasWaker
  <1> QED BY <1>1, SleeperStep, LogInvariant, PTL DEF Spec

-----------------------------------------------------------------------------
(***************************************************************************)
(* Refinement of AtomicDisk.                                               *)
(***************************************************************************)

RecoveredMeaning ==
  /\ \A i \in 1..Len(head) : Recovered[head[i]] = logdata[i]
  /\ \A b \in Blocks : b \notin Range(head) => Recovered[b] = disk[b]
  /\ Recovered \in [Blocks -> Val]

\* What recovery would install, entry by entry.
LEMMA RecoveredFacts == LogInv => RecoveredMeaning
  <1> SUFFICES ASSUME LogInv PROVE RecoveredMeaning
    OBVIOUS
  <1>1. ASSUME NEW i \in 1..Len(head) PROVE Recovered[head[i]] = logdata[i]
    <2> DEFINE b == head[i]
               c == CHOOSE j \in DOMAIN head : head[j] = b
    <2>1. i \in DOMAIN head /\ b \in Blocks /\ b \in Range(head)
      BY DEF LogInv, TypeOK, Range
    <2>2. c \in DOMAIN head /\ head[c] = b
      BY <2>1
    <2>3. c = i
      BY <2>1, <2>2 DEF LogInv, HeadInv, IsInjective
    <2> QED BY Zenon, <2>1, <2>3 DEF Recovered
  <1>2. ASSUME NEW b \in Blocks, b \notin Range(head)
        PROVE  Recovered[b] = disk[b]
    BY <1>2 DEF Recovered
  <1>3. ASSUME NEW b \in Blocks PROVE Recovered[b] \in Val
    <2>1. CASE b \in Range(head)
      <3>1. PICK i \in 1..Len(head) : head[i] = b
        BY <2>1 DEF LogInv, TypeOK, Range
      <3> QED BY <1>1, <3>1 DEF LogInv, DataInv
    <2>2. CASE b \notin Range(head)
      BY <1>2, <2>2 DEF LogInv, DataInv
    <2> QED BY <2>1, <2>2
  <1>4. Recovered \in [Blocks -> Val]
    <2>1. Recovered = [b \in Blocks |-> Recovered[b]]
      BY DEF Recovered
    <2> HIDE DEF Recovered
    <2> QED BY <1>3, <2>1
  <1> QED BY <1>1, <1>2, <1>4 DEF RecoveredMeaning

\* Recovery's outcome depends on the header, the log blocks it names and the
\* home blocks it does not name.
LEMMA RecoveredSame ==
  ASSUME LogInv, LogInv', head' = head,
         \A i \in 1..Len(head) : logdata'[i] = logdata[i],
         \A b \in Blocks : b \notin Range(head) => disk'[b] = disk[b]
  PROVE  Recovered' = Recovered
  <1>0. RecoveredMeaning /\ RecoveredMeaning'
    BY RecoveredFacts, PTL
  <1>1. \A i \in 1..Len(head) : Recovered'[head[i]] = Recovered[head[i]]
    BY <1>0 DEF RecoveredMeaning
  <1>2. \A b \in Blocks : b \notin Range(head) => Recovered'[b] = Recovered[b]
    BY <1>0 DEF RecoveredMeaning
  <1>3. \A b \in Blocks : Recovered'[b] = Recovered[b]
    <2> SUFFICES ASSUME NEW b \in Blocks, b \in Range(head)
                 PROVE  Recovered'[b] = Recovered[b]
      BY <1>2
    <2>1. PICK i \in 1..Len(head) : head[i] = b
      BY DEF LogInv, TypeOK, Range
    <2> QED BY <1>1, <2>1
  <1>4. Recovered \in [Blocks -> Val] /\ Recovered' \in [Blocks -> Val]
    BY <1>0 DEF RecoveredMeaning
  <1> QED BY <1>3, <1>4

\* With nothing left to install, the disk itself is the stable contents.
LEMMA RecoveredIsDisk ==
  LogInv /\ (\A i \in 1..Len(head) : disk[head[i]] = logdata[i])
    => Recovered = disk
  <1> SUFFICES ASSUME LogInv,
                      \A i \in 1..Len(head) : disk[head[i]] = logdata[i]
               PROVE  Recovered = disk
    OBVIOUS
  <1>1. ASSUME NEW b \in Blocks PROVE Recovered[b] = disk[b]
    <2>1. CASE b \in Range(head)
      <3>1. PICK i \in 1..Len(head) : head[i] = b
        BY <2>1 DEF LogInv, TypeOK, Range
      <3> QED BY <3>1, RecoveredFacts DEF RecoveredMeaning
    <2>2. CASE b \notin Range(head)
      BY <2>2, RecoveredFacts DEF RecoveredMeaning
    <2> QED BY <2>1, <2>2
  <1>2. disk \in [Blocks -> Entries] /\ Recovered \in [Blocks -> Val]
    BY RecoveredFacts DEF LogInv, TypeOK, RecoveredMeaning
  <1> QED BY <1>1, <1>2

\* With nothing pending, every buffer agrees with the disk.
LEMMA ViewIsDisk == LogInv /\ Pending = {} => View = disk
  <1> SUFFICES ASSUME LogInv, Pending = {} PROVE View = disk
    OBVIOUS
  <1>1. \A b \in Blocks : View[b] = disk[b]
    BY DEF View, LogInv, CacheInv
  <1>2. View = [b \in Blocks |-> View[b]]
    BY DEF View
  <1>3. disk = [b \in Blocks |-> disk[b]]
    BY DEF LogInv, TypeOK
  <1> HIDE DEF View
  <1> QED BY <1>1, <1>2, <1>3

\* Quiescence means durability: once the last end_op() has returned, a crash
\* loses nothing.
THEOREM QuiescenceSafe == Spec => []QuiescentDurable
  <1>1. LogInv => QuiescentDurable
    <2> SUFFICES ASSUME LogInv, phase = "run", outstanding = 0
                 PROVE  View = Recovered /\ lh = <<>>
      BY DEF QuiescentDurable
    <2>1. lh = <<>> /\ head = <<>>
      BY DEF LogInv, HeadInv
    <2>2. Pending = {}
      BY <2>1 DEF Pending, Range
    <2>3. Recovered = disk
      BY <2>1, RecoveredIsDisk
    <2> QED BY <2>1, <2>2, <2>3, ViewIsDisk
  <1> QED BY <1>1, LogInvariant, PTL

\* Home blocks are overwritten only under a header that commits them.
THEOREM WriteAheadSafe == Spec => WriteAhead
  <1>1. LogInv /\ [Next]_vars
          => [\A b \in Blocks : disk'[b] # disk[b] => b \in Range(head)]_vars
    <2> SUFFICES ASSUME LogInv, Next, NEW b \in Blocks, disk'[b] # disk[b]
                 PROVE  b \in Range(head)
      OBVIOUS
    <2>1. CASE install_trans \/ recover_install
      <3>1. b = lh[tail + 1] /\ head = lh /\ tail + 1 \in DOMAIN lh
        BY <2>1 DEF install_trans, recover_install, InstallOne, LogInv,
                    TypeOK, HeadInv
      <3> QED BY <3>1 DEF Range
    <2>2. CASE Crash
      <3>1. b = lh[tail + 1] /\ head = lh /\ tail + 1 \in DOMAIN lh
        BY <2>2 DEF Crash, LogInv, TypeOK, HeadInv
      <3> QED BY <3>1 DEF Range
    <2> QED
      BY Zenon, <2>1, <2>2 DEF Next, Commit, Recover, begin_op, end_op, log_write,
         finish_commit, kill, bread, recycle, write_log, write_head,
         clear_head, read_head, recover_clear
  <1> QED BY <1>1, LogInvariant, PTL DEF Spec, WriteAhead

Mem == IF Recovering THEN Recovered ELSE View

\* Steps that touch no block contents look idle to the atomic disk.
LEMMA QuietStep ==
  ASSUME LogInv, LogInv', UNCHANGED <<disk, logdata, head, cache>>,
         Recovering' = Recovering
  PROVE  Recovered' = Recovered /\ Mem' = Mem
  <1>1. disk' = disk /\ logdata' = logdata /\ head' = head /\ cache' = cache
    OBVIOUS
  <1>2. Recovered' = Recovered
    BY <1>1, RecoveredSame
  <1>3. View' = View
    BY <1>1 DEF View
  <1> QED BY <1>2, <1>3, Zenon DEF Mem

\* Every step of the log is a step of the atomic disk or leaves it alone.
LEMMA RefinementStep ==
  LogInv /\ LogInv' /\ [Next]_vars => [AD!ANext]_(AD!avars)
  <1> SUFFICES ASSUME LogInv, LogInv', [Next]_vars
               PROVE  \/ AD!ANext
                      \/ Recovered' = Recovered /\ Mem' = Mem
                         /\ outstanding' = outstanding
    BY DEF AD!avars, Mem
  <1> DEFINE Idle == /\ Recovered' = Recovered /\ Mem' = Mem
                     /\ outstanding' = outstanding
  <1>1. CASE UNCHANGED vars
    BY <1>1, QuietStep DEF vars, Recovering
  <1>2. ASSUME NEW p \in Procs, begin_op(p) PROVE Idle \/ AD!Begin
    <2>1. Recovered' = Recovered /\ Mem' = Mem
      BY <1>2, QuietStep DEF begin_op, Recovering
    <2> QED BY <1>2, <2>1 DEF begin_op, AD!Begin, Mem
  <1>3. ASSUME NEW p \in Procs, end_op(p) PROVE AD!End
    <2>1. outstanding > 0 /\ phase = "run" /\ ~Recovering'
      <3>1. p \in InOp
        BY <1>3 DEF InOp, end_op
      <3>2. Cardinality(InOp) # 0
        BY <3>1, InOpFinite, FS_EmptySet
      <3> QED BY <1>3, <3>2, InOpFinite DEF end_op, LogInv, PhaseInv, Recovering
    <2>2. Recovered' = Recovered /\ Mem' = Mem
      BY <1>3, <2>1, QuietStep DEF end_op, Recovering
    <2> QED BY <1>3, <2>1, <2>2 DEF end_op, AD!End, Mem
  <1>4. ASSUME NEW p \in Procs, finish_commit(p) PROVE Idle
    BY <1>4, QuietStep DEF finish_commit, Recovering
  <1>5. ASSUME NEW p \in Procs, kill(p) PROVE Idle
    BY <1>5, QuietStep DEF kill, Recovering
  <1>6. ASSUME NEW p \in Procs, NEW b \in Blocks, NEW v \in Val,
               log_write(p, b, v)
        PROVE  Idle \/ AD!WriteBlock(b, v)
    <2>1. outstanding > 0 /\ phase = "run"
      <3>1. p \in InOp
        BY <1>6 DEF InOp, log_write
      <3>2. Cardinality(InOp) # 0
        BY <3>1, InOpFinite, FS_EmptySet
      <3> QED BY <3>2, InOpFinite DEF LogInv, PhaseInv
    <2>2. Recovered' = Recovered /\ ~Recovering /\ ~Recovering'
      <3>1. head' = head /\ logdata' = logdata /\ disk' = disk /\ phase' = phase
        BY <1>6 DEF log_write
      <3>2. Recovered' = Recovered
        BY <3>1, RecoveredSame
      <3> QED BY <2>1, <3>1, <3>2 DEF Recovering
    <2>3. CASE cache' = cache
      BY <1>6, <2>2, <2>3 DEF log_write, View, Mem
    <2>4. CASE cache' = [cache EXCEPT ![b] = v]
      <3>1. View' = [View EXCEPT ![b] = v]
        BY ZenonT(30), <1>6, <2>4 DEF log_write, View, LogInv, TypeOK
      <3> QED BY Zenon, <1>6, <2>1, <2>2, <3>1 DEF log_write, AD!WriteBlock
    <2> QED BY <1>6, <2>3, <2>4 DEF log_write
  <1>7. CASE write_log
    <2>1. head = <<>> /\ head' = head /\ disk' = disk
      BY <1>7 DEF write_log, LogInv, HeadInv
    <2>2. Recovered' = Recovered
      BY <2>1, RecoveredSame
    <2> QED BY <1>7, <2>1, <2>2 DEF write_log, View, Mem, Recovering
  <1>8. CASE write_head
    <2>1. ~Recovering /\ ~Recovering' /\ View' = View /\ outstanding = 0
      BY <1>8 DEF write_head, View, Recovering, LogInv, PhaseInv
    <2>2. RecoveredMeaning'
      BY RecoveredFacts, PTL
    <2>3. ASSUME NEW b \in Blocks PROVE Recovered'[b] = View[b]
      <3>1. CASE b \in Range(lh)
        <4>1. PICK i \in 1..Len(lh) : lh[i] = b
          BY <3>1 DEF LogInv, TypeOK, Range
        <4>2. Recovered'[b] = logdata[i] /\ logdata[i] = cache[b]
          BY Zenon, <1>8, <2>2, <4>1 DEF RecoveredMeaning, write_head, LogInv, DataInv
        <4>3. cache[b] # NotCached
          BY <1>8, <3>1 DEF write_head, LogInv, CacheInv, Pending
        <4> QED BY <4>2, <4>3 DEF View
      <3>2. CASE b \notin Range(lh)
        BY <1>8, <2>2, <3>2 DEF RecoveredMeaning, write_head, LogInv,
                                CacheInv, Pending, View
      <3> QED BY <3>1, <3>2
    <2>4. Recovered' = View
      <3>1. View = [b \in Blocks |-> View[b]]
        BY DEF View
      <3>2. Recovered' \in [Blocks -> Val]
        BY <2>2 DEF RecoveredMeaning
      <3> HIDE DEF View
      <3> QED BY <2>3, <3>1, <3>2
    <2> QED BY <1>8, <2>1, <2>4 DEF write_head, AD!ANext, AD!Commit
  <1>9. CASE install_trans
    <2> DEFINE b == lh[tail + 1]
    <2>1. /\ tail + 1 \in DOMAIN lh /\ b \in Blocks /\ b \in Range(head)
          /\ b \in Pending /\ logdata[tail + 1] = cache[b]
          /\ cache[b] # NotCached
      <3>1. /\ tail + 1 \in DOMAIN lh /\ tail + 1 \in (tail + 1)..Len(lh)
            /\ head = lh /\ phase = "install"
        BY <1>9 DEF install_trans, LogInv, TypeOK, HeadInv
      <3>2. b \in Blocks /\ b \in Range(head) /\ b \in Pending
        BY <3>1 DEF Pending, Range, LogInv, TypeOK
      <3> QED BY <3>1, <3>2 DEF LogInv, DataInv, CacheInv
    <2>2. Recovered' = Recovered
      BY <1>9, <2>1, RecoveredSame DEF install_trans, InstallOne, LogInv, TypeOK
    <2>3. View' = View
      BY <1>9, <2>1 DEF install_trans, InstallOne, View, LogInv, TypeOK
    <2> QED BY <1>9, <2>2, <2>3 DEF install_trans, Mem, Recovering
  <1>10. CASE clear_head \/ recover_clear
    <2>1. \A i \in 1..Len(head) : disk[head[i]] = logdata[i]
      BY <1>10 DEF clear_head, recover_clear, LogInv, DataInv
    <2>2. Pending = {} /\ Pending' = {} /\ head' = <<>> /\ disk' = disk
      BY <1>10 DEF clear_head, recover_clear, Pending, Range
    <2>3. Recovered = disk /\ View = disk
      BY <2>1, <2>2, RecoveredIsDisk, ViewIsDisk
    <2>4. (\A i \in 1..Len(head) : disk[head[i]] = logdata[i])'
      BY <2>2
    <2>5. (Pending = {})'
      BY <2>2
    <2>6. (Recovered = disk)' /\ (View = disk)'
      BY <2>4, <2>5, RecoveredIsDisk, ViewIsDisk, PTL
    <2> QED BY <1>10, <2>2, <2>3, <2>6 DEF clear_head, recover_clear, Mem
  <1>11. CASE read_head
    BY <1>11, QuietStep DEF read_head, Recovering
  <1>12. CASE recover_install
    <2>1. tail + 1 \in DOMAIN lh /\ lh[tail + 1] \in Range(head)
      BY <1>12 DEF recover_install, LogInv, TypeOK, HeadInv, Range
    <2>2. Recovered' = Recovered
      BY <1>12, <2>1, RecoveredSame
         DEF recover_install, InstallOne, LogInv, TypeOK
    <2> QED BY <1>12, <2>2 DEF recover_install, Mem, Recovering
  <1>13. ASSUME NEW b \in Blocks, bread(b) \/ recycle(b) PROVE Idle
    <2>1. Recovered' = Recovered
      <3>1. UNCHANGED <<disk, logdata, head>>
        BY <1>13 DEF bread, recycle
      <3> QED BY <3>1 DEF Recovered
    <2>2. View' = View
      <3>1. CASE bread(b)
        BY <3>1 DEF bread, View, LogInv, TypeOK
      <3>2. CASE recycle(b)
        <4>1. cache[b] = disk[b]
          BY <3>2 DEF recycle, LogInv, CacheInv
        <4> QED BY <3>2, <4>1 DEF recycle, View, LogInv, TypeOK
      <3> QED BY <1>13, <3>1, <3>2
    <2> QED BY <1>13, <2>1, <2>2 DEF bread, recycle, Mem, Recovering
  <1>14. CASE Crash
    <2>1. head' = head /\ Recovering' /\ outstanding' = 0
      BY <1>14 DEF Crash, Recovering
    <2>2. \A i \in 1..Len(head) : logdata'[i] = logdata[i]
      <3>1. CASE phase = "write_log"
        <4>1. 1..Len(head) = {}
          BY <3>1 DEF LogInv, HeadInv
        <4> QED BY <4>1
      <3>2. CASE phase # "write_log"
        BY <1>14, <3>2 DEF Crash
      <3> QED BY <3>1, <3>2
    <2>3. \A b \in Blocks : b \notin Range(head) => disk'[b] = disk[b]
      BY <1>14 DEF Crash, LogInv, TypeOK, HeadInv, Range
    <2>4. Recovered' = Recovered
      BY <2>1, <2>2, <2>3, RecoveredSame
    <2> QED BY <2>1, <2>4 DEF AD!ANext, AD!CrashRestart
  <1> QED
    BY <1>1, <1>2, <1>3, <1>4, <1>5, <1>6, <1>7, <1>8, <1>9, <1>10, <1>11,
       <1>12, <1>13, <1>14 DEF Next, Commit, Recover, AD!ANext

\* The log of kernel/log.c implements the atomic disk: crash atomicity of
\* transactions for every number of processes, blocks and log entries.
THEOREM Refinement == Spec => AtomicDiskSpec
  <1>1. Init => AD!AInit
    <2> SUFFICES ASSUME Init PROVE AD!AInit
      OBVIOUS
    <2>1. Recovered = disk /\ Recovering
      BY InitInv, RecoveredIsDisk DEF Init, Recovering
    <2> QED BY <2>1 DEF Init, AD!AInit
  <1> QED BY <1>1, RefinementStep, LogInvariant, PTL
          DEF Spec, AtomicDiskSpec, AD!ASpec

-----------------------------------------------------------------------------
(***************************************************************************)
(* Log space: what begin_op() reserves is enough.                          *)
(***************************************************************************)

\* Products with the constants of the log are monotone.
LEMMA TimesMonotone ==
  ASSUME NEW k \in Nat, NEW m \in Nat, NEW c \in Nat, k <= m
  PROVE  k * c <= m * c /\ k * c \in Nat /\ m * c \in Nat
  OBVIOUS

\* The charges of a set of calls are finitely many.
LEMMA ChargesFinite ==
  ASSUME NEW A \in SUBSET Procs
  PROVE  /\ IsFiniteSet(Charges(A))
         /\ Cardinality(Charges(A)) \in Nat
         /\ IsFiniteSet(A \intersect InOp)
         /\ Cardinality(A \intersect InOp) \in Nat
  <1>1. IsFiniteSet(Procs \X Blocks)
    BY FS_Product
  <1>2. Charges(A) \in SUBSET (Procs \X Blocks)
    BY DEF Charges
  <1>3. A \intersect InOp \in SUBSET Procs
    OBVIOUS
  <1>4. IsFiniteSet(Charges(A)) /\ IsFiniteSet(A \intersect InOp)
    BY <1>1, <1>2, <1>3, FS_Subset
  <1> QED BY <1>4, FS_CardinalityType

\* The open calls together are charged at most OPW blocks each.
LEMMA ChargesBound ==
  ASSUME LogInv, SpaceInv
  PROVE  Cardinality(Charges(Procs)) <= outstanding * OPW
  <1>1. Procs \intersect InOp = InOp
    BY DEF InOp
  <1> QED BY <1>1 DEF SpaceInv, LogInv, PhaseInv

\* Without open calls nothing is charged.
LEMMA NoCharges ==
  ASSUME LogInv, SpaceInv, outstanding = 0
  PROVE  /\ \A p \in Procs : wrote[p] = {}
         /\ Cardinality(Charges(Procs)) = 0
  <1>1. Cardinality(Charges(Procs)) = 0
    <2>1. Cardinality(Charges(Procs)) \in Nat
      BY Zenon, ChargesFinite
    <2>2. 0 * OPW = 0
      OBVIOUS
    <2> QED BY <2>1, <2>2, ChargesBound
  <1>2. InOp = {}
    BY Zenon, InOpFinite, FS_EmptySet DEF LogInv, PhaseInv
  <1> QED BY <1>1, <1>2 DEF SpaceInv

\* Boot has nothing reserved.
LEMMA SpaceInit == Init => SpaceInv
  <1> SUFFICES ASSUME Init PROVE SpaceInv
    OBVIOUS
  <1>1. \A A \in SUBSET Procs : Charges(A) = {}
    BY DEF Init, Charges
  <1>2. \A A \in SUBSET Procs : Cardinality(Charges(A)) = 0
    BY <1>1, FS_EmptySet
  <1>3. ASSUME NEW A \in SUBSET Procs
        PROVE  Cardinality(Charges(A)) <= Cardinality(A \intersect InOp) * OPW
    <2> DEFINE k == Cardinality(A \intersect InOp)
    <2>1. k \in Nat
      BY ChargesFinite
    <2> HIDE DEF k
    <2>2. k * OPW >= 0
      BY <2>1
    <2> QED BY <1>2, <2>2 DEF k
  <1>4. Procs \in SUBSET Procs
    OBVIOUS
  <1> QED BY <1>2, <1>3, <1>4 DEF Init, SpaceInv

\* Steps that leave the calls and both headers alone.
LEMMA SpaceQuiet ==
  ASSUME SpaceInv, UNCHANGED <<lh, head, outstanding, wrote, panicked>>,
         InOp' = InOp
  PROVE  SpaceInv'
  BY Zenon DEF SpaceInv, Charges

\* begin_op() admits a call only if its whole reservation fits.
LEMMA SpaceBegin ==
  ASSUME LogInv, SpaceInv, NEW p \in Procs, begin_op(p) PROVE SpaceInv'
  <1>1. CASE pc' = [pc EXCEPT ![p] = "asleep"] /\ UNCHANGED outstanding
    <2>1. InOp' = InOp
      BY <1>1 DEF begin_op, LogInv, TypeOK, InOp
    <2> QED BY <1>1, <2>1, SpaceQuiet DEF begin_op
  <1>2. CASE /\ pc' = [pc EXCEPT ![p] = "inop"]
             /\ outstanding' = outstanding + 1
             /\ ~(Len(lh) + (outstanding + 1) * MAXOPBLOCKS > LOGSIZE)
    <2>1. InOp' = InOp \union {p}
      BY <1>2 DEF LogInv, TypeOK, InOp
    <2>2. \A A : Charges(A)' = Charges(A)
      BY Zenon DEF begin_op, Charges
    <2>3. ASSUME NEW A \in SUBSET Procs
          PROVE  Cardinality(Charges(A)) <= Cardinality(A \intersect InOp') * OPW
      <3>1. /\ IsFiniteSet(A \intersect InOp')
            /\ A \intersect InOp \in SUBSET (A \intersect InOp')
        <4>1. A \intersect InOp' \in SUBSET Procs
          OBVIOUS
        <4> QED BY <2>1, <4>1, FS_Subset
      <3>2. /\ Cardinality(A \intersect InOp) <= Cardinality(A \intersect InOp')
            /\ Cardinality(A \intersect InOp') \in Nat
        BY <3>1, FS_Subset, FS_CardinalityType
      <3> DEFINE k == Cardinality(A \intersect InOp)
                 m == Cardinality(A \intersect InOp')
                 c == Cardinality(Charges(A))
      <3>3. k \in Nat /\ m \in Nat /\ k <= m /\ c \in Nat
        BY <3>2, ChargesFinite
      <3>4. c <= k * OPW
        BY DEF SpaceInv
      <3> HIDE DEF k, m, c
      <3>5. k * OPW <= m * OPW /\ k * OPW \in Nat /\ m * OPW \in Nat
        BY <3>3, TimesMonotone
      <3>6. c <= m * OPW
        BY <3>3, <3>4, <3>5
      <3> QED BY <3>6 DEF c, m
    <2>4. Len(lh) + (outstanding + 1) * MAXOPBLOCKS
            <= LOGSIZE + Cardinality(Charges(Procs))
      <3>1. Cardinality(Charges(Procs)) \in Nat
        BY Zenon, ChargesFinite
      <3>2. (outstanding + 1) * MAXOPBLOCKS \in Nat /\ Len(lh) \in Nat
        BY TimesMonotone DEF LogInv, TypeOK
      <3> QED BY <1>2, <3>1, <3>2
    <2> QED BY Zenon, <1>2, <2>1, <2>2, <2>3, <2>4 DEF begin_op, SpaceInv
  <1> QED BY <1>1, <1>2 DEF begin_op

\* end_op() gives back what its call did not use.
LEMMA SpaceEnd ==
  ASSUME LogInv, SpaceInv, NEW p \in Procs, end_op(p) PROVE SpaceInv'
  <1>0. p \in InOp /\ outstanding > 0 /\ ~committing
    <2>1. p \in InOp
      BY DEF InOp, end_op
    <2>2. Cardinality(InOp) # 0
      BY <2>1, InOpFinite, FS_EmptySet
    <2>3. outstanding \in Nat /\ outstanding = Cardinality(InOp)
      BY InOpFinite DEF LogInv, PhaseInv
    <2>4. committing => outstanding = 0
      BY DEF LogInv, PhaseInv
    <2> QED BY <2>1, <2>2, <2>3, <2>4
  <1>1. InOp' = InOp \ {p}
    <2> DEFINE left == [pc EXCEPT ![p] = "idle"]
    <2>1. left \in [Procs -> PCs]
      BY DEF LogInv, TypeOK, PCs
    <2>2. CASE pc' = wakeup(left)
      <3>1. \A q \in Procs : pc'[q] = "inop" <=> left[q] = "inop"
        <4> HIDE DEF left
        <4> QED BY <2>1, <2>2, WakeupFacts
      <3>2. \A q \in Procs : left[q] = "inop" <=> q \in InOp /\ q # p
        BY DEF LogInv, TypeOK, InOp
      <3> QED BY <3>1, <3>2 DEF InOp
    <2>3. CASE pc' = [pc EXCEPT ![p] = "commit"]
      BY <2>3 DEF LogInv, TypeOK, InOp
    <2> QED BY <1>0, <2>2, <2>3 DEF end_op
  <1>2. wrote' = [wrote EXCEPT ![p] = {}]
    BY DEF end_op
  <1>3. \A A \in SUBSET Procs : Charges(A)' = Charges(A \ {p})
    BY <1>2 DEF Charges, LogInv, TypeOK
  <1>4. \A A \in SUBSET Procs : A \intersect InOp' = (A \ {p}) \intersect InOp
    BY <1>1
  <1>5. \A A \in SUBSET Procs :
           Cardinality(Charges(A)') <= Cardinality(A \intersect InOp') * OPW
    BY Zenon, <1>3, <1>4 DEF SpaceInv
  <1>6. Len(lh) + (outstanding - 1) * MAXOPBLOCKS
          <= LOGSIZE + Cardinality(Charges(Procs \ {p}))
    <2> DEFINE c == Cardinality(Charges(Procs))
               d == Cardinality(Charges(Procs \ {p}))
               e == Cardinality(Charges({p}))
    <2>1. Charges(Procs) = Charges(Procs \ {p}) \union Charges({p})
      BY DEF Charges
    <2>2. /\ c \in Nat /\ d \in Nat /\ e \in Nat
          /\ IsFiniteSet(Charges(Procs \ {p})) /\ IsFiniteSet(Charges({p}))
      BY Zenon, ChargesFinite
    <2>3. c <= d + e
      <3>1. /\ IsFiniteSet(Charges(Procs \ {p}) \intersect Charges({p}))
            /\ Cardinality(Charges(Procs \ {p}) \intersect Charges({p})) \in Nat
        BY Zenon, <2>2, FS_Intersection, FS_CardinalityType
      <3> DEFINE x == Cardinality(Charges(Procs \ {p}) \intersect Charges({p}))
      <3>2. Cardinality(Charges(Procs \ {p}) \union Charges({p})) = d + e - x
        BY Zenon, <2>2, FS_Union
      <3>3. c = d + e - x /\ x \in Nat
        BY <2>1, <3>1, <3>2
      <3> HIDE DEF c, d, e, x
      <3> QED BY <2>2, <3>3
    <2>4. e <= OPW
      <3>1. {p} \intersect InOp = {p}
        BY <1>0
      <3>2. Cardinality({p} \intersect InOp) = 1
        BY <3>1, FS_Singleton
      <3>3. e <= 1 * OPW
        BY <3>2 DEF SpaceInv
      <3> QED BY <3>3
    <2>5. Len(lh) + outstanding * MAXOPBLOCKS <= LOGSIZE + c
      BY DEF SpaceInv
    <2>6. outstanding \in Nat /\ Len(lh) \in Nat
      BY DEF LogInv, TypeOK
    <2> HIDE DEF c, d, e
    <2>7. (outstanding - 1) * MAXOPBLOCKS = outstanding * MAXOPBLOCKS - MAXOPBLOCKS
      BY <2>6
    <2>8. outstanding * MAXOPBLOCKS \in Nat
      BY <2>6, TimesMonotone
    <2>9. Len(lh) + (outstanding - 1) * MAXOPBLOCKS <= LOGSIZE + d
      BY <2>2, <2>3, <2>4, <2>5, <2>6, <2>7, <2>8
    <2> QED BY <2>9 DEF d
  <1>7. \A q \in Procs \ InOp' : wrote'[q] = {}
    BY <1>1, <1>2 DEF SpaceInv, LogInv, TypeOK
  <1>8. ~panicked' => \A q \in Procs : wrote'[q] \subseteq Range(lh)
    BY <1>2 DEF SpaceInv, LogInv, TypeOK, end_op
  <1>9. Charges(Procs)' = Charges(Procs \ {p})
    BY <1>3
  <1> QED BY <1>5, <1>6, <1>7, <1>8, <1>9 DEF end_op, SpaceInv

\* A call's block is charged once however often it is written.
LEMMA SpaceLogWrite ==
  ASSUME LogInv, SpaceInv, NEW p \in Procs, NEW b \in Blocks, NEW v \in Val,
         log_write(p, b, v)
  PROVE  SpaceInv'
  <1>0. p \in InOp /\ InOp' = InOp
    BY Zenon DEF InOp, log_write
  <1>1. wrote' = [wrote EXCEPT ![p] = @ \union {b}] /\ wrote[p] \subseteq Blocks
    BY DEF log_write, LogInv, TypeOK
  <1>2. ASSUME NEW A \in SUBSET Procs
        PROVE  /\ Cardinality(Charges(A)') <= Cardinality(A \intersect InOp') * OPW
               /\ IsFiniteSet(Charges(A)') /\ Cardinality(Charges(A)') \in Nat
    <2>1. CASE p \notin A
      <3>1. Charges(A)' = Charges(A)
        BY <1>1, <2>1 DEF Charges, LogInv, TypeOK
      <3> QED BY Zenon, <1>0, <3>1, ChargesFinite DEF SpaceInv
    <2>2. CASE p \in A
      <3> DEFINE W == wrote[p] \union {b}
                 B == A \ {p}
                 k == Cardinality(B \intersect InOp)
                 c == Cardinality(Charges(B))
                 w == Cardinality({p} \X W)
      <3>1. Charges(A)' = Charges(B) \union ({p} \X W)
        BY <1>1, <2>2 DEF Charges, LogInv, TypeOK
      <3>2. IsFiniteSet(W) /\ Cardinality(W) <= OPW /\ Cardinality(W) \in Nat
        <4>1. W \in SUBSET Blocks
          BY <1>1
        <4> QED BY Zenon, <4>1, FS_Subset, FS_CardinalityType DEF log_write
      <3>3. IsFiniteSet({p} \X W) /\ w = Cardinality(W)
        <4>1. IsFiniteSet({p}) /\ Cardinality({p}) = 1
          BY Zenon, FS_Singleton
        <4>2. IsFiniteSet({p} \X W) /\ w = 1 * Cardinality(W)
          BY Zenon, <3>2, <4>1, FS_Product
        <4> QED BY <3>2, <4>2
      <3>4. k \in Nat /\ c \in Nat /\ IsFiniteSet(Charges(B)) /\ c <= k * OPW
        BY Zenon, ChargesFinite DEF SpaceInv
      <3>5. Charges(B) \intersect ({p} \X W) = {}
        BY DEF Charges
      <3>6. IsFiniteSet(Charges(A)') /\ Cardinality(Charges(A)') = c + w
        <4>1. Cardinality(Charges(B) \intersect ({p} \X W)) = 0
          BY Zenon, <3>5, FS_EmptySet
        <4>2. /\ IsFiniteSet(Charges(B) \union ({p} \X W))
              /\ Cardinality(Charges(B) \union ({p} \X W)) = c + w - 0
          <5> HIDE DEF B, W
          <5> QED BY Zenon, <3>3, <3>4, <4>1, FS_Union
        <4>3. c + w - 0 = c + w
          <5>1. c \in Nat /\ w \in Nat
            BY <3>2, <3>3, <3>4
          <5> HIDE DEF c, w
          <5> QED BY <5>1
        <4> HIDE DEF c, w, B, W
        <4> QED BY <3>1, <4>2, <4>3
      <3>7. Cardinality(A \intersect InOp') = k + 1
        <4>1. A \intersect InOp' = (B \intersect InOp) \union {p}
          BY <1>0, <2>2
        <4>2. p \notin B \intersect InOp /\ IsFiniteSet(B \intersect InOp)
          BY ChargesFinite
        <4> HIDE DEF B
        <4> QED BY Zenon, <4>1, <4>2, FS_AddElement
      <3> HIDE DEF k, c, w
      <3>8. (k + 1) * OPW = k * OPW + OPW /\ k * OPW \in Nat
        BY <3>4, TimesMonotone
      <3>9. c + w \in Nat /\ c + w <= (k + 1) * OPW
        BY <3>2, <3>3, <3>4, <3>8
      <3> QED BY <3>6, <3>7, <3>9
    <2> QED BY <2>1, <2>2
  <1>3. /\ Charges(Procs) \subseteq Charges(Procs)'
        /\ Cardinality(Charges(Procs)) <= Cardinality(Charges(Procs)')
        /\ Cardinality(Charges(Procs)) \in Nat
    <2>1. Charges(Procs) \subseteq Charges(Procs)'
      BY <1>1 DEF Charges, LogInv, TypeOK
    <2> QED BY Zenon, <1>2, <2>1, FS_Subset, ChargesFinite
  <1>4. Len(lh)' + outstanding' * MAXOPBLOCKS
          <= LOGSIZE + Cardinality(Charges(Procs)')
    <2> DEFINE c == Cardinality(Charges(Procs))
               d == Cardinality(Charges(Procs)')
    <2>1. /\ outstanding \in Nat /\ Len(lh) \in Nat /\ c \in Nat /\ d \in Nat
          /\ c <= d /\ outstanding * MAXOPBLOCKS \in Nat
          /\ Len(lh) + outstanding * MAXOPBLOCKS <= LOGSIZE + c
      <3>1. outstanding \in Nat /\ Len(lh) \in Nat
        BY DEF LogInv, TypeOK
      <3>2. c \in Nat /\ d \in Nat /\ c <= d
        BY Zenon, <1>2, <1>3
      <3>3. Len(lh) + outstanding * MAXOPBLOCKS <= LOGSIZE + c
        BY DEF SpaceInv
      <3> HIDE DEF c, d
      <3> QED BY <3>1, <3>2, <3>3, TimesMonotone
    <2>2. CASE lh' = lh
      <3> HIDE DEF c, d
      <3>1. Len(lh) + outstanding * MAXOPBLOCKS <= LOGSIZE + d
        BY <2>1
      <3> QED BY Zenon, <2>2, <3>1 DEF log_write, d
    <2>3. CASE lh' = Append(lh, b) /\ b \notin Range(lh)
      <3>1. b \notin wrote[p]
        BY Zenon, <2>3 DEF SpaceInv, log_write
      <3>2. <<p, b>> \in Charges(Procs)' /\ <<p, b>> \notin Charges(Procs)
        BY <1>1, <3>1 DEF Charges, LogInv, TypeOK
      <3>3. c # d
        BY Zenon, <1>2, <1>3, <3>2, FS_Subset
      <3>4. Len(lh') = Len(lh) + 1
        BY <2>3 DEF LogInv, TypeOK
      <3> HIDE DEF c, d
      <3>5. (Len(lh) + 1) + outstanding * MAXOPBLOCKS <= LOGSIZE + d
        BY <2>1, <3>3
      <3> QED BY <3>4, <3>5 DEF log_write, d
    <2> QED BY Zenon, <2>2, <2>3 DEF log_write
  <1>5. \A q \in Procs \ InOp' : wrote'[q] = {}
    BY <1>0, <1>1 DEF SpaceInv, LogInv, TypeOK
  <1>6. ~panicked' => \A q \in Procs : wrote'[q] \subseteq Range(lh)'
    <2> SUFFICES ASSUME ~panicked' PROVE \A q \in Procs : wrote'[q] \subseteq Range(lh')
      OBVIOUS
    <2>1. \A q \in Procs : wrote[q] \subseteq Range(lh)
      BY Zenon DEF SpaceInv, log_write
    <2>2. Range(lh') = Range(lh) \union {b}
      BY Zenon, RangeAppend DEF log_write, LogInv, TypeOK
    <2> QED BY <1>1, <2>1, <2>2 DEF LogInv, TypeOK
  <1> QED BY Zenon, <1>2, <1>4, <1>5, <1>6 DEF log_write, SpaceInv

\* Every step keeps the reservations within the log.
LEMMA SpaceNext == LogInv /\ SpaceInv /\ [Next]_vars => SpaceInv'
  <1> SUFFICES ASSUME LogInv, SpaceInv, [Next]_vars PROVE SpaceInv'
    OBVIOUS
  <1>1. CASE UNCHANGED vars
    BY Zenon, <1>1, SpaceQuiet DEF vars, InOp
  <1>2. ASSUME NEW p \in Procs, finish_commit(p) PROVE SpaceInv'
    <2> DEFINE left == [pc EXCEPT ![p] = "idle"]
    <2>1. left \in [Procs -> PCs]
      BY DEF LogInv, TypeOK, PCs
    <2>2. \A q \in Procs : pc'[q] = "inop" <=> left[q] = "inop"
      <3>1. pc' = wakeup(left)
        BY <1>2 DEF finish_commit
      <3> HIDE DEF left
      <3> QED BY <2>1, <3>1, WakeupFacts
    <2>3. InOp' = InOp
      BY Zenon, <1>2, <2>2 DEF finish_commit, InOp, LogInv, TypeOK
    <2> QED BY <1>2, <2>3, SpaceQuiet DEF finish_commit
  <1>3. ASSUME NEW p \in Procs, kill(p) PROVE SpaceInv'
    <2>1. InOp' = InOp
      BY <1>3 DEF kill, LogInv, TypeOK, InOp
    <2> QED BY Zenon, <1>3, <2>1, SpaceQuiet DEF kill
  <1>4. CASE write_log \/ install_trans \/ recover_install
    BY <1>4, SpaceQuiet DEF write_log, install_trans, recover_install, InOp
  <1>5. CASE \E b \in Blocks : bread(b) \/ recycle(b)
    BY ZenonT(30), <1>5, SpaceQuiet DEF bread, recycle, InOp
  <1>6. CASE write_head \/ clear_head \/ read_head \/ recover_clear
    <2>1. /\ outstanding = 0 /\ UNCHANGED <<outstanding, pc, wrote, panicked>>
          /\ <<lh', head'>> \in {<<lh, lh>>, <<head, head>>, <<<<>>, <<>>>>}
      BY <1>6 DEF write_head, clear_head, read_head, recover_clear, LogInv,
                  PhaseInv
    <2>2. /\ \A q \in Procs : wrote[q] = {}
          /\ Cardinality(Charges(Procs)) = 0
      BY <2>1, NoCharges
    <2>3. InOp' = InOp /\ \A A : Charges(A)' = Charges(A)
      BY <2>1 DEF InOp, Charges
    <2>4. 0 * MAXOPBLOCKS = 0
      OBVIOUS
    <2>5. Len(lh) <= LOGSIZE /\ Len(head) <= LOGSIZE /\ Len(<<>>) <= LOGSIZE
      BY <2>1, <2>2, <2>4 DEF SpaceInv, LogInv, TypeOK
    <2>6. Len(lh') <= LOGSIZE /\ Len(head') <= LOGSIZE /\ Len(lh') \in Nat
      BY <2>1, <2>5 DEF LogInv, TypeOK
    <2>7. Len(lh') + outstanding' * MAXOPBLOCKS <= LOGSIZE + 0
      BY <2>1, <2>4, <2>6
    <2> QED BY <2>1, <2>2, <2>3, <2>6, <2>7 DEF SpaceInv
  <1>7. CASE Crash
    <2>1. \A A \in SUBSET Procs : Charges(A)' = {}
      BY Zenon, <1>7 DEF Crash, Charges
    <2>2. \A A \in SUBSET Procs : Cardinality(Charges(A)') = 0
      BY <2>1, FS_EmptySet
    <2>3. ASSUME NEW A \in SUBSET Procs
          PROVE  0 <= Cardinality(A \intersect InOp') * OPW
      <3> DEFINE k == Cardinality(A \intersect InOp')
      <3>1. k = 0
        <4>1. A \intersect InOp' = {}
          BY <1>7 DEF Crash, InOp
        <4> QED BY <4>1, FS_EmptySet
      <3> HIDE DEF k
      <3>2. 0 <= k * OPW
        BY <3>1
      <3> QED BY <3>2 DEF k
    <2>4. Procs \in SUBSET Procs /\ 0 * MAXOPBLOCKS = 0
      OBVIOUS
    <2>5. /\ \A q \in Procs : wrote'[q] = {}
          /\ Len(lh') = 0 /\ outstanding' = 0 /\ Len(head') <= LOGSIZE
      BY <1>7 DEF Crash, SpaceInv
    <2>6. Len(lh') + outstanding' * MAXOPBLOCKS
            <= LOGSIZE + Cardinality(Charges(Procs)')
      BY <2>2, <2>4, <2>5
    <2>7. \A A \in SUBSET Procs :
             Cardinality(Charges(A)') <= Cardinality(A \intersect InOp') * OPW
      BY <2>2, <2>3
    <2> QED BY <2>5, <2>6, <2>7 DEF SpaceInv
  <1> QED BY <1>1, <1>2, <1>3, <1>4, <1>5, <1>6, <1>7, SpaceBegin, SpaceEnd,
             SpaceLogWrite DEF Next, Commit, Recover

\* The reservation accounting of begin_op()/end_op() holds in every state.
THEOREM SpaceInvariant == Spec => []SpaceInv
  BY SpaceInit, SpaceNext, LogInvariant, PTL DEF Spec

\* If calls stay two blocks below the reservation, as this kernel's calls do,
\* and the log area is at least LOGSIZE blocks, no panic of log.c is
\* reachable.
THEOREM NoPanicSafe ==
  ASSUME OPW + 2 <= MAXOPBLOCKS, LOGSIZE <= NLOG
  PROVE  Spec => []NoPanic
  <1>1. LogInv /\ SpaceInv /\ NoPanic /\ [Next]_vars => NoPanic'
    <2> SUFFICES ASSUME LogInv, SpaceInv, ~panicked, Next, panicked'
                 PROVE  FALSE
      BY DEF NoPanic, vars
    <2>1. ASSUME NEW p \in Procs, end_op(p) PROVE FALSE
      <3>1. p \in InOp
        BY Zenon, <2>1 DEF InOp, end_op
      <3>2. Cardinality(InOp) # 0
        BY <3>1, InOpFinite, FS_EmptySet
      <3> QED BY Zenon, <2>1, <3>2, InOpFinite DEF end_op, LogInv, PhaseInv
    <2>2. ASSUME NEW p \in Procs, NEW b \in Blocks, NEW v \in Val,
                 log_write(p, b, v)
          PROVE  FALSE
      <3> DEFINE c == Cardinality(Charges(Procs))
                 n == Len(lh)
      <3>1. outstanding \in Nat /\ outstanding # 0 /\ n \in Nat /\ c \in Nat
        <4>1. p \in InOp
          BY <2>2 DEF InOp, log_write
        <4>2. Cardinality(InOp) # 0
          BY <4>1, InOpFinite, FS_EmptySet
        <4>3. c \in Nat
          BY Zenon, ChargesFinite
        <4>4. outstanding \in Nat /\ outstanding # 0 /\ n \in Nat
          BY <4>2 DEF LogInv, TypeOK, PhaseInv
        <4> QED BY <4>3, <4>4
      <3>2. c <= outstanding * OPW
        BY ChargesBound
      <3>3. n + outstanding * MAXOPBLOCKS <= LOGSIZE + c
        BY DEF SpaceInv
      <3>4. n >= LOGSIZE \/ n >= NLOG - 1 \/ outstanding < 1
        BY Zenon, <2>2 DEF log_write
      <3> HIDE DEF c, n
      <3>5. outstanding * (OPW + 2) <= outstanding * MAXOPBLOCKS
        BY <3>1
      <3>6. outstanding * (OPW + 2) = outstanding * OPW + 2 * outstanding
        BY <3>1
      <3>7. outstanding * OPW \in Nat /\ outstanding * MAXOPBLOCKS \in Nat
        BY <3>1
      <3> QED BY <3>1, <3>2, <3>3, <3>4, <3>5, <3>6, <3>7
    <2> QED BY Zenon, <2>1, <2>2 DEF Next, Commit, Recover, begin_op, finish_commit,
         kill, bread, recycle, write_log, write_head, install_trans,
         clear_head, read_head, recover_install, recover_clear, Crash
  <1>2. Init => NoPanic
    BY DEF Init, NoPanic
  <1> QED BY <1>1, <1>2, LogInvariant, SpaceInvariant, PTL DEF Spec
=============================================================================
