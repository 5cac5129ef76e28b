---------------------------- MODULE BcacheProofs ----------------------------
(***************************************************************************)
(* Proofs about Bcache: its inductive invariant, the properties of the      *)
(* buffer cache that follow from it, and the refinement of BlockStore.      *)
(***************************************************************************)
EXTENDS Bcache, FiniteSetTheorems, WellFoundedInduction, TLAPS

\* The default provers, with a second try for a leaf that was cut short.
USE SMTT(20), SMTT(30), Zenon

USE BcacheAssumption

\* A block is in one buffer at most.
Single ==
  \A x, y \in Bufs : blockno[x] = blockno[y] /\ blockno[x] # NoBlock => x = y

\* A reference count counts its users and the log.
Counted ==
  \A x \in Bufs :
    refcnt[x] = Cardinality(Users(x)) + (IF x \in pinned THEN 1 ELSE 0)

\* A sleep-lock and its holder know each other, and sleepers have a holder.
LockInv ==
  /\ \A p \in Procs : /\ pc[p] = "idle" <=> buf[p] = NoBuf
                      /\ pc[p] \in {"bread", "using"} => locked[buf[p]] = p
                      /\ pc[p] = "asleep" => locked[buf[p]] # Nobody
  /\ \A x \in Bufs : locked[x] # Nobody =>
       buf[locked[x]] = x /\ pc[locked[x]] \in {"bread", "using"}

\* A buffer that is referred to, valid or pinned belongs to a block; contents
\* not yet on disk are with the holder of the lock, or pinned.
DataInv ==
  /\ \A p \in Procs : /\ buf[p] # NoBuf => blockno[buf[p]] \in Blocks
                      /\ pc[p] = "using" => valid[buf[p]]
  /\ \A x \in Bufs : /\ valid[x] => blockno[x] \in Blocks
                     /\ x \in pinned => valid[x]
                     /\ valid[x] /\ ~Clean(x) =>
                          x \in pinned
                            \/ (locked[x] # Nobody /\ pc[locked[x]] = "using")

BcacheInv == TypeOK /\ Single /\ Counted /\ LockInv /\ DataInv
-----------------------------------------------------------------------------
\* The users of a buffer are finitely many.
LEMMA UsersFinite ==
  ASSUME NEW x
  PROVE  IsFiniteSet(Users(x)) /\ Cardinality(Users(x)) \in Nat
  <1>1. Users(x) \in SUBSET Procs
    BY DEF Users
  <1> QED BY <1>1, FS_Subset, FS_CardinalityType

\* A process that takes up buffer x is one more user of x, and of no other.
LEMMA UsersAdd ==
  ASSUME TypeOK, NEW p \in Procs, NEW x \in Bufs, NEW y \in Bufs,
         buf[p] = NoBuf, buf' = [buf EXCEPT ![p] = x]
  PROVE  Cardinality(Users(y)') = Cardinality(Users(y)) + (IF y = x THEN 1 ELSE 0)
  <1>1. NoBuf \notin Bufs
    BY DEF Bufs, NoBuf
  <1>2. CASE y = x
    <2>1. Users(y)' = Users(y) \union {p}
      BY <1>2 DEF Users, TypeOK
    <2>2. p \notin Users(y)
      BY <1>1 DEF Users
    <2>3. Cardinality(Users(y) \union {p}) = Cardinality(Users(y)) + 1
      BY Zenon, <2>2, UsersFinite, FS_AddElement
    <2> QED BY <1>2, <2>1, <2>3
  <1>3. CASE y # x
    <2>1. Users(y)' = Users(y)
      BY <1>1, <1>3 DEF Users, TypeOK
    <2> QED BY <1>3, <2>1, UsersFinite
  <1> QED BY <1>2, <1>3

\* A process that lets go of its buffer is one user less.
LEMMA UsersDrop ==
  ASSUME TypeOK, NEW p \in Procs, NEW y \in Bufs,
         buf[p] \in Bufs, buf' = [buf EXCEPT ![p] = NoBuf]
  PROVE  Cardinality(Users(y)') = Cardinality(Users(y)) - (IF y = buf[p] THEN 1 ELSE 0)
  <1>1. NoBuf \notin Bufs
    BY DEF Bufs, NoBuf
  <1>2. CASE y = buf[p]
    <2>1. Users(y)' = Users(y) \ {p}
      BY <1>1, <1>2 DEF Users, TypeOK
    <2>2. p \in Users(y)
      BY <1>2 DEF Users
    <2>3. Cardinality(Users(y) \ {p}) = Cardinality(Users(y)) - 1
      BY Zenon, <2>2, UsersFinite, FS_RemoveElement
    <2> QED BY <1>2, <2>1, <2>3
  <1>3. CASE y # buf[p]
    <2>1. Users(y)' = Users(y)
      BY <1>1, <1>3 DEF Users, TypeOK
    <2> QED BY <1>3, <2>1, UsersFinite
  <1> QED BY <1>2, <1>3

\* A buffer without references has no user and is not pinned.
LEMMA Unreferenced ==
  ASSUME TypeOK, Counted, NEW x \in Bufs, refcnt[x] = 0
  PROVE  x \notin pinned /\ \A p \in Procs : buf[p] # x
  <1>1. Cardinality(Users(x)) = 0 /\ x \notin pinned
    BY UsersFinite DEF Counted
  <1>2. Users(x) = {}
    BY <1>1, UsersFinite, FS_EmptySet
  <1> QED BY <1>1, <1>2 DEF Users

\* A buffer with a user has a reference.
LEMMA Referenced ==
  ASSUME TypeOK, Counted, NEW x \in Bufs, NEW p \in Procs, buf[p] = x
  PROVE  refcnt[x] > 0
  <1>1. Users(x) # {}
    BY DEF Users
  <1>2. Cardinality(Users(x)) # 0
    BY <1>1, UsersFinite, FS_EmptySet
  <1> QED BY <1>2, UsersFinite DEF Counted

\* The list before and after a buffer is moved to its front.
LEMMA MoveToFront ==
  ASSUME TypeOK, NEW x \in Bufs
  PROVE  LET m == <<x>> \o Unlinked(x)
         IN  m \in Seq(Bufs) /\ Len(m) = NBUF /\ Range(m) = Bufs
  <1> DEFINE k == CHOOSE j \in Bufs : lru[j] = x
             a == SubSeq(lru, 1, k - 1)
             b == SubSeq(lru, k + 1, Len(lru))
             c == a \o b
             m == <<x>> \o c
  <1>1. lru \in Seq(Bufs) /\ Len(lru) = NBUF /\ DOMAIN lru = 1..NBUF /\ NBUF \in Nat
    BY DEF TypeOK
  <1>2. \E j \in Bufs : lru[j] = x
    <2>1. x \in Range(lru)
      BY DEF TypeOK
    <2> QED BY <1>1, <2>1 DEF Range, Bufs
  <1>3. k \in 1..NBUF /\ lru[k] = x
    BY <1>2 DEF Bufs
  <1> HIDE DEF k
  <1>4. /\ a \in Seq(Bufs) /\ Len(a) = k - 1
        /\ \A i \in 1..(k - 1) : a[i] = lru[i]
    BY <1>1, <1>3
  <1>5. /\ b \in Seq(Bufs) /\ Len(b) = NBUF - k
        /\ \A i \in 1..(NBUF - k) : b[i] = lru[k + i]
    BY <1>1, <1>3
  <1> HIDE DEF a, b
  <1>c. /\ c \in Seq(Bufs) /\ Len(c) = NBUF - 1
        /\ \A i \in 1..(k - 1) : c[i] = a[i]
        /\ \A i \in 1..(NBUF - k) : c[(k - 1) + i] = b[i]
    BY <1>1, <1>3, <1>4, <1>5
  <1> HIDE DEF c
  <1>6. /\ m \in Seq(Bufs) /\ Len(m) = NBUF /\ DOMAIN m = 1..NBUF
        /\ m[1] = x
        /\ \A i \in 1..(k - 1) : m[i + 1] = a[i]
        /\ \A i \in 1..(NBUF - k) : m[k + i] = b[i]
    <2>1. /\ m \in Seq(Bufs) /\ Len(m) = NBUF /\ m[1] = x
          /\ \A i \in 1..(NBUF - 1) : m[i + 1] = c[i]
      BY <1>1, <1>c
    <2> HIDE DEF m
    <2>2. DOMAIN m = 1..NBUF
      BY <2>1, <1>1
    <2>3. ASSUME NEW i \in 1..(k - 1) PROVE m[i + 1] = a[i]
      BY <2>1, <1>c, <1>1, <1>3
    <2>4. ASSUME NEW i \in 1..(NBUF - k) PROVE m[k + i] = b[i]
      <3>1. (k - 1) + i \in 1..(NBUF - 1) /\ ((k - 1) + i) + 1 = k + i
        BY <1>1, <1>3
      <3> QED BY Zenon, <3>1, <2>1, <1>c
    <2> QED BY <2>1, <2>2, <2>3, <2>4
  <1> HIDE DEF m
  <1>7. ASSUME NEW z \in Bufs PROVE z \in Range(m)
    <2>1. PICK i \in 1..NBUF : lru[i] = z
      BY <1>1 DEF TypeOK, Range
    <2>2. CASE i < k
      <3>1. i \in 1..(k - 1) /\ i + 1 \in 1..NBUF
        BY <2>2, <1>3
      <3>2. m[i + 1] = z
        BY <3>1, <1>6, <1>4, <2>1
      <3> QED BY <3>1, <3>2, <1>6 DEF Range
    <2>3. CASE i = k
      BY <2>3, <2>1, <1>3, <1>6, <1>1 DEF Range
    <2>4. CASE i > k
      <3>1. i - k \in 1..(NBUF - k) /\ k + (i - k) = i
        BY <2>4, <1>3
      <3>2. m[i] = z
        BY <3>1, <1>6, <1>5, <2>1
      <3> QED BY <3>2, <1>6 DEF Range
    <2> QED BY <2>2, <2>3, <2>4, <1>3
  <1>8. Range(m) \subseteq Bufs
    BY <1>6 DEF Range
  <1>9. Unlinked(x) = c
    BY DEF Unlinked, RemoveAt, a, b, c, k
  <1>10. <<x>> \o Unlinked(x) = m
    BY <1>9 DEF m
  <1> QED BY Zenon, <1>6, <1>7, <1>8, <1>10
-----------------------------------------------------------------------------
(***************************************************************************)
(* BcacheInv is inductive: one lemma per action.                            *)
(***************************************************************************)
LEMMA InitInv == Init => BcacheInv
  <1> SUFFICES ASSUME Init PROVE BcacheInv
    OBVIOUS
  <1>1. NoBuf \notin Bufs /\ NBUF \in Nat
    BY DEF NoBuf, Bufs
  <1>2. lru \in Seq(Bufs) /\ Len(lru) = NBUF /\ Range(lru) = Bufs
    <2>1. lru \in [1..NBUF -> Bufs]
      BY <1>1 DEF Init, Bufs
    <2>2. lru \in Seq(Bufs) /\ Len(lru) = NBUF /\ DOMAIN lru = Bufs
      BY <2>1, <1>1 DEF Bufs
    <2>3. ASSUME NEW y \in Bufs PROVE y \in Range(lru)
      <3>1. NBUF + 1 - y \in Bufs /\ NBUF + 1 - (NBUF + 1 - y) = y
        BY <1>1 DEF Bufs
      <3>2. lru[NBUF + 1 - y] = y
        BY <3>1 DEF Init
      <3> QED BY <3>1, <3>2, <2>2 DEF Range
    <2>4. Range(lru) \subseteq Bufs
      BY <2>1, <2>2 DEF Range, Bufs
    <2> QED BY Zenon, <2>2, <2>3, <2>4
  <1>3. data \in [Bufs -> Val]
    BY DEF Init
  <1>4. TypeOK
    BY Zenon, <1>2, <1>3 DEF Init, TypeOK
  <1>5. Single
    BY DEF Init, Single
  <1>6. Counted
    <2> SUFFICES ASSUME NEW x \in Bufs
                 PROVE  refcnt[x] = Cardinality(Users(x)) + (IF x \in pinned THEN 1 ELSE 0)
      BY DEF Counted
    <2>1. Users(x) = {}
      BY <1>1 DEF Init, Users
    <2> QED BY <2>1, FS_EmptySet DEF Init
  <1>7. LockInv
    BY DEF Init, LockInv
  <1>8. DataInv
    BY DEF Init, DataInv
  <1> QED BY <1>4, <1>5, <1>6, <1>7, <1>8 DEF BcacheInv

\* The buffer bget() recycles exists and has no reference.
LEMMA RecycledUnused ==
  ASSUME TypeOK, Unused # {}
  PROVE  lru[Max(Unused)] \in Bufs /\ refcnt[lru[Max(Unused)]] = 0
  <1>1. Unused \in SUBSET Nat /\ \A k \in Unused : k <= NBUF /\ NBUF \in Nat
    BY DEF Unused, Bufs
  <1> DEFINE T == {NBUF - k : k \in Unused}
             R == OpToRel(<, Nat)
  <1>2. T \subseteq Nat /\ T # {}
    <2>1. ASSUME NEW k \in Unused PROVE NBUF - k \in Nat
      BY <1>1
    <2>2. T \subseteq Nat
      BY <2>1
    <2>3. PICK k \in Unused : TRUE
      OBVIOUS
    <2> QED BY <2>2, <2>3
  <1>3. \E k \in Unused : \A j \in Unused : k >= j
    <2>1. PICK n \in T : \A j \in T : <<j, n>> \notin R
      <3> HIDE DEF T, R
      <3>1. IsWellFoundedOn(R, Nat)
        BY Zenon, NatLessThanWellFounded DEF R
      <3> QED BY Zenon, <1>2, <3>1, WFMin
    <2>2. PICK k \in Unused : n = NBUF - k
      BY Zenon, <2>1
    <2>3. ASSUME NEW j \in Unused PROVE k >= j
      <3>1. <<NBUF - j, n>> \notin R /\ NBUF - j \in Nat /\ n \in Nat
        BY Zenon, <2>1, <1>2
      <3>2. ~(NBUF - j < n)
        BY <3>1 DEF OpToRel
      <3>3. j \in Nat /\ k \in Nat /\ NBUF \in Nat
        BY <1>1
      <3> QED BY <3>2, <3>3, <2>2
    <2> QED BY <2>3
  <1>4. Max(Unused) \in Unused
    BY <1>3 DEF Max
  <1>5. \A k \in Bufs : lru[k] \in Bufs
    BY DEF TypeOK, Bufs
  <1> QED BY <1>4, <1>5 DEF Unused

\* bget(): a cached block is shared, an unused buffer is recycled, or none is left.
LEMMA BgetInv ==
  ASSUME BcacheInv, NEW p \in Procs, NEW b \in Blocks, bget(p, b)
  PROVE  BcacheInv'
  <1> USE DEF BcacheInv
  <1>1. buf[p] = NoBuf /\ NoBuf \notin Bufs /\ b # NoBlock
    BY DEF bget, LockInv, Bufs, NoBuf
  <1>2. CASE Cached(b) # {}
    <2> DEFINE x == CHOOSE y \in Cached(b) : TRUE
    <2>1. x \in Bufs /\ blockno[x] = b
      BY <1>2 DEF Cached
    <2>2. /\ refcnt' = [refcnt EXCEPT ![x] = @ + 1]
          /\ buf' = [buf EXCEPT ![p] = x]
          /\ pc' = [pc EXCEPT ![p] = "acquiresleep"]
          /\ UNCHANGED <<blockno, valid, data, locked, lru, disk, pinned, panicked>>
      BY <1>2 DEF bget, Reference
    <2> HIDE DEF x
    <2>3. TypeOK'
      BY <2>1, <2>2 DEF TypeOK
    <2>4. Single'
      BY <2>2 DEF Single
    <2>5. Counted'
      <3> SUFFICES ASSUME NEW y \in Bufs
                   PROVE  refcnt'[y] = Cardinality(Users(y)') + (IF y \in pinned' THEN 1 ELSE 0)
        BY DEF Counted
      <3>1. Cardinality(Users(y)') = Cardinality(Users(y)) + (IF y = x THEN 1 ELSE 0)
        BY ZenonT(30), <1>1, <2>1, <2>2, UsersAdd
      <3> QED BY <2>1, <2>2, <3>1, UsersFinite DEF Counted, TypeOK
    <2>6. LockInv'
      BY <1>1, <2>1, <2>2 DEF LockInv, TypeOK, bget
    <2>7. DataInv'
      BY <1>1, <2>1, <2>2 DEF LockInv, DataInv, TypeOK, Clean, bget
    <2> QED BY <2>3, <2>4, <2>5, <2>6, <2>7
  <1>3. CASE Cached(b) = {} /\ Unused # {}
    <2> DEFINE x == lru[Max(Unused)]
    <2>1. x \in Bufs /\ refcnt[x] = 0
      BY <1>3, RecycledUnused
    <2>2. /\ blockno' = [blockno EXCEPT ![x] = b]
          /\ valid' = [valid EXCEPT ![x] = FALSE]
          /\ refcnt' = [refcnt EXCEPT ![x] = 1]
          /\ buf' = [buf EXCEPT ![p] = x]
          /\ pc' = [pc EXCEPT ![p] = "acquiresleep"]
          /\ UNCHANGED <<data, locked, lru, disk, pinned, panicked>>
      BY <1>3 DEF bget, Reference
    <2> HIDE DEF x
    <2>3. x \notin pinned /\ (\A q \in Procs : buf[q] # x)
      BY <2>1, Unreferenced
    <2>4. locked[x] = Nobody
      BY <2>1, <2>3 DEF LockInv, TypeOK
    <2>5. TypeOK'
      BY <2>1, <2>2 DEF TypeOK
    <2>6. Single'
      BY <1>1, <1>3, <2>1, <2>2 DEF Single, Cached, TypeOK
    <2>7. Counted'
      <3> SUFFICES ASSUME NEW y \in Bufs
                   PROVE  refcnt'[y] = Cardinality(Users(y)') + (IF y \in pinned' THEN 1 ELSE 0)
        BY DEF Counted
      <3>1. Cardinality(Users(y)') = Cardinality(Users(y)) + (IF y = x THEN 1 ELSE 0)
        BY ZenonT(30), <1>1, <2>1, <2>2, UsersAdd
      <3> QED BY <2>1, <2>2, <2>3, <3>1, UsersFinite DEF Counted, TypeOK
    <2>8. LockInv'
      BY <1>1, <2>1, <2>2, <2>4 DEF LockInv, TypeOK, bget
    <2>9. DataInv'
      <3>1. \A y \in Bufs : y # x => Clean(y)' = Clean(y) /\ blockno'[y] = blockno[y] /\ valid'[y] = valid[y]
        BY <2>1, <2>2 DEF Clean, TypeOK
      <3>2. \A y \in Bufs : y # x /\ valid'[y] => blockno'[y] \in Blocks
        BY <3>1 DEF DataInv
      <3>3. ~valid'[x] /\ blockno'[x] = b
        BY <2>1, <2>2 DEF TypeOK
      <3>4. \A q \in Procs : buf'[q] # NoBuf => blockno'[buf'[q]] \in Blocks
        BY <1>1, <2>1, <2>2, <2>3, <3>1, <3>3 DEF DataInv, TypeOK
      <3>5. \A q \in Procs : pc'[q] = "using" => valid'[buf'[q]]
        BY <1>1, <2>1, <2>2, <2>3, <3>1 DEF DataInv, TypeOK, LockInv
      <3>6. \A y \in Bufs : y \in pinned' => valid'[y]
        BY <2>2, <2>3, <3>1 DEF DataInv
      <3>7. \A y \in Bufs : valid'[y] /\ ~Clean(y)' =>
              y \in pinned' \/ (locked'[y] # Nobody /\ pc'[locked'[y]] = "using")
        BY <1>1, <2>1, <2>2, <3>1, <3>3 DEF DataInv, TypeOK, LockInv
      <3> QED BY <3>2, <3>3, <3>4, <3>5, <3>6, <3>7 DEF DataInv
    <2> QED BY <2>5, <2>6, <2>7, <2>8, <2>9
  <1>4. CASE Cached(b) = {} /\ Unused = {}
    <2>1. UNCHANGED <<blockno, valid, refcnt, buf, pc, data, locked, lru, disk, pinned>> /\ panicked' = TRUE
      BY <1>4 DEF bget
    <2> QED BY <2>1 DEF TypeOK, Single, Counted, Users, LockInv, DataInv, Clean
  <1> QED BY <1>2, <1>3, <1>4

\* acquiresleep(): the lock is taken, or the process sleeps.
LEMMA AcquiresleepInv ==
  ASSUME BcacheInv, NEW p \in Procs, acquiresleep(p)
  PROVE  BcacheInv'
  <1> USE DEF BcacheInv
  <1>1. buf[p] \in Bufs
    BY DEF acquiresleep, LockInv, TypeOK
  <1>2. CASE locked[buf[p]] # Nobody
    <2>1. /\ pc[p] = "acquiresleep" /\ pc' = [pc EXCEPT ![p] = "asleep"]
          /\ UNCHANGED <<blockno, valid, refcnt, data, locked, lru, disk, pinned, buf,
                         panicked>>
      BY <1>2 DEF acquiresleep
    <2>2. TypeOK'
      BY <2>1 DEF TypeOK
    <2>3. Single' /\ Counted'
      BY <2>1 DEF Single, Counted, Users
    <2>4. LockInv'
      BY <1>1, <1>2, <2>1 DEF LockInv, TypeOK
    <2>5. DataInv'
      BY <2>1 DEF LockInv, DataInv, TypeOK, Clean
    <2> QED BY <2>2, <2>3, <2>4, <2>5
  <1>3. CASE locked[buf[p]] = Nobody
    <2>1. /\ pc[p] = "acquiresleep" /\ pc' = [pc EXCEPT ![p] = "bread"]
          /\ locked' = [locked EXCEPT ![buf[p]] = p]
          /\ UNCHANGED <<blockno, valid, refcnt, data, lru, disk, pinned, buf, panicked>>
      BY <1>3 DEF acquiresleep
    <2>2. TypeOK'
      BY <1>1, <2>1 DEF TypeOK
    <2>3. Single' /\ Counted'
      BY <2>1 DEF Single, Counted, Users
    <2>4. LockInv'
      BY <1>1, <1>3, <2>1 DEF LockInv, TypeOK
    <2>5. DataInv'
      BY <1>1, <1>3, <2>1 DEF LockInv, DataInv, TypeOK, Clean
    <2> QED BY <2>2, <2>3, <2>4, <2>5
  <1> QED BY <1>2, <1>3

\* A holder has a buffer of a block, and no other process has its lock.
LEMMA HolderFacts ==
  ASSUME BcacheInv, NEW p \in Procs, pc[p] \in {"bread", "using"}
  PROVE  /\ buf[p] \in Bufs /\ blockno[buf[p]] \in Blocks /\ locked[buf[p]] = p
         /\ pc[p] = "using" => valid[buf[p]]
         /\ \A y \in Bufs : y # buf[p] => blockno[y] # blockno[buf[p]] /\ locked[y] # p
  BY DEF BcacheInv, LockInv, DataInv, TypeOK, Single

\* bread() reads a buffer that is not valid.
LEMMA BreadInv ==
  ASSUME BcacheInv, NEW p \in Procs, bread(p)
  PROVE  BcacheInv'
  <1> USE DEF BcacheInv
  <1>1. buf[p] \in Bufs /\ blockno[buf[p]] \in Blocks /\ locked[buf[p]] = p
    BY HolderFacts DEF bread
  <1>2. TypeOK'
    BY <1>1 DEF bread, TypeOK
  <1>3. Single' /\ Counted'
    BY DEF bread, Single, Counted, Users
  <1>4. LockInv'
    BY <1>1 DEF bread, LockInv, TypeOK
  <1>5. DataInv'
    BY <1>1 DEF bread, LockInv, DataInv, TypeOK, Clean
  <1> QED BY <1>2, <1>3, <1>4, <1>5

\* A holder changes b->data.
LEMMA ModifyInv ==
  ASSUME BcacheInv, NEW p \in Procs, NEW v \in Val, modify(p, v)
  PROVE  BcacheInv'
  <1> USE DEF BcacheInv
  <1>1. /\ buf[p] \in Bufs /\ blockno[buf[p]] \in Blocks /\ locked[buf[p]] = p
        /\ valid[buf[p]]
    BY HolderFacts DEF modify
  <1>2. TypeOK'
    BY <1>1 DEF modify, TypeOK
  <1>3. Single' /\ Counted' /\ LockInv'
    BY DEF modify, Single, Counted, Users, LockInv
  <1>4. DataInv'
    BY <1>1 DEF modify, LockInv, DataInv, TypeOK, Clean
  <1> QED BY <1>2, <1>3, <1>4

\* bwrite() makes the buffer clean.
LEMMA BwriteInv ==
  ASSUME BcacheInv, NEW p \in Procs, bwrite(p)
  PROVE  BcacheInv'
  <1> USE DEF BcacheInv
  <1>1. /\ buf[p] \in Bufs /\ blockno[buf[p]] \in Blocks /\ locked[buf[p]] = p
        /\ \A y \in Bufs : y # buf[p] => blockno[y] # blockno[buf[p]]
    BY HolderFacts DEF bwrite
  <1>2. TypeOK'
    BY <1>1 DEF bwrite, TypeOK
  <1>3. Single' /\ Counted' /\ LockInv'
    BY DEF bwrite, Single, Counted, Users, LockInv
  <1>4. DataInv'
    BY <1>1 DEF bwrite, LockInv, DataInv, TypeOK, Clean
  <1> QED BY <1>2, <1>3, <1>4

\* bpin() takes a reference for the log.
LEMMA BpinInv ==
  ASSUME BcacheInv, NEW p \in Procs, bpin(p)
  PROVE  BcacheInv'
  <1> USE DEF BcacheInv
  <1>1. buf[p] \in Bufs /\ valid[buf[p]]
    BY HolderFacts DEF bpin
  <1>2. TypeOK'
    BY <1>1 DEF bpin, TypeOK
  <1>3. Single' /\ LockInv'
    BY DEF bpin, Single, LockInv
  <1>4. Counted'
    <2>1. \A y \in Bufs : Users(y)' = Users(y)
      BY DEF bpin, Users
    <2> QED BY <1>1, <2>1, UsersFinite DEF bpin, Counted, TypeOK
  <1>5. DataInv'
    BY <1>1 DEF bpin, DataInv, TypeOK, Clean
  <1> QED BY <1>2, <1>3, <1>4, <1>5

\* bunpin() gives the log's reference back.
LEMMA BunpinInv ==
  ASSUME BcacheInv, NEW p \in Procs, bunpin(p)
  PROVE  BcacheInv'
  <1> USE DEF BcacheInv
  <1>1. buf[p] \in Bufs /\ valid[buf[p]] /\ refcnt[buf[p]] > 0
    BY HolderFacts, Referenced DEF bunpin
  <1>2. TypeOK'
    BY <1>1 DEF bunpin, TypeOK
  <1>3. Single' /\ LockInv'
    BY DEF bunpin, Single, LockInv
  <1>4. Counted'
    <2>1. \A y \in Bufs : Users(y)' = Users(y)
      BY DEF bunpin, Users
    <2> QED BY <1>1, <2>1, UsersFinite DEF bunpin, Counted, TypeOK
  <1>5. DataInv'
    BY <1>1 DEF bunpin, DataInv, TypeOK, Clean
  <1> QED BY <1>2, <1>3, <1>4, <1>5

\* releasesleep() frees the lock of a buffer that is clean or pinned.
LEMMA ReleasesleepInv ==
  ASSUME BcacheInv, NEW p \in Procs, releasesleep(p)
  PROVE  BcacheInv'
  <1> USE DEF BcacheInv
  <1>1. buf[p] \in Bufs /\ locked[buf[p]] = p /\ \A y \in Bufs : y # buf[p] => locked[y] # p
    BY Zenon, HolderFacts DEF releasesleep
  <1>2. TypeOK'
    BY <1>1 DEF releasesleep, TypeOK
  <1>3. Single' /\ Counted'
    BY DEF releasesleep, Single, Counted, Users
  <1>4. LockInv'
    BY <1>1 DEF releasesleep, LockInv, TypeOK
  <1>5. DataInv'
    BY <1>1 DEF releasesleep, LockInv, DataInv, TypeOK, Clean
  <1> QED BY <1>2, <1>3, <1>4, <1>5

\* The second half of brelse() gives back the reference.
LEMMA BrelseInv ==
  ASSUME BcacheInv, NEW p \in Procs, brelse(p)
  PROVE  BcacheInv'
  <1> USE DEF BcacheInv
  <1>1. buf[p] \in Bufs /\ refcnt[buf[p]] > 0
    BY Referenced DEF brelse, LockInv, TypeOK
  <1>2. lru' \in Seq(Bufs) /\ Len(lru') = NBUF /\ Range(lru') = Bufs
    BY <1>1, MoveToFront DEF brelse, TypeOK
  <1>3. TypeOK'
    BY <1>1, <1>2 DEF brelse, TypeOK
  <1>4. Single'
    BY DEF brelse, Single
  <1>5. Counted'
    <2> SUFFICES ASSUME NEW y \in Bufs
                 PROVE  refcnt'[y] = Cardinality(Users(y)') + (IF y \in pinned' THEN 1 ELSE 0)
      BY DEF Counted
    <2>1. Cardinality(Users(y)') = Cardinality(Users(y)) - (IF y = buf[p] THEN 1 ELSE 0)
      BY Zenon, <1>1, UsersDrop DEF brelse
    <2> QED BY <1>1, <2>1, UsersFinite DEF brelse, Counted, TypeOK
  <1>6. LockInv'
    BY <1>1 DEF brelse, LockInv, TypeOK
  <1>7. DataInv'
    BY <1>1 DEF brelse, LockInv, DataInv, TypeOK, Clean
  <1> QED BY <1>3, <1>4, <1>5, <1>6, <1>7

\* kill() wakes a sleeper, which looks at the lock again.
LEMMA KillInv ==
  ASSUME BcacheInv, NEW p \in Procs, kill(p)
  PROVE  BcacheInv'
  <1> USE DEF BcacheInv
  <1>1. TypeOK'
    BY DEF kill, TypeOK
  <1>2. Single' /\ Counted'
    BY Zenon DEF kill, Single, Counted, Users
  <1>3. LockInv'
    BY DEF kill, LockInv, TypeOK
  <1>4. DataInv'
    BY DEF kill, LockInv, DataInv, TypeOK, Clean
  <1> QED BY <1>1, <1>2, <1>3, <1>4

\* Nothing happens.
LEMMA StutterInv ==
  ASSUME BcacheInv, UNCHANGED vars
  PROVE  BcacheInv'
  BY DEF BcacheInv, vars, TypeOK, Single, Counted, Users, LockInv, DataInv, Clean

\* Every step keeps the invariant.
LEMMA NextInv == BcacheInv /\ [Next]_vars => BcacheInv'
  BY BgetInv, AcquiresleepInv, BreadInv, ModifyInv, BwriteInv, BpinInv, BunpinInv,
     ReleasesleepInv, BrelseInv, KillInv, StutterInv DEF Next, Release, Halted

\* The invariant behind the others: buffers, counts, sleep-locks and contents of
\* the cache fit together in every state.
THEOREM BcacheInvariant == Spec => []BcacheInv
  BY InitInv, NextInv, PTL DEF Spec
-----------------------------------------------------------------------------
(***************************************************************************)
(* The properties of bio.c and sleeplock.c.                                 *)
(***************************************************************************)
\* Types, and the list of bcache.head is a permutation of the buffers.
THEOREM TypeCorrect == Spec => []TypeOK
  BY BcacheInvariant, PTL DEF BcacheInv

\* bget() never makes a second copy of a block.
THEOREM OneCopyHolds == Spec => []OneCopy
  <1>1. BcacheInv => OneCopy
    <2> SUFFICES ASSUME BcacheInv, NEW b \in Blocks PROVE Cardinality(Copies(b)) <= 1
      BY DEF OneCopy
    <2>1. CASE Copies(b) = {}
      BY <2>1, FS_EmptySet
    <2>2. CASE Copies(b) # {}
      <3>1. PICK x \in Bufs : blockno[x] = b
        BY <2>2 DEF Copies
      <3>2. Copies(b) = {x}
        BY <3>1 DEF Copies, BcacheInv, Single
      <3> QED BY <3>2, FS_Singleton
    <2> QED BY <2>1, <2>2
  <1> QED BY <1>1, BcacheInvariant, PTL

\* bget() recycles no buffer that has a user or holds changes the disk has not.
THEOREM RefcntExactHolds == Spec => []RefcntExact
  <1>1. BcacheInv => RefcntExact
    <2> SUFFICES ASSUME BcacheInv PROVE RefcntExact
      OBVIOUS
    <2> USE DEF BcacheInv
    <2>1. ASSUME NEW x \in Bufs, valid[x] /\ ~Clean(x) PROVE refcnt[x] > 0
      <3>1. CASE x \in pinned
        BY <3>1, UsersFinite DEF Counted
      <3>2. CASE locked[x] # Nobody
        <4>1. locked[x] \in Procs /\ buf[locked[x]] = x
          BY <3>2 DEF LockInv, TypeOK
        <4> QED BY <4>1, Referenced
      <3> QED BY <2>1, <3>1, <3>2 DEF DataInv
    <2> QED BY <2>1 DEF RefcntExact, Counted
  <1> QED BY <1>1, BcacheInvariant, PTL

\* acquiresleep() and releasesleep() lose no wakeup.
THEOREM SleeperHasHolderHolds == Spec => []SleeperHasHolder
  <1>1. BcacheInv => SleeperHasHolder
    BY DEF BcacheInv, LockInv, TypeOK, SleeperHasHolder
  <1> QED BY <1>1, BcacheInvariant, PTL
-----------------------------------------------------------------------------
(***************************************************************************)
(* The cache implements BlockStore.                                         *)
(***************************************************************************)
\* What the refinement mapping says of a block, without CHOOSE.
Mapped ==
  \A b \in Blocks :
    /\ \A x \in Bufs : blockno[x] = b =>
         /\ Contents[b] = IF valid[x] THEN data[x] ELSE disk[b]
         /\ Owner[b] = locked[x]
    /\ (\A x \in Bufs : blockno[x] # b) => Contents[b] = disk[b] /\ Owner[b] = Nobody

\* What the abstract store holds for a block, by where the block is.
LEMMA MappedHolds == BcacheInv => Mapped
  <1> SUFFICES ASSUME BcacheInv, NEW b \in Blocks
               PROVE  /\ \A x \in Bufs : blockno[x] = b =>
                           /\ Contents[b] = IF valid[x] THEN data[x] ELSE disk[b]
                           /\ Owner[b] = locked[x]
                      /\ (\A x \in Bufs : blockno[x] # b) =>
                           Contents[b] = disk[b] /\ Owner[b] = Nobody
    BY DEF Mapped
  <1>1. ASSUME NEW x \in Bufs, blockno[x] = b
        PROVE  /\ Contents[b] = IF valid[x] THEN data[x] ELSE disk[b]
               /\ Owner[b] = locked[x]
    <2>1. Copies(b) = {x}
      BY <1>1 DEF Copies, BcacheInv, Single
    <2>2. Contents[b] = IF valid[x] THEN data[x] ELSE disk[b]
      <3>1. Contents[b] = IF \E y \in {x} : valid[y]
                          THEN data[CHOOSE y \in {x} : valid[y]] ELSE disk[b]
        BY <2>1 DEF Contents
      <3>2. valid[x] => (CHOOSE y \in {x} : valid[y]) = x
        OBVIOUS
      <3> QED BY <3>1, <3>2
    <2>3. Owner[b] = locked[x]
      <3>1. Owner[b] = IF \E y \in {x} : locked[y] # Nobody
                       THEN locked[CHOOSE y \in {x} : locked[y] # Nobody] ELSE Nobody
        BY <2>1 DEF Owner
      <3>2. locked[x] # Nobody => (CHOOSE y \in {x} : locked[y] # Nobody) = x
        OBVIOUS
      <3> QED BY <3>1, <3>2
    <2> QED BY <2>2, <2>3
  <1>2. ASSUME \A x \in Bufs : blockno[x] # b
        PROVE  Contents[b] = disk[b] /\ Owner[b] = Nobody
    <2>1. Copies(b) = {}
      BY <1>2 DEF Copies
    <2> QED BY <2>1 DEF Contents, Owner
  <1> QED BY <1>1, <1>2

\* The same after a step.
LEMMA MappedPrime == BcacheInv' => Mapped'
  BY MappedHolds, PTL

\* Two states in which every block maps alike are the same state of BlockStore.
LEMMA SameStore ==
  ASSUME \A b \in Blocks : Contents'[b] = Contents[b] /\ Owner'[b] = Owner[b]
  PROVE  Contents' = Contents /\ Owner' = Owner
  BY DEF Contents, Owner

\* bget() changes no contents.
LEMMA BgetStore ==
  ASSUME BcacheInv, BcacheInv', NEW p \in Procs, NEW b \in Blocks, bget(p, b)
  PROVE  UNCHANGED <<Contents, Owner>>
  <1>0. TypeOK /\ Single /\ Counted /\ LockInv /\ DataInv
    BY DEF BcacheInv
  <1>1. Mapped /\ Mapped'
    BY MappedHolds, MappedPrime
  <1>2. CASE ~(Cached(b) = {} /\ Unused # {})
    <2>1. UNCHANGED <<blockno, valid, data, disk, locked>>
      BY <1>2 DEF bget
    <2> QED BY <2>1 DEF Contents, Owner, Copies
  <1>3. CASE Cached(b) = {} /\ Unused # {}
    <2> DEFINE x == lru[Max(Unused)]
    <2>1. x \in Bufs /\ refcnt[x] = 0
      BY <1>0, <1>3, RecycledUnused
    <2>2. /\ blockno' = [blockno EXCEPT ![x] = b]
          /\ valid' = [valid EXCEPT ![x] = FALSE]
          /\ UNCHANGED <<data, locked, disk>>
      BY <1>3 DEF bget
    <2> HIDE DEF x
    <2>3. x \notin pinned /\ (\A q \in Procs : buf[q] # x)
      BY <1>0, <2>1, Unreferenced
    <2>4. locked[x] = Nobody
      BY <1>0, <2>1, <2>3 DEF LockInv, TypeOK
    <2>5. valid[x] => Clean(x)
      BY <1>0, <2>1, <2>3, <2>4 DEF DataInv
    <2> SUFFICES ASSUME NEW a \in Blocks
                 PROVE  Contents'[a] = Contents[a] /\ Owner'[a] = Owner[a]
      BY SameStore
    <2>6. CASE a = b
      <3>1. \A y \in Bufs : blockno[y] # b
        BY <1>3 DEF Cached
      <3>2. Contents[a] = disk[a] /\ Owner[a] = Nobody
        BY <1>1, <2>6, <3>1 DEF Mapped
      <3>3. blockno'[x] = a /\ ~valid'[x] /\ locked'[x] = Nobody
        BY <1>0, <2>1, <2>2, <2>4, <2>6 DEF TypeOK
      <3>4. Contents'[a] = disk'[a] /\ Owner'[a] = Nobody
        BY <1>1, <2>1, <3>3 DEF Mapped
      <3> QED BY <2>2, <3>2, <3>4
    <2>7. CASE a # b /\ blockno[x] = a
      <3>1. Contents[a] = disk[a] /\ Owner[a] = Nobody
        BY <1>1, <2>1, <2>4, <2>5, <2>7 DEF Mapped, Clean
      <3>2. \A y \in Bufs : blockno'[y] # a
        BY <1>0, <2>1, <2>2, <2>7 DEF TypeOK, Single
      <3>3. Contents'[a] = disk'[a] /\ Owner'[a] = Nobody
        BY <1>1, <3>2 DEF Mapped
      <3> QED BY <2>2, <3>1, <3>3
    <2>8. CASE a # b /\ blockno[x] # a
      <3>1. \A y \in Bufs : blockno'[y] = a <=> blockno[y] = a
        BY <1>0, <2>1, <2>2, <2>8 DEF TypeOK
      <3>2. CASE \E y \in Bufs : blockno[y] = a
        <4>1. PICK y \in Bufs : blockno[y] = a
          BY <3>2
        <4>2. y # x /\ blockno'[y] = a /\ valid'[y] = valid[y]
          BY ZenonT(30), <1>0, <2>2, <2>8, <3>1, <4>1 DEF TypeOK
        <4>3. Contents[a] = (IF valid[y] THEN data[y] ELSE disk[a]) /\ Owner[a] = locked[y]
          BY Zenon, <1>1, <4>1 DEF Mapped
        <4>4. /\ Contents'[a] = (IF valid'[y] THEN data'[y] ELSE disk'[a])
              /\ Owner'[a] = locked'[y]
          BY Zenon, <1>1, <4>2 DEF Mapped
        <4> QED BY ZenonT(30), <2>2, <4>2, <4>3, <4>4
      <3>3. CASE \A y \in Bufs : blockno[y] # a
        <4>1. \A y \in Bufs : blockno'[y] # a
          BY Zenon, <3>1, <3>3
        <4>2. Contents[a] = disk[a] /\ Owner[a] = Nobody
          BY Zenon, <1>1, <3>3 DEF Mapped
        <4>3. Contents'[a] = disk'[a] /\ Owner'[a] = Nobody
          BY Zenon, <1>1, <4>1 DEF Mapped
        <4> QED BY Zenon, <2>2, <4>2, <4>3
      <3> QED BY <3>2, <3>3
    <2> QED BY <2>6, <2>7, <2>8
  <1> QED BY <1>2, <1>3

\* Blocks other than b map as before when nothing of them changes.
LEMMA OthersSame ==
  ASSUME BcacheInv, BcacheInv', UNCHANGED blockno, NEW a \in Blocks,
         disk'[a] = disk[a],
         \A y \in Bufs : blockno[y] = a =>
           data'[y] = data[y] /\ valid'[y] = valid[y] /\ locked'[y] = locked[y]
  PROVE  Contents'[a] = Contents[a] /\ Owner'[a] = Owner[a]
  <1>1. Mapped /\ Mapped'
    BY MappedHolds, MappedPrime
  <1>2. CASE \E y \in Bufs : blockno[y] = a
    <2>1. PICK y \in Bufs : blockno[y] = a
      BY <1>2
    <2> QED BY <1>1, <2>1 DEF Mapped
  <1>3. CASE \A y \in Bufs : blockno[y] # a
    BY <1>1, <1>3 DEF Mapped
  <1> QED BY Zenon, <1>2, <1>3

\* Taking the lock is a step of the store; going to sleep is none.
LEMMA AcquiresleepStore ==
  ASSUME BcacheInv, BcacheInv', NEW p \in Procs, acquiresleep(p)
  PROVE  [BS!SNext]_(BS!svars)
  <1>0. TypeOK /\ Single /\ Counted /\ LockInv /\ DataInv
    BY DEF BcacheInv
  <1> DEFINE x == buf[p]
             b == blockno[x]
  <1>1. x \in Bufs /\ b \in Blocks
    BY <1>0 DEF acquiresleep, LockInv, TypeOK, DataInv
  <1>2. CASE locked[x] # Nobody
    <2>1. UNCHANGED <<blockno, valid, data, disk, locked>>
      BY <1>2 DEF acquiresleep
    <2> QED BY <2>1 DEF BS!svars, Contents, Owner, Copies
  <1>3. CASE locked[x] = Nobody
    <2>1. /\ locked' = [locked EXCEPT ![x] = p]
          /\ UNCHANGED <<blockno, valid, data, disk>>
      BY <1>3 DEF acquiresleep
    <2>2. Mapped /\ Mapped'
      BY MappedHolds, MappedPrime
    <2>3. Owner[b] = Nobody
      BY <1>1, <1>3, <2>2 DEF Mapped
    <2>4. Owner'[b] = p /\ Contents'[b] = Contents[b]
      <3>1. blockno'[x] = b /\ locked'[x] = p /\ valid'[x] = valid[x] /\ data'[x] = data[x]
            /\ disk'[b] = disk[b]
        BY <1>0, <1>1, <2>1 DEF TypeOK
      <3> QED BY <1>1, <2>2, <3>1 DEF Mapped
    <2>5. ASSUME NEW a \in Blocks, a # b
          PROVE  Contents'[a] = Contents[a] /\ Owner'[a] = Owner[a]
      <3>1. \A y \in Bufs : blockno[y] = a => locked'[y] = locked[y]
        BY <1>0, <1>1, <2>1, <2>5 DEF TypeOK
      <3> QED BY <2>1, <3>1, OthersSame
    <2>6. Contents' = Contents
      BY <2>4, <2>5 DEF Contents
    <2>7. Owner' = [Owner EXCEPT ![b] = p]
      BY ZenonT(30), <1>1, <2>4, <2>5 DEF Owner
    <2> QED BY ZenonT(30), <1>1, <2>3, <2>6, <2>7 DEF BS!SNext, BS!Take
  <1> QED BY <1>2, <1>3

\* Reading the disk changes no contents.
LEMMA BreadStore ==
  ASSUME BcacheInv, BcacheInv', NEW p \in Procs, bread(p)
  PROVE  UNCHANGED <<Contents, Owner>>
  <1>0. TypeOK /\ Single /\ Counted /\ LockInv /\ DataInv
    BY DEF BcacheInv
  <1> DEFINE x == buf[p]
             b == blockno[x]
  <1>1. x \in Bufs /\ b \in Blocks
    BY HolderFacts DEF bread
  <1>2. /\ data' = [data EXCEPT ![x] = IF valid[x] THEN @ ELSE disk[b]]
        /\ valid' = [valid EXCEPT ![x] = TRUE]
        /\ UNCHANGED <<blockno, locked, disk>>
    BY DEF bread
  <1>3. Mapped /\ Mapped'
    BY MappedHolds, MappedPrime
  <1> HIDE DEF x
  <1>4. Contents'[b] = Contents[b] /\ Owner'[b] = Owner[b]
    <2>1. /\ blockno'[x] = b /\ locked'[x] = locked[x] /\ valid'[x] = TRUE
          /\ data'[x] = (IF valid[x] THEN data[x] ELSE disk[b])
      BY <1>0, <1>1, <1>2 DEF TypeOK
    <2>2. Contents'[b] = data'[x] /\ Owner'[b] = locked'[x]
      BY <1>1, <1>3, <2>1 DEF Mapped
    <2>3. Contents[b] = (IF valid[x] THEN data[x] ELSE disk[b]) /\ Owner[b] = locked[x]
      BY <1>1, <1>3 DEF Mapped
    <2> QED BY <2>1, <2>2, <2>3
  <1>5. ASSUME NEW a \in Blocks, a # b
        PROVE  Contents'[a] = Contents[a] /\ Owner'[a] = Owner[a]
    <2>1. \A y \in Bufs : blockno[y] = a => data'[y] = data[y] /\ valid'[y] = valid[y]
      BY ZenonT(30), <1>0, <1>1, <1>2, <1>5 DEF TypeOK
    <2> QED BY Zenon, <1>2, <2>1, OthersSame
  <1> QED BY <1>4, <1>5, SameStore

\* A change of b->data is the abstract write.
LEMMA ModifyStore ==
  ASSUME BcacheInv, BcacheInv', NEW p \in Procs, NEW v \in Val, modify(p, v)
  PROVE  BS!SNext
  <1>0. TypeOK /\ Single /\ Counted /\ LockInv /\ DataInv
    BY DEF BcacheInv
  <1> DEFINE x == buf[p]
             b == blockno[x]
  <1>1. x \in Bufs /\ b \in Blocks /\ locked[x] = p /\ valid[x]
    BY HolderFacts DEF modify
  <1>2. data' = [data EXCEPT ![x] = v] /\ UNCHANGED <<blockno, valid, locked, disk>>
    BY DEF modify
  <1>3. Mapped /\ Mapped'
    BY MappedHolds, MappedPrime
  <1>4. Owner[b] = p /\ Owner'[b] = p /\ Contents'[b] = v
    <2>1. blockno'[x] = b /\ locked'[x] = p /\ valid'[x] /\ data'[x] = v
      BY <1>0, <1>1, <1>2 DEF TypeOK
    <2> QED BY <1>1, <1>3, <2>1 DEF Mapped
  <1>5. ASSUME NEW a \in Blocks, a # b
        PROVE  Contents'[a] = Contents[a] /\ Owner'[a] = Owner[a]
    <2>1. \A y \in Bufs : blockno[y] = a => data'[y] = data[y]
      BY <1>0, <1>1, <1>2, <1>5 DEF TypeOK
    <2> QED BY <1>2, <2>1, OthersSame
  <1>6. Owner' = Owner
    BY <1>4, <1>5 DEF Owner
  <1>7. Contents' = [Contents EXCEPT ![b] = v]
    <2>1. /\ Contents = [a \in Blocks |-> Contents[a]]
          /\ Contents' = [a \in Blocks |-> Contents'[a]]
      BY DEF Contents
    <2> QED BY <2>1, <1>1, <1>4, <1>5
  <1>8. BS!Modify(p, b, v)
    BY <1>4, <1>6, <1>7 DEF BS!Modify
  <1> QED BY <1>1, <1>8 DEF BS!SNext

\* Writing a buffer to disk changes no contents.
LEMMA BwriteStore ==
  ASSUME BcacheInv, BcacheInv', NEW p \in Procs, bwrite(p)
  PROVE  UNCHANGED <<Contents, Owner>>
  <1>0. TypeOK /\ Single /\ Counted /\ LockInv /\ DataInv
    BY DEF BcacheInv
  <1> DEFINE x == buf[p]
             b == blockno[x]
  <1>1. x \in Bufs /\ b \in Blocks /\ valid[x]
    BY HolderFacts DEF bwrite
  <1>2. disk' = [disk EXCEPT ![b] = data[x]] /\ UNCHANGED <<blockno, valid, locked, data>>
    BY DEF bwrite
  <1>3. Mapped /\ Mapped'
    BY MappedHolds, MappedPrime
  <1>4. Contents'[b] = Contents[b] /\ Owner'[b] = Owner[b]
    BY <1>1, <1>2, <1>3 DEF Mapped
  <1>5. ASSUME NEW a \in Blocks, a # b
        PROVE  Contents'[a] = Contents[a] /\ Owner'[a] = Owner[a]
    <2>1. disk'[a] = disk[a]
      BY <1>0, <1>1, <1>2, <1>5 DEF TypeOK
    <2> QED BY <1>2, <2>1, OthersSame
  <1> QED BY <1>4, <1>5, SameStore

\* Freeing the lock is a step of the store.
LEMMA ReleasesleepStore ==
  ASSUME BcacheInv, BcacheInv', NEW p \in Procs, releasesleep(p)
  PROVE  BS!SNext
  <1>0. TypeOK /\ Single /\ Counted /\ LockInv /\ DataInv
    BY DEF BcacheInv
  <1> DEFINE x == buf[p]
             b == blockno[x]
  <1>1. x \in Bufs /\ b \in Blocks /\ locked[x] = p
    BY ZenonT(30), HolderFacts DEF releasesleep
  <1>2. /\ locked' = [locked EXCEPT ![x] = Nobody]
        /\ UNCHANGED <<blockno, valid, data, disk>>
    BY DEF releasesleep
  <1>3. Mapped /\ Mapped'
    BY MappedHolds, MappedPrime
  <1>4. Owner[b] = p /\ Owner'[b] = Nobody /\ Contents'[b] = Contents[b]
    <2>1. /\ blockno'[x] = b /\ locked'[x] = Nobody /\ valid'[x] = valid[x]
          /\ data'[x] = data[x] /\ disk'[b] = disk[b]
      BY <1>0, <1>1, <1>2 DEF TypeOK
    <2>2. Contents[b] = (IF valid[x] THEN data[x] ELSE disk[b]) /\ Owner[b] = locked[x]
      BY Zenon, <1>1, <1>3 DEF Mapped
    <2>3. /\ Contents'[b] = (IF valid'[x] THEN data'[x] ELSE disk'[b])
          /\ Owner'[b] = locked'[x]
      BY Zenon, <1>1, <1>3, <2>1 DEF Mapped
    <2> QED BY ZenonT(30), <1>1, <2>1, <2>2, <2>3
  <1>5. ASSUME NEW a \in Blocks, a # b
        PROVE  Contents'[a] = Contents[a] /\ Owner'[a] = Owner[a]
    <2>1. \A y \in Bufs : blockno[y] = a => locked'[y] = locked[y]
      BY <1>0, <1>1, <1>2, <1>5 DEF TypeOK
    <2> QED BY ZenonT(30), <1>2, <2>1, OthersSame
  <1>6. Contents' = Contents
    BY <1>4, <1>5 DEF Contents
  <1>7. Owner' = [Owner EXCEPT ![b] = Nobody]
    BY <1>1, <1>4, <1>5 DEF Owner
  <1> QED BY Zenon, <1>1, <1>4, <1>6, <1>7 DEF BS!SNext, BS!Give

\* What the remaining steps leave alone is all the mapping looks at.
LEMMA OtherStore ==
  ASSUME NEW p \in Procs, bpin(p) \/ bunpin(p) \/ brelse(p) \/ kill(p)
  PROVE  UNCHANGED <<Contents, Owner>>
  <1>1. UNCHANGED <<blockno, valid, data, disk, locked>>
    BY DEF bpin, bunpin, brelse, kill
  <1> QED BY <1>1 DEF Contents, Owner, Copies

\* Every step is one of the store, or stutters.
LEMMA NextStore ==
  ASSUME BcacheInv, BcacheInv', [Next]_vars
  PROVE  [BS!SNext]_(BS!svars)
  <1>1. ASSUME UNCHANGED vars PROVE UNCHANGED <<Contents, Owner>>
    BY <1>1 DEF vars, Contents, Owner, Copies
  <1> QED BY <1>1, BgetStore, AcquiresleepStore, BreadStore, ModifyStore, BwriteStore,
             ReleasesleepStore, OtherStore DEF Next, Release, Halted, BS!svars

\* The initial disk is the initial store.
LEMMA InitStore == Init => BS!SInit
  <1> SUFFICES ASSUME Init PROVE BS!SInit
    OBVIOUS
  <1>1. \A b \in Blocks : Copies(b) = {}
    BY DEF Init, Copies
  <1>2. Contents = disk /\ Owner = [b \in Blocks |-> Nobody]
    BY <1>1 DEF Init, Contents, Owner
  <1> QED BY <1>2 DEF Init, BS!SInit

\* bread(), bwrite() and brelse() behave as a store with one copy of every
\* block and a lock per block: BlockStore is implemented, for any number of
\* buffers, blocks and processes.
THEOREM ImplementsBlockStore == Spec => BlockStoreSpec
  <1>1. BcacheInv /\ BcacheInv' /\ [Next]_vars => [BS!SNext]_(BS!svars)
    BY NextStore
  <1> QED BY <1>1, InitStore, BcacheInvariant, PTL DEF Spec, BlockStoreSpec, BS!SSpec
=============================================================================
