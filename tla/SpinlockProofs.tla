--------------------------- MODULE SpinlockProofs ---------------------------
(***************************************************************************)
(* Proofs about Spinlock, for any number of CPUs, kernel threads and locks: *)
(* the inductive invariant SpinInv, and the properties that follow from it. *)
(***************************************************************************)
EXTENDS Spinlock, FiniteSetTheorems, TLAPS

\* The default provers, with a second try for a leaf that was cut short.
USE SMTT(20), SMTT(30), Zenon

USE SpinlockAssumption

\* What an interrupted context was doing: nothing with interrupts on holds a
\* lock or is further than push_off()'s intr_get().
Frames ==
  {f \in [pc : {"run", "push_off"}, old : BOOLEAN,
          want : AllLocks \union {NoLock}, held : {{}}] :
     /\ f.pc = "push_off" => f.old /\ f.want \in AllLocks
     /\ f.pc = "run" => f.want = NoLock}

FrameInv == frames \in [Contexts -> {<<>>} \union {<<f>> : f \in Frames}]

\* Which contexts run, and what those that do not run have.
RunInv ==
  /\ \A c \in CPUs : on[c] = c \/ on[c] \in Threads
  /\ \A c, d \in CPUs : on[c] = on[d] => c = d
  /\ \A t \in Threads : (\E c \in CPUs : on[c] = t) <=> pc[t] \notin {"fresh", "swtch"}
  /\ \A t \in Threads : pc[t] \in {"fresh", "swtch"} => held[t] = {} /\ want[t] = NoLock
  /\ \A t \in Threads : pc[t] = "fresh" => frames[t] = <<>>
  /\ \A c \in CPUs : pc[c] \notin {"fresh", "swtch"}
  /\ \A c \in CPUs : on[c] # c =>
       pc[c] = "run" /\ held[c] = {} /\ frames[c] = <<>> /\ want[c] = NoLock

\* The lock a context is taking or giving back; it holds one p->lock at most.
WantInv ==
  \A x \in Contexts :
    /\ want[x] \in AllLocks <=> pc[x] \in {"push_off", "spin", "own", "release"}
    /\ pc[x] = "release" => want[x] \in held[x]
    /\ pc[x] \in {"push_off", "spin", "own"} =>
         want[x] \notin held[x] /\ held[x] \intersect Threads = {}
    /\ \A s, t \in Threads : s \in held[x] /\ t \in held[x] => s = t
    /\ pc[x] = "pop_off" => Cardinality(held[x]) <= Cardinality(Locks)

\* What each CPU knows of the state before push_off(), for the context it runs.
IntenaInv ==
  /\ \A c \in CPUs :
       /\ frames[on[c]] # <<>> => ~sie[c]
       /\ frames[on[c]] # <<>> /\ noff[c] > 0 => ~intena[c]
       /\ pc[on[c]] = "push_off" => old[on[c]] = sie[c]
       /\ on[c] \in Threads /\ noff[c] > 0 => intena[c] = before[on[c]]
  /\ \A t \in Threads : pc[t] = "swtch" =>
       myintena[t] = before[t] /\ (frames[t] # <<>> => ~myintena[t])

\* A lock is taken while a context is inside it, and lk->cpu is its CPU.
LockInv ==
  /\ \A l \in AllLocks : locked[l] <=> \E x \in Contexts : l \in Inside(x)
  /\ \A c \in CPUs, l \in AllLocks :
       cpu[l] = c <=> /\ l \in held[on[c]]
                      /\ ~(pc[on[c]] = "release" /\ want[on[c]] = l)

SpinInv == /\ TypeOK /\ FrameInv /\ RunInv /\ WantInv /\ InterruptsOff
           /\ IntenaInv /\ LockInv /\ MutualExclusion /\ NoPanic
-----------------------------------------------------------------------------
\* A context holds finitely many locks.
LEMMA HeldFinite ==
  ASSUME TypeOK, NEW x \in Contexts
  PROVE  /\ IsFiniteSet(held[x]) /\ Cardinality(held[x]) \in Nat
         /\ Cardinality(held[x]) = 0 <=> held[x] = {}
  <1>1. held[x] \in SUBSET (Locks \union Threads)
    BY DEF TypeOK, AllLocks
  <1>2. IsFiniteSet(held[x])
    BY <1>1, FS_Subset
  <1> QED BY <1>2, FS_CardinalityType, FS_EmptySet

\* With one p->lock at most, the depth of push_off() is bounded.
LEMMA HeldBound ==
  ASSUME TypeOK, WantInv, NEW x \in Contexts
  PROVE  /\ Cardinality(Locks) \in Nat
         /\ Cardinality(held[x]) <= Cardinality(Locks) + 1
         /\ held[x] \intersect Threads = {} => Cardinality(held[x]) <= Cardinality(Locks)
  <1>1. Locks \in SUBSET (Locks \union Threads)
    OBVIOUS
  <1>2. IsFiniteSet(Locks) /\ Cardinality(Locks) \in Nat
    BY <1>1, FS_Subset, FS_CardinalityType
  <1>3. held[x] \subseteq Locks \union Threads
    BY DEF TypeOK, AllLocks
  <1>4. CASE held[x] \intersect Threads = {}
    <2>1. held[x] \in SUBSET Locks
      BY <1>3, <1>4
    <2>2. Cardinality(held[x]) <= Cardinality(Locks)
      BY <1>2, <2>1, FS_Subset
    <2> QED BY <1>2, <2>2, HeldFinite
  <1>5. CASE held[x] \intersect Threads # {}
    <2>1. PICK t \in Threads : t \in held[x]
      BY <1>5
    <2>2. held[x] \in SUBSET (Locks \union {t})
      <3>1. \A s \in Threads : s \in held[x] => s = t
        BY <2>1 DEF WantInv
      <3> QED BY <1>3, <3>1
    <2>3. IsFiniteSet(Locks \union {t}) /\ Cardinality(Locks \union {t}) <= Cardinality(Locks) + 1
      <3>1. /\ IsFiniteSet(Locks \union {t})
            /\ Cardinality(Locks \union {t}) =
                 IF t \in Locks THEN Cardinality(Locks) ELSE Cardinality(Locks) + 1
        BY <1>2, FS_AddElement
      <3> QED BY <1>2, <3>1
    <2>4. /\ Cardinality(held[x]) <= Cardinality(Locks \union {t})
      BY <2>2, <2>3, FS_Subset
    <2>5. Cardinality(Locks \union {t}) \in Nat
      BY <2>3, FS_CardinalityType
    <2> QED BY <1>2, <1>5, <2>3, <2>4, <2>5, HeldFinite
  <1> QED BY <1>4, <1>5

\* The context a CPU runs, and that no other CPU runs it.
LEMMA OnFacts ==
  ASSUME SpinInv, NEW c \in CPUs
  PROVE  /\ on[c] \in Contexts /\ pc[on[c]] \notin {"fresh", "swtch"}
         /\ \A d \in CPUs : d # c => on[d] # on[c]
         /\ on[c] = c \/ (on[c] \in Threads /\ on[c] \notin CPUs)
  BY DEF SpinInv, TypeOK, RunInv, Contexts

\* A step that moves no context and is inside the same locks.
LEMMA LockKept ==
  ASSUME SpinInv, UNCHANGED <<locked, cpu, on, held>>,
         \A y \in Contexts : Inside(y)' = Inside(y),
         \A y \in Contexts : /\ pc'[y] = "release" <=> pc[y] = "release"
                             /\ pc[y] = "release" => want'[y] = want[y]
  PROVE  LockInv' /\ MutualExclusion'
PROOF
  <1>0. LockInv
    BY Zenon DEF SpinInv
  <1>1. ASSUME NEW l \in AllLocks
        PROVE  locked'[l] <=> \E y \in Contexts : l \in Inside(y)'
    <2>1. locked[l] <=> \E y \in Contexts : l \in Inside(y)
      BY Zenon, <1>0 DEF LockInv
    <2> QED BY Zenon, <2>1
  <1>2. ASSUME NEW d \in CPUs, NEW l \in AllLocks
        PROVE  cpu'[l] = d <=> /\ l \in held'[on'[d]]
                               /\ ~(pc'[on'[d]] = "release" /\ want'[on'[d]] = l)
    <2>1. cpu[l] = d <=> l \in held[on[d]] /\ ~(pc[on[d]] = "release" /\ want[on[d]] = l)
      BY <1>0 DEF LockInv
    <2>2. on[d] \in Contexts
      BY Zenon, OnFacts
    <2> QED BY Zenon, <2>1, <2>2
  <1>3. MutualExclusion'
    BY Zenon DEF SpinInv, MutualExclusion
  <1> QED BY Zenon, <1>1, <1>2, <1>3 DEF LockInv

\* A CPU with interrupts on runs a context that is inside no lock.
LEMMA Interruptible ==
  ASSUME SpinInv, NEW c \in CPUs, sie[c]
  PROVE  noff[c] = 0 /\ held[on[c]] = {} /\ pc[on[c]] \in {"run", "push_off"}
  <1>1. on[c] \in Contexts /\ pc[on[c]] \notin {"fresh", "swtch"}
    BY OnFacts
  <1>2. Cardinality(held[on[c]]) \in Nat /\ (Cardinality(held[on[c]]) = 0 <=> held[on[c]] = {})
    BY <1>1, HeldFinite DEF SpinInv
  <1>3. noff[c] = 0 /\ Cardinality(held[on[c]]) = 0 /\ pc[on[c]] \notin {"spin", "own", "pop_off"}
    BY <1>1, <1>2 DEF SpinInv, InterruptsOff, TypeOK
  <1>4. pc[on[c]] # "release"
    BY <1>1, <1>2, <1>3 DEF SpinInv, WantInv
  <1> QED BY <1>1, <1>2, <1>3, <1>4 DEF SpinInv, TypeOK

\* The invariant holds when the schedulers start.
LEMMA InitInv == Init => SpinInv
  <1> SUFFICES ASSUME Init PROVE SpinInv
    OBVIOUS
  <1>1. Cardinality({}) = 0
    BY FS_EmptySet
  <1>2. Cardinality(Locks) \in Nat
    <2>1. Locks \in SUBSET (Locks \union Threads)
      OBVIOUS
    <2> QED BY <2>1, FS_Subset, FS_CardinalityType
  <1>3. TypeOK
    <2>1. 0 \in 0..Cardinality(Locks) + 1
      BY <1>2
    <2> QED BY Zenon, <2>1 DEF Init, TypeOK, Contexts, AllLocks
  <1>4. FrameInv
    BY DEF Init, FrameInv
  <1>5. RunInv
    BY DEF Init, RunInv, Contexts
  <1>6. WantInv
    BY DEF Init, WantInv, Contexts, AllLocks
  <1>7. InterruptsOff
    BY <1>1 DEF Init, InterruptsOff, Contexts
  <1>8. IntenaInv
    BY DEF Init, IntenaInv, Contexts
  <1>9. LockInv /\ MutualExclusion
    BY DEF Init, LockInv, MutualExclusion, Inside, Contexts
  <1> QED BY <1>3, <1>4, <1>5, <1>6, <1>7, <1>8, <1>9 DEF SpinInv, Init, NoPanic

\* acquire() starts: a lock that is wanted, and intr_get().
LEMMA AcquireInv ==
  ASSUME SpinInv, NEW c \in CPUs, NEW l \in AllLocks, acquire(c, l)
  PROVE  SpinInv'
  <1> DEFINE x == on[c]
  <1>0. TypeOK /\ FrameInv /\ RunInv /\ WantInv /\ InterruptsOff /\ IntenaInv
        /\ LockInv /\ MutualExclusion /\ NoPanic
    BY DEF SpinInv
  <1>1. x \in Contexts /\ \A d \in CPUs : d # c => on[d] # x
    BY OnFacts
  <1>2. /\ pc[x] = "run" /\ l \notin held[x] /\ held[x] \intersect Threads = {}
        /\ old' = [old EXCEPT ![x] = sie[c]]
        /\ want' = [want EXCEPT ![x] = l]
        /\ pc' = [pc EXCEPT ![x] = "push_off"]
        /\ UNCHANGED <<sie, noff, intena, on, locked, cpu, held, frames, myintena, before,
                       panicked>>
    BY DEF acquire, At, MayTake, Goto, cpuvars, lockvars
  <1>3. TypeOK'
    BY <1>0, <1>1, <1>2 DEF TypeOK
  <1>4. FrameInv' /\ NoPanic'
    BY <1>0, <1>2 DEF FrameInv, NoPanic
  <1>5. RunInv'
    BY <1>0, <1>1, <1>2 DEF RunInv, TypeOK, Contexts
  <1>6. WantInv'
    BY <1>0, <1>1, <1>2 DEF WantInv, TypeOK
  <1>7. InterruptsOff'
    BY <1>0, <1>1, <1>2 DEF InterruptsOff, TypeOK
  <1>8. IntenaInv'
    BY <1>0, <1>1, <1>2 DEF IntenaInv, TypeOK, Contexts
  <1>9. \A y \in Contexts : Inside(y)' = Inside(y)
    BY <1>0, <1>1, <1>2 DEF Inside, TypeOK
  <1>10. LockInv' /\ MutualExclusion'
    BY <1>0, <1>1, <1>2, <1>9 DEF LockInv, MutualExclusion, TypeOK
  <1> QED BY <1>3, <1>4, <1>5, <1>6, <1>7, <1>8, <1>10 DEF SpinInv

\* push_off() is complete: interrupts are off, and no panic, since the wanted
\* lock is not one this CPU holds.
LEMMA PushOffInv ==
  ASSUME SpinInv, NEW c \in CPUs, push_off(c)
  PROVE  SpinInv'
  <1> DEFINE x == on[c]
  <1>0. TypeOK /\ FrameInv /\ RunInv /\ WantInv /\ InterruptsOff /\ IntenaInv
        /\ LockInv /\ MutualExclusion /\ NoPanic
    BY DEF SpinInv
  <1>1. x \in Contexts /\ \A d \in CPUs : d # c => on[d] # x
    BY OnFacts
  <1>2. /\ pc[x] = "push_off"
        /\ sie' = [sie EXCEPT ![c] = FALSE]
        /\ noff' = [noff EXCEPT ![c] = noff[c] + 1]
        /\ intena' = IF noff[c] = 0 THEN [intena EXCEPT ![c] = old[x]] ELSE intena
        /\ before' = IF noff[c] = 0 THEN [before EXCEPT ![x] = sie[c]] ELSE before
        /\ panicked' = holding(c, want[x])
        /\ old' = [old EXCEPT ![x] = FALSE]
        /\ pc' = [pc EXCEPT ![x] = "spin"]
        /\ UNCHANGED <<on, locked, cpu, want, held, frames, myintena>>
    BY DEF push_off, At, Goto, intr_off, Outermost, lockvars
  <1>3. /\ want[x] \in AllLocks /\ want[x] \notin held[x]
        /\ held[x] \intersect Threads = {} /\ old[x] = sie[c]
    BY <1>0, <1>1, <1>2 DEF WantInv, IntenaInv
  <1>4. panicked' = FALSE
    BY Zenon, <1>0, <1>2, <1>3 DEF holding, LockInv
  <1>5. /\ Cardinality(held[x]) \in Nat /\ Cardinality(Locks) \in Nat
        /\ Cardinality(held[x]) <= Cardinality(Locks)
    BY <1>0, <1>1, <1>3, HeldFinite, HeldBound
  <1>6. noff[c] = Cardinality(held[x])
    BY <1>0, <1>2, <1>5 DEF InterruptsOff
  <1>7. TypeOK'
    <2>1. noff[c] + 1 \in 0..Cardinality(Locks) + 1
      BY <1>5, <1>6
    <2>2. sie[c] \in BOOLEAN /\ old[x] \in BOOLEAN
      BY <1>0, <1>1 DEF TypeOK
    <2>3. intena' \in [CPUs -> BOOLEAN] /\ before' \in [Contexts -> BOOLEAN]
      BY <1>0, <1>1, <1>2, <2>2 DEF TypeOK
    <2> QED BY Zenon, <1>0, <1>1, <1>2, <1>4, <2>1, <2>3 DEF TypeOK
  <1>8. FrameInv' /\ NoPanic'
    BY <1>0, <1>2, <1>4 DEF FrameInv, NoPanic
  <1>9. RunInv'
    BY <1>0, <1>1, <1>2 DEF RunInv, TypeOK, Contexts
  <1>10. WantInv'
    BY <1>0, <1>1, <1>2 DEF WantInv, TypeOK
  <1>11. InterruptsOff'
    BY <1>0, <1>1, <1>2, <1>5, <1>6 DEF InterruptsOff, TypeOK
  <1>12. IntenaInv'
    <2>1. ASSUME NEW d \in CPUs
          PROVE  /\ frames'[on'[d]] # <<>> => ~sie'[d]
                 /\ frames'[on'[d]] # <<>> /\ noff'[d] > 0 => ~intena'[d]
                 /\ pc'[on'[d]] = "push_off" => old'[on'[d]] = sie'[d]
                 /\ on'[d] \in Threads /\ noff'[d] > 0 => intena'[d] = before'[on'[d]]
      <3>1. CASE d = c
        BY <3>1, <1>0, <1>1, <1>2, <1>3, <1>5, <1>6 DEF IntenaInv, TypeOK
      <3>2. CASE d # c
        <4>1. on[d] # x /\ on[d] \in Contexts
          BY <3>2, <1>0, <1>1 DEF TypeOK
        <4> QED BY <3>2, <4>1, <1>0, <1>1, <1>2 DEF IntenaInv, TypeOK
      <3> QED BY <3>1, <3>2
    <2>2. ASSUME NEW t \in Threads, pc'[t] = "swtch"
          PROVE  myintena'[t] = before'[t] /\ (frames'[t] # <<>> => ~myintena'[t])
      <3>1. t \in Contexts /\ t # x /\ pc[t] = "swtch"
        BY <2>2, <1>0, <1>1, <1>2 DEF TypeOK, Contexts
      <3> QED BY <3>1, <1>0, <1>1, <1>2 DEF IntenaInv, TypeOK
    <2> QED BY <2>1, <2>2 DEF IntenaInv
  <1>13. \A y \in Contexts : Inside(y)' = Inside(y)
    BY <1>0, <1>1, <1>2 DEF Inside, TypeOK
  <1>14. LockInv' /\ MutualExclusion'
    BY <1>0, <1>1, <1>2, <1>13 DEF LockInv, MutualExclusion, TypeOK
  <1> QED BY <1>7, <1>8, <1>9, <1>10, <1>11, <1>12, <1>14 DEF SpinInv

\* The swap found the lock free.
LEMMA TestAndSetInv ==
  ASSUME SpinInv, NEW c \in CPUs, test_and_set(c)
  PROVE  SpinInv'
  <1> DEFINE x == on[c]
  <1>0. TypeOK /\ FrameInv /\ RunInv /\ WantInv /\ InterruptsOff /\ IntenaInv
        /\ LockInv /\ MutualExclusion /\ NoPanic
    BY DEF SpinInv
  <1>1. x \in Contexts /\ \A d \in CPUs : d # c => on[d] # x
    BY OnFacts
  <1> DEFINE l == want[x]
  <1>2. /\ pc[x] = "spin" /\ ~locked[l]
        /\ locked' = [locked EXCEPT ![l] = TRUE]
        /\ pc' = [pc EXCEPT ![x] = "own"]
        /\ UNCHANGED <<sie, noff, intena, on, cpu, want, old, held, frames, myintena,
                       before, panicked>>
    BY DEF test_and_set, At, Goto, Swapped, cpuvars
  <1>3. l \in AllLocks
    BY <1>0, <1>1, <1>2 DEF WantInv
  <1>4. TypeOK'
    BY <1>0, <1>1, <1>2, <1>3 DEF TypeOK
  <1>5. FrameInv' /\ NoPanic'
    BY <1>0, <1>2 DEF FrameInv, NoPanic
  <1>6. RunInv'
    BY <1>0, <1>1, <1>2 DEF RunInv, TypeOK, Contexts
  <1>7. WantInv'
    BY <1>0, <1>1, <1>2 DEF WantInv, TypeOK
  <1>8. InterruptsOff'
    BY <1>0, <1>1, <1>2 DEF InterruptsOff, TypeOK
  <1>9. IntenaInv'
    BY <1>0, <1>1, <1>2 DEF IntenaInv, TypeOK, Contexts
  <1>10. \A y \in Contexts : Inside(y)' = IF y = x THEN Inside(y) \union {l} ELSE Inside(y)
    BY <1>0, <1>1, <1>2 DEF Inside, TypeOK
  <1>11. \A y \in Contexts : l \notin Inside(y)
    BY <1>0, <1>2, <1>3 DEF LockInv
  <1>12. \A k \in AllLocks : locked'[k] <=> \E y \in Contexts : k \in Inside(y)'
    <2> SUFFICES ASSUME NEW k \in AllLocks
                 PROVE  locked'[k] <=> \E y \in Contexts : k \in Inside(y)'
      OBVIOUS
    <2>1. CASE k = l
      BY <2>1, <1>0, <1>1, <1>2, <1>3, <1>10 DEF TypeOK
    <2>2. CASE k # l
      <3>1. locked'[k] = locked[k] /\ \A y \in Contexts : k \in Inside(y)' <=> k \in Inside(y)
        BY <2>2, <1>0, <1>2, <1>3, <1>10 DEF TypeOK
      <3> QED BY <3>1, <1>0 DEF LockInv
    <2> QED BY <2>1, <2>2
  <1>13. LockInv'
    BY <1>0, <1>1, <1>2, <1>12 DEF LockInv, TypeOK
  <1>14. MutualExclusion'
    <2> SUFFICES ASSUME NEW y \in Contexts, NEW z \in Contexts, y # z
                 PROVE  Inside(y)' \intersect Inside(z)' = {}
      BY DEF MutualExclusion
    <2>1. Inside(y) \intersect Inside(z) = {}
      BY <1>0 DEF MutualExclusion
    <2>2. l \notin Inside(y) /\ l \notin Inside(z)
      BY <1>11
    <2>3. CASE y = x
      <3>1. Inside(y)' = Inside(y) \union {l} /\ Inside(z)' = Inside(z)
        BY <2>3, <1>10
      <3> QED BY <3>1, <2>1, <2>2
    <2>4. CASE z = x
      <3>1. Inside(z)' = Inside(z) \union {l} /\ Inside(y)' = Inside(y)
        BY <2>4, <1>10
      <3> QED BY <3>1, <2>1, <2>2
    <2>5. CASE y # x /\ z # x
      BY <2>1, <2>5, <1>10
    <2> QED BY <2>3, <2>4, <2>5
  <1> QED BY <1>4, <1>5, <1>6, <1>7, <1>8, <1>9, <1>13, <1>14 DEF SpinInv

\* lk->cpu is recorded: the context holds the lock.
LEMMA RecordCpuInv ==
  ASSUME SpinInv, NEW c \in CPUs, record_cpu(c)
  PROVE  SpinInv'
  <1> DEFINE x == on[c]
  <1>0. TypeOK /\ FrameInv /\ RunInv /\ WantInv /\ InterruptsOff /\ IntenaInv
        /\ LockInv /\ MutualExclusion /\ NoPanic
    BY DEF SpinInv
  <1>1. x \in Contexts /\ \A d \in CPUs : d # c => on[d] # x
    BY OnFacts
  <1> DEFINE l == want[x]
  <1>2. /\ pc[x] = "own"
        /\ cpu' = [cpu EXCEPT ![l] = c]
        /\ held' = [held EXCEPT ![x] = held[x] \union {l}]
        /\ want' = [want EXCEPT ![x] = NoLock]
        /\ pc' = [pc EXCEPT ![x] = "run"]
        /\ UNCHANGED <<sie, noff, intena, on, locked, old, frames, myintena, before,
                       panicked>>
    BY DEF record_cpu, At, Goto, cpuvars
  <1>3. l \in AllLocks /\ l \notin held[x] /\ held[x] \intersect Threads = {}
    BY <1>0, <1>1, <1>2 DEF WantInv
  <1>4. Cardinality(held[x] \union {l}) = Cardinality(held[x]) + 1 /\ Cardinality(held[x]) \in Nat
    BY Zenon, <1>0, <1>1, <1>3, HeldFinite, FS_AddElement
  <1>5. TypeOK'
    <2>1. held[x] \union {l} \in SUBSET AllLocks
      BY <1>0, <1>1, <1>3 DEF TypeOK
    <2> QED BY <1>0, <1>1, <1>2, <1>3, <2>1 DEF TypeOK
  <1>6. FrameInv' /\ NoPanic'
    BY <1>0, <1>2 DEF FrameInv, NoPanic
  <1>7. RunInv'
    BY Zenon, <1>0, <1>1, <1>2, OnFacts DEF RunInv, TypeOK, Contexts
  <1>8. WantInv'
    <2> SUFFICES ASSUME NEW y \in Contexts
                 PROVE  /\ want'[y] \in AllLocks <=> pc'[y] \in {"push_off", "spin", "own", "release"}
                        /\ pc'[y] = "release" => want'[y] \in held'[y]
                        /\ pc'[y] \in {"push_off", "spin", "own"} =>
                             want'[y] \notin held'[y] /\ held'[y] \intersect Threads = {}
                        /\ \A s, t \in Threads : s \in held'[y] /\ t \in held'[y] => s = t
                        /\ pc'[y] = "pop_off" => Cardinality(held'[y]) <= Cardinality(Locks)
      BY DEF WantInv
    <2>1. CASE y = x
      <3>1. want'[y] = NoLock /\ pc'[y] = "run" /\ held'[y] = held[x] \union {l}
        BY <2>1, <1>0, <1>1, <1>2 DEF TypeOK
      <3> QED BY <3>1, <1>3 DEF AllLocks
    <2>2. CASE y # x
      <3>1. want'[y] = want[y] /\ pc'[y] = pc[y] /\ held'[y] = held[y]
        BY <2>2, <1>0, <1>1, <1>2 DEF TypeOK
      <3> QED BY <3>1, <1>0 DEF WantInv
    <2> QED BY <2>1, <2>2
  <1>9. InterruptsOff'
    BY <1>0, <1>1, <1>2, <1>4 DEF InterruptsOff, TypeOK
  <1>10. IntenaInv'
    BY <1>0, <1>1, <1>2 DEF IntenaInv, TypeOK, Contexts
  <1>11. \A y \in Contexts : Inside(y)' = Inside(y)
    BY <1>0, <1>1, <1>2 DEF Inside, TypeOK
  <1>12. ASSUME NEW d \in CPUs, NEW k \in AllLocks
         PROVE  cpu'[k] = d <=> /\ k \in held'[on'[d]]
                                /\ ~(pc'[on'[d]] = "release" /\ want'[on'[d]] = k)
    <2>1. on[d] \in Contexts /\ (d # c => on[d] # x)
      BY <1>0, <1>1 DEF TypeOK
    <2>2. d # c => l \notin held[on[d]]
      <3>1. ASSUME d # c PROVE Inside(on[d]) \intersect Inside(x) = {}
        BY <1>0, <1>1, <2>1, <3>1 DEF MutualExclusion
      <3>2. l \in Inside(x) /\ held[on[d]] \subseteq Inside(on[d])
        BY <1>2 DEF Inside
      <3> QED BY <3>1, <3>2
    <2>3. CASE d = c
      BY <2>3, <1>0, <1>1, <1>2, <1>3 DEF LockInv, TypeOK
    <2>4. CASE d # c
      BY <2>1, <2>2, <2>4, <1>0, <1>1, <1>2, <1>3 DEF LockInv, TypeOK
    <2> QED BY <2>3, <2>4
  <1>13. LockInv'
    <2>1. ASSUME NEW k \in AllLocks
          PROVE  locked'[k] <=> \E y \in Contexts : k \in Inside(y)'
      <3>1. locked[k] <=> \E y \in Contexts : k \in Inside(y)
        BY Zenon, <1>0 DEF LockInv
      <3>2. locked' = locked
        BY <1>2
      <3> QED BY Zenon, <3>1, <3>2, <1>11
    <2> QED BY Zenon, <2>1, <1>12 DEF LockInv
  <1>14. MutualExclusion'
    BY Zenon, <1>0, <1>11 DEF MutualExclusion
  <1> QED BY <1>5, <1>6, <1>7, <1>8, <1>9, <1>10, <1>13, <1>14 DEF SpinInv

\* release() clears lk->cpu; the CPU holds the lock, so it does not panic.
LEMMA ReleaseInv ==
  ASSUME SpinInv, NEW c \in CPUs, NEW l \in AllLocks, release(c, l)
  PROVE  SpinInv'
  <1> DEFINE x == on[c]
  <1>0. TypeOK /\ FrameInv /\ RunInv /\ WantInv /\ InterruptsOff /\ IntenaInv
        /\ LockInv /\ MutualExclusion /\ NoPanic
    BY DEF SpinInv
  <1>1. x \in Contexts /\ \A d \in CPUs : d # c => on[d] # x
    BY OnFacts
  <1>2. /\ pc[x] = "run" /\ l \in held[x]
        /\ panicked' = ~holding(c, l)
        /\ cpu' = [cpu EXCEPT ![l] = NoCpu]
        /\ want' = [want EXCEPT ![x] = l]
        /\ pc' = [pc EXCEPT ![x] = "release"]
        /\ UNCHANGED <<sie, noff, intena, on, locked, old, held, frames, myintena, before>>
    BY DEF release, At, Goto, cpuvars
  <1>3. panicked' = FALSE
    <2>1. l \in Inside(x)
      BY <1>2 DEF Inside
    <2>2. locked[l] /\ cpu[l] = c
      BY <2>1, <1>0, <1>1, <1>2 DEF LockInv
    <2> QED BY Zenon, <1>2, <2>2 DEF holding
  <1>4. TypeOK'
    BY <1>0, <1>1, <1>2, <1>3 DEF TypeOK
  <1>5. FrameInv' /\ NoPanic'
    BY <1>0, <1>2, <1>3 DEF FrameInv, NoPanic
  <1>6. RunInv'
    BY <1>0, <1>1, <1>2 DEF RunInv, TypeOK, Contexts
  <1>7. WantInv'
    BY <1>0, <1>1, <1>2 DEF WantInv, TypeOK
  <1>8. InterruptsOff'
    BY <1>0, <1>1, <1>2 DEF InterruptsOff, TypeOK
  <1>9. IntenaInv'
    BY Zenon, <1>0, <1>1, <1>2 DEF IntenaInv, TypeOK, Contexts
  <1>10. \A y \in Contexts : Inside(y)' = Inside(y)
    BY <1>0, <1>1, <1>2 DEF Inside, TypeOK
  <1>11. ASSUME NEW d \in CPUs, NEW k \in AllLocks
         PROVE  cpu'[k] = d <=> /\ k \in held'[on'[d]]
                                /\ ~(pc'[on'[d]] = "release" /\ want'[on'[d]] = k)
    <2>1. on[d] \in Contexts /\ (d # c => on[d] # x) /\ d # NoCpu
      BY <1>0, <1>1 DEF TypeOK
    <2>2. d # c => l \notin held[on[d]]
      <3>1. ASSUME d # c PROVE Inside(on[d]) \intersect Inside(x) = {}
        BY <1>0, <1>1, <2>1, <3>1 DEF MutualExclusion
      <3>2. l \in Inside(x) /\ held[on[d]] \subseteq Inside(on[d])
        BY <1>2 DEF Inside
      <3> QED BY <3>1, <3>2
    <2>3. CASE d = c
      BY <2>1, <2>3, <1>0, <1>1, <1>2 DEF LockInv, TypeOK
    <2>4. CASE d # c
      BY <2>1, <2>2, <2>4, <1>0, <1>1, <1>2 DEF LockInv, TypeOK
    <2> QED BY <2>3, <2>4
  <1>12. LockInv' /\ MutualExclusion'
    BY <1>0, <1>2, <1>10, <1>11 DEF LockInv, MutualExclusion
  <1> QED BY <1>4, <1>5, <1>6, <1>7, <1>8, <1>9, <1>12 DEF SpinInv

\* The lock word is cleared: nobody is inside the lock.
LEMMA LockReleaseInv ==
  ASSUME SpinInv, NEW c \in CPUs, lock_release(c)
  PROVE  SpinInv'
  <1> DEFINE x == on[c]
  <1>0. TypeOK /\ FrameInv /\ RunInv /\ WantInv /\ InterruptsOff /\ IntenaInv
        /\ LockInv /\ MutualExclusion /\ NoPanic
    BY DEF SpinInv
  <1>1. x \in Contexts /\ \A d \in CPUs : d # c => on[d] # x
    BY OnFacts
  <1> DEFINE l == want[x]
  <1>2. /\ pc[x] = "release"
        /\ locked' = [locked EXCEPT ![l] = FALSE]
        /\ held' = [held EXCEPT ![x] = held[x] \ {l}]
        /\ want' = [want EXCEPT ![x] = NoLock]
        /\ pc' = [pc EXCEPT ![x] = "pop_off"]
        /\ UNCHANGED <<sie, noff, intena, on, cpu, old, frames, myintena, before, panicked>>
    BY DEF lock_release, At, Goto, cpuvars
  <1>3. l \in AllLocks /\ l \in held[x]
    BY <1>0, <1>1, <1>2 DEF WantInv
  <1>4. /\ Cardinality(held[x] \ {l}) = Cardinality(held[x]) - 1
        /\ Cardinality(held[x]) \in Nat
        /\ Cardinality(held[x] \ {l}) <= Cardinality(Locks)
    <2>1. Cardinality(held[x] \ {l}) = Cardinality(held[x]) - 1
      BY Zenon, <1>0, <1>1, <1>3, HeldFinite, FS_RemoveElement
    <2>2. /\ Cardinality(held[x]) \in Nat /\ Cardinality(Locks) \in Nat
          /\ Cardinality(held[x]) <= Cardinality(Locks) + 1
      BY <1>0, <1>1, HeldFinite, HeldBound
    <2> QED BY <2>1, <2>2
  <1>5. TypeOK'
    <2>1. held[x] \ {l} \in SUBSET AllLocks
      BY <1>0, <1>1 DEF TypeOK
    <2> QED BY <1>0, <1>1, <1>2, <1>3, <2>1 DEF TypeOK
  <1>6. FrameInv' /\ NoPanic'
    BY <1>0, <1>2 DEF FrameInv, NoPanic
  <1>7. RunInv'
    BY Zenon, <1>0, <1>1, <1>2, OnFacts DEF RunInv, TypeOK, Contexts
  <1>8. WantInv'
    <2> SUFFICES ASSUME NEW y \in Contexts
                 PROVE  /\ want'[y] \in AllLocks <=> pc'[y] \in {"push_off", "spin", "own", "release"}
                        /\ pc'[y] = "release" => want'[y] \in held'[y]
                        /\ pc'[y] \in {"push_off", "spin", "own"} =>
                             want'[y] \notin held'[y] /\ held'[y] \intersect Threads = {}
                        /\ \A s, t \in Threads : s \in held'[y] /\ t \in held'[y] => s = t
                        /\ pc'[y] = "pop_off" => Cardinality(held'[y]) <= Cardinality(Locks)
      BY DEF WantInv
    <2>1. CASE y = x
      <3>1. want'[y] = NoLock /\ pc'[y] = "pop_off" /\ held'[y] = held[x] \ {l}
        BY <2>1, <1>0, <1>1, <1>2 DEF TypeOK
      <3>2. \A s, t \in Threads : s \in held[x] /\ t \in held[x] => s = t
        BY <1>0, <1>1 DEF WantInv
      <3> QED BY <3>1, <3>2, <1>4 DEF AllLocks
    <2>2. CASE y # x
      <3>1. want'[y] = want[y] /\ pc'[y] = pc[y] /\ held'[y] = held[y]
        BY <2>2, <1>0, <1>1, <1>2 DEF TypeOK
      <3> QED BY <3>1, <1>0 DEF WantInv
    <2> QED BY <2>1, <2>2
  <1>9. InterruptsOff'
    BY <1>0, <1>1, <1>2, <1>4 DEF InterruptsOff, TypeOK
  <1>10. IntenaInv'
    BY Zenon, <1>0, <1>1, <1>2 DEF IntenaInv, TypeOK, Contexts
  <1>11. \A y \in Contexts : Inside(y)' = Inside(y) \ {l}
    <2> SUFFICES ASSUME NEW y \in Contexts PROVE Inside(y)' = Inside(y) \ {l}
      OBVIOUS
    <2>1. CASE y = x
      BY <2>1, <1>0, <1>1, <1>2 DEF Inside, TypeOK
    <2>2. CASE y # x
      <3>1. Inside(y) \intersect Inside(x) = {} /\ l \in Inside(x)
        BY Zenon, <2>2, <1>0, <1>1, <1>3 DEF MutualExclusion, Inside
      <3>2. Inside(y)' = Inside(y)
        BY <2>2, <1>0, <1>1, <1>2 DEF Inside, TypeOK
      <3> QED BY <3>1, <3>2
    <2> QED BY <2>1, <2>2
  <1>12. \A k \in AllLocks : locked'[k] <=> \E y \in Contexts : k \in Inside(y)'
    <2> SUFFICES ASSUME NEW k \in AllLocks
                 PROVE  locked'[k] <=> \E y \in Contexts : k \in Inside(y)'
      OBVIOUS
    <2>1. locked'[k] <=> (k # l /\ locked[k])
      BY <1>0, <1>2, <1>3 DEF TypeOK
    <2>2. locked[k] <=> \E y \in Contexts : k \in Inside(y)
      BY <1>0 DEF LockInv
    <2> QED BY <2>1, <2>2, <1>11
  <1>13. ASSUME NEW d \in CPUs, NEW k \in AllLocks
         PROVE  cpu'[k] = d <=> /\ k \in held'[on'[d]]
                                /\ ~(pc'[on'[d]] = "release" /\ want'[on'[d]] = k)
    <2>1. on[d] \in Contexts /\ (d # c => on[d] # x)
      BY <1>0, <1>1 DEF TypeOK
    <2> QED BY <2>1, <1>0, <1>1, <1>2 DEF LockInv, TypeOK
  <1>14. LockInv'
    BY <1>12, <1>13 DEF LockInv
  <1>15. MutualExclusion'
    BY <1>0, <1>11 DEF MutualExclusion
  <1> QED BY <1>5, <1>6, <1>7, <1>8, <1>9, <1>10, <1>14, <1>15 DEF SpinInv

\* pop_off() does not panic, and the last one restores the interrupt state.
LEMMA PopOffInv ==
  ASSUME SpinInv, NEW c \in CPUs, pop_off(c)
  PROVE  SpinInv'
  <1> DEFINE x == on[c]
  <1>0. TypeOK /\ FrameInv /\ RunInv /\ WantInv /\ InterruptsOff /\ IntenaInv
        /\ LockInv /\ MutualExclusion /\ NoPanic
    BY DEF SpinInv
  <1>1. x \in Contexts /\ \A d \in CPUs : d # c => on[d] # x
    BY OnFacts
  <1>2. /\ pc[x] = "pop_off"
        /\ panicked' = (sie[c] \/ noff[c] < 1)
        /\ noff' = [noff EXCEPT ![c] = noff[c] - 1]
        /\ sie' = IF noff[c] = 1 /\ intena[c] THEN [sie EXCEPT ![c] = TRUE] ELSE sie
        /\ before' = IF noff[c] = 1 THEN [before EXCEPT ![x] = FALSE] ELSE before
        /\ pc' = [pc EXCEPT ![x] = "run"]
        /\ UNCHANGED <<intena, on, locked, cpu, want, old, held, frames, myintena>>
    BY DEF pop_off, At, Goto, Popped, Last, lockvars
  <1>3. /\ Cardinality(held[x]) \in Nat /\ noff[c] = Cardinality(held[x]) + 1
        /\ noff[c] \in Nat /\ ~sie[c]
    <2>1. Cardinality(held[x]) \in Nat
      BY <1>0, <1>1, HeldFinite
    <2>2. noff[c] = Cardinality(held[x]) + 1
      BY <1>0, <1>2 DEF InterruptsOff
    <2> QED BY <2>1, <2>2, <1>0 DEF InterruptsOff
  <1>4. panicked' = FALSE
    <2>1. ~(noff[c] < 1)
      BY <1>3
    <2> QED BY Zenon, <1>2, <1>3, <2>1
  <1>5. TypeOK'
    <2>1. noff[c] - 1 \in 0..Cardinality(Locks) + 1
      <3>1. noff[c] <= Cardinality(Locks) + 1 /\ Cardinality(Locks) \in Nat
        BY <1>0, <1>1, HeldBound DEF TypeOK
      <3> QED BY <1>3, <3>1
    <2>2. sie' \in [CPUs -> BOOLEAN] /\ before' \in [Contexts -> BOOLEAN]
      BY <1>0, <1>1, <1>2 DEF TypeOK
    <2> QED BY <1>0, <1>1, <1>2, <1>4, <2>1, <2>2 DEF TypeOK
  <1>6. FrameInv' /\ NoPanic'
    BY <1>0, <1>2, <1>4 DEF FrameInv, NoPanic
  <1>7. RunInv'
    BY <1>0, <1>1, <1>2 DEF RunInv, TypeOK, Contexts
  <1>8. WantInv'
    BY <1>0, <1>1, <1>2 DEF WantInv, TypeOK
  <1>9. InterruptsOff'
    <2> SUFFICES ASSUME NEW d \in CPUs
                 PROVE  /\ noff'[d] = Cardinality(held'[on'[d]])
                             + (IF pc'[on'[d]] \in {"spin", "own", "pop_off"} THEN 1 ELSE 0)
                        /\ noff'[d] > 0 => ~sie'[d]
      BY DEF InterruptsOff
    <2>1. CASE d = c
      BY <2>1, <1>0, <1>1, <1>2, <1>3 DEF TypeOK
    <2>2. CASE d # c
      <3>1. on[d] # x /\ on[d] \in Contexts
        BY <2>2, <1>0, <1>1 DEF TypeOK
      <3> QED BY Zenon, <2>2, <3>1, <1>0, <1>1, <1>2 DEF InterruptsOff, TypeOK
    <2> QED BY Zenon, <2>1, <2>2
  <1>10. IntenaInv'
    <2>1. ASSUME NEW d \in CPUs
          PROVE  /\ frames'[on'[d]] # <<>> => ~sie'[d]
                 /\ frames'[on'[d]] # <<>> /\ noff'[d] > 0 => ~intena'[d]
                 /\ pc'[on'[d]] = "push_off" => old'[on'[d]] = sie'[d]
                 /\ on'[d] \in Threads /\ noff'[d] > 0 => intena'[d] = before'[on'[d]]
      <3>1. CASE d = c
        <4>1. /\ noff'[c] = noff[c] - 1 /\ on'[c] = x /\ pc'[x] = "run"
              /\ noff[c] # 1 => sie'[c] = sie[c] /\ before' = before
              /\ ~intena[c] => sie'[c] = sie[c]
              /\ intena' = intena /\ frames' = frames
          BY Zenon, <1>0, <1>1, <1>2 DEF TypeOK
        <4>2. noff[c] > 0 /\ ~sie[c] /\ (noff'[c] > 0 => noff[c] # 1)
          BY <4>1, <1>3
        <4>3. /\ frames[x] # <<>> => ~intena[c]
              /\ x \in Threads => intena[c] = before[x]
          BY Zenon, <4>2, <1>0 DEF IntenaInv
        <4> QED BY Zenon, <3>1, <4>1, <4>2, <4>3
      <3>2. CASE d # c
        <4>1. on[d] # x /\ on[d] \in Contexts
          BY <3>2, <1>0, <1>1 DEF TypeOK
        <4> QED BY <3>2, <4>1, <1>0, <1>1, <1>2 DEF IntenaInv, TypeOK
      <3> QED BY <3>1, <3>2
    <2>2. ASSUME NEW t \in Threads, pc'[t] = "swtch"
          PROVE  myintena'[t] = before'[t] /\ (frames'[t] # <<>> => ~myintena'[t])
      <3>1. t \in Contexts /\ t # x /\ pc[t] = "swtch"
        BY <2>2, <1>0, <1>1, <1>2 DEF TypeOK, Contexts
      <3> QED BY Zenon, <3>1, <1>0, <1>1, <1>2 DEF IntenaInv, TypeOK
    <2> QED BY Zenon, <2>1, <2>2 DEF IntenaInv
  <1>11. \A y \in Contexts : Inside(y)' = Inside(y)
    BY <1>0, <1>1, <1>2 DEF Inside, TypeOK
  <1>12. LockInv' /\ MutualExclusion'
    BY <1>0, <1>1, <1>2, <1>11 DEF LockInv, MutualExclusion, TypeOK
  <1> QED BY <1>5, <1>6, <1>7, <1>8, <1>9, <1>10, <1>12 DEF SpinInv

\* An interrupt finds its context outside every lock, and no handler below it.
LEMMA KerneltrapInv ==
  ASSUME SpinInv, NEW c \in CPUs, kerneltrap(c)
  PROVE  SpinInv'
  <1> DEFINE x == on[c]
  <1>0. TypeOK /\ FrameInv /\ RunInv /\ WantInv /\ InterruptsOff /\ IntenaInv
        /\ LockInv /\ MutualExclusion /\ NoPanic
    BY DEF SpinInv
  <1>1. x \in Contexts /\ \A d \in CPUs : d # c => on[d] # x
    BY OnFacts
  <1> DEFINE f == [pc |-> pc[x], old |-> old[x], want |-> want[x], held |-> held[x]]
  <1>2. /\ sie[c]
        /\ frames' = [frames EXCEPT ![x] = Append(frames[x], f)]
        /\ sie' = [sie EXCEPT ![c] = FALSE]
        /\ held' = [held EXCEPT ![x] = {}]
        /\ want' = [want EXCEPT ![x] = NoLock]
        /\ old' = [old EXCEPT ![x] = FALSE]
        /\ pc' = [pc EXCEPT ![x] = "run"]
        /\ UNCHANGED <<noff, intena, on, locked, cpu, myintena, before, panicked>>
    BY DEF kerneltrap, Goto, lockvars
  <1>3. noff[c] = 0 /\ held[x] = {} /\ pc[x] \in {"run", "push_off"} /\ frames[x] = <<>>
    BY Zenon, <1>0, <1>2, Interruptible DEF IntenaInv
  <1>4. f \in Frames
    <2>1. want[x] \in AllLocks \union {NoLock} /\ old[x] \in BOOLEAN
      BY <1>0, <1>1 DEF TypeOK
    <2>2. /\ pc[x] = "push_off" => old[x] /\ want[x] \in AllLocks
          /\ pc[x] = "run" => want[x] = NoLock
      BY <2>1, <1>0, <1>1, <1>2, <1>3 DEF WantInv, IntenaInv
    <2> QED BY Zenon, <2>1, <2>2, <1>3 DEF Frames
  <1>5. Append(frames[x], f) = <<f>>
    BY <1>3
  <1>6. FrameInv'
    BY Zenon, <1>0, <1>1, <1>2, <1>4, <1>5 DEF FrameInv
  <1> HIDE DEF f
  <1>7. held' = held
    BY <1>0, <1>1, <1>2, <1>3 DEF TypeOK
  <1>8. TypeOK' /\ NoPanic'
    BY <1>0, <1>1, <1>2 DEF TypeOK, NoPanic
  <1>9. RunInv'
    BY <1>0, <1>1, <1>2, <1>3, <1>7 DEF RunInv, TypeOK, Contexts, FrameInv
  <1>10. WantInv'
    BY <1>0, <1>1, <1>2, <1>3, <1>7 DEF WantInv, TypeOK, AllLocks
  <1>11. InterruptsOff'
    BY Zenon, <1>0, <1>1, <1>2, <1>3, <1>7 DEF InterruptsOff, TypeOK
  <1>12. IntenaInv'
    <2>1. ASSUME NEW d \in CPUs
          PROVE  /\ frames'[on'[d]] # <<>> => ~sie'[d]
                 /\ frames'[on'[d]] # <<>> /\ noff'[d] > 0 => ~intena'[d]
                 /\ pc'[on'[d]] = "push_off" => old'[on'[d]] = sie'[d]
                 /\ on'[d] \in Threads /\ noff'[d] > 0 => intena'[d] = before'[on'[d]]
      <3>1. CASE d = c
        BY <3>1, <1>0, <1>1, <1>2, <1>3 DEF IntenaInv, TypeOK
      <3>2. CASE d # c
        <4>1. on[d] # x /\ on[d] \in Contexts
          BY <3>2, <1>0, <1>1 DEF TypeOK
        <4> QED BY ZenonT(30), <3>2, <4>1, <1>0, <1>1, <1>2 DEF IntenaInv, TypeOK, FrameInv
      <3> QED BY Zenon, <3>1, <3>2
    <2>2. ASSUME NEW t \in Threads, pc'[t] = "swtch"
          PROVE  myintena'[t] = before'[t] /\ (frames'[t] # <<>> => ~myintena'[t])
      <3>1. t \in Contexts /\ t # x /\ pc[t] = "swtch"
        BY Zenon, <2>2, <1>0, <1>1, <1>2, <1>3 DEF TypeOK, Contexts
      <3> QED BY <3>1, <1>0, <1>1, <1>2 DEF IntenaInv, TypeOK, FrameInv
    <2> QED BY Zenon, <2>1, <2>2 DEF IntenaInv
  <1>13. \A y \in Contexts : Inside(y)' = Inside(y)
    BY Zenon, <1>0, <1>1, <1>2, <1>3, <1>7 DEF Inside, TypeOK
  <1>14. LockInv' /\ MutualExclusion'
    BY <1>0, <1>1, <1>2, <1>3, <1>7, <1>13 DEF LockInv, MutualExclusion, TypeOK
  <1> QED BY <1>6, <1>8, <1>9, <1>10, <1>11, <1>12, <1>14 DEF SpinInv

\* sret goes back to a context that was inside no lock.
LEMMA SretInv ==
  ASSUME SpinInv, NEW c \in CPUs, sret(c)
  PROVE  SpinInv'
  <1> DEFINE x == on[c]
  <1>0. TypeOK /\ FrameInv /\ RunInv /\ WantInv /\ InterruptsOff /\ IntenaInv
        /\ LockInv /\ MutualExclusion /\ NoPanic
    BY DEF SpinInv
  <1>1. x \in Contexts /\ \A d \in CPUs : d # c => on[d] # x
    BY OnFacts
  <1> DEFINE f == frames[x][Len(frames[x])]
  <1>2. /\ pc[x] = "run" /\ frames[x] # <<>> /\ held[x] = {}
        /\ frames' = [frames EXCEPT ![x] = SubSeq(frames[x], 1, Len(frames[x]) - 1)]
        /\ sie' = [sie EXCEPT ![c] = TRUE]
        /\ pc' = [pc EXCEPT ![x] = f.pc]
        /\ old' = [old EXCEPT ![x] = f.old]
        /\ want' = [want EXCEPT ![x] = f.want]
        /\ held' = [held EXCEPT ![x] = f.held]
        /\ UNCHANGED <<noff, intena, on, locked, cpu, myintena, before, panicked>>
    BY Zenon DEF sret, At, lockvars
  <1>a. PICK g \in Frames : frames[x] = <<g>>
    BY Zenon, <1>0, <1>1, <1>2 DEF FrameInv
  <1>b. f = g /\ SubSeq(frames[x], 1, Len(frames[x]) - 1) = <<>>
    BY <1>a
  <1> HIDE DEF f
  <1>c. /\ f.pc \in {"run", "push_off"} /\ f.old \in BOOLEAN /\ f.held = {}
        /\ f.want \in AllLocks \union {NoLock}
        /\ f.pc = "push_off" => f.old /\ f.want \in AllLocks
        /\ f.pc = "run" => f.want = NoLock
    BY <1>a, <1>b DEF Frames
  <1>3. noff[c] = 0
    <2>1. Cardinality(held[x]) = 0
      BY Zenon, <1>0, <1>1, <1>2, HeldFinite
    <2>2. noff[c] = Cardinality(held[x]) + 0
      BY Zenon, <1>0, <1>2 DEF InterruptsOff
    <2> QED BY <2>1, <2>2
  <1>d. /\ pc'[x] = f.pc /\ want'[x] = f.want
        /\ \A y \in Contexts : y # x => pc'[y] = pc[y] /\ want'[y] = want[y]
    BY Zenon, <1>0, <1>1, <1>2 DEF TypeOK
  <1>6. FrameInv'
    BY <1>0, <1>1, <1>2, <1>b DEF FrameInv
  <1>7. held' = held
    BY <1>0, <1>1, <1>2, <1>c DEF TypeOK
  <1>8. TypeOK' /\ NoPanic'
    BY <1>0, <1>1, <1>2, <1>c, <1>7 DEF TypeOK, NoPanic
  <1>9. RunInv'
    BY <1>0, <1>1, <1>2, <1>b, <1>c, <1>7 DEF RunInv, TypeOK, Contexts, FrameInv
  <1>10. WantInv'
    BY <1>0, <1>1, <1>2, <1>c, <1>7 DEF WantInv, TypeOK, AllLocks
  <1>11. InterruptsOff'
    <2> SUFFICES ASSUME NEW d \in CPUs
                 PROVE  /\ noff'[d] = Cardinality(held'[on'[d]])
                             + (IF pc'[on'[d]] \in {"spin", "own", "pop_off"} THEN 1 ELSE 0)
                        /\ noff'[d] > 0 => ~sie'[d]
      BY DEF InterruptsOff
    <2>1. CASE d = c
      <3>1. Cardinality(held[x]) = 0
        BY Zenon, <1>0, <1>1, <1>2, HeldFinite
      <3>2. pc'[x] \notin {"spin", "own", "pop_off"}
        BY Zenon, <1>0, <1>1, <1>2, <1>c DEF TypeOK
      <3>3. on'[d] = x /\ held'[x] = held[x] /\ noff'[d] = 0
        BY <2>1, <1>2, <1>3, <1>7
      <3> QED BY <3>1, <3>2, <3>3
    <2>2. CASE d # c
      <3>1. on[d] # x /\ on[d] \in Contexts
        BY <2>2, <1>0, <1>1 DEF TypeOK
      <3>2. pc'[on[d]] = pc[on[d]] /\ sie'[d] = sie[d]
        BY <2>2, <3>1, <1>0, <1>1, <1>2 DEF TypeOK
      <3> QED BY <3>2, <1>0, <1>2, <1>7 DEF InterruptsOff
    <2> QED BY <2>1, <2>2
  <1>12. IntenaInv'
    <2>1. ASSUME NEW d \in CPUs
          PROVE  /\ frames'[on'[d]] # <<>> => ~sie'[d]
                 /\ frames'[on'[d]] # <<>> /\ noff'[d] > 0 => ~intena'[d]
                 /\ pc'[on'[d]] = "push_off" => old'[on'[d]] = sie'[d]
                 /\ on'[d] \in Threads /\ noff'[d] > 0 => intena'[d] = before'[on'[d]]
      <3>1. CASE d = c
        BY ZenonT(30), <3>1, <1>0, <1>1, <1>2, <1>3, <1>b, <1>c DEF IntenaInv, TypeOK, FrameInv
      <3>2. CASE d # c
        <4>1. on[d] # x /\ on[d] \in Contexts
          BY <3>2, <1>0, <1>1 DEF TypeOK
        <4>2. /\ frames[on[d]] # <<>> => ~sie[d]
              /\ frames[on[d]] # <<>> /\ noff[d] > 0 => ~intena[d]
              /\ pc[on[d]] = "push_off" => old[on[d]] = sie[d]
              /\ on[d] \in Threads /\ noff[d] > 0 => intena[d] = before[on[d]]
          BY Zenon, <1>0 DEF IntenaInv
        <4>3. frames'[on[d]] = frames[on[d]]
          BY Zenon, <4>1, <1>0, <1>2 DEF FrameInv
        <4>4. old'[on[d]] = old[on[d]] /\ sie'[d] = sie[d]
          BY Zenon, <3>2, <4>1, <1>0, <1>2 DEF TypeOK
        <4>5. pc'[on[d]] = pc[on[d]] /\ UNCHANGED <<on, noff, intena, before>>
          BY Zenon, <4>1, <1>2, <1>d
        <4> QED BY Zenon, <4>2, <4>3, <4>4, <4>5
      <3> QED BY <3>1, <3>2
    <2>2. ASSUME NEW t \in Threads, pc'[t] = "swtch"
          PROVE  myintena'[t] = before'[t] /\ (frames'[t] # <<>> => ~myintena'[t])
      <3>1. t \in Contexts /\ t # x /\ pc[t] = "swtch"
        BY <2>2, <1>0, <1>1, <1>2, <1>c DEF TypeOK, Contexts
      <3> QED BY ZenonT(30), <3>1, <1>0, <1>1, <1>2 DEF IntenaInv, TypeOK, FrameInv
    <2> QED BY <2>1, <2>2 DEF IntenaInv
  <1>13. \A y \in Contexts : Inside(y)' = Inside(y)
    <2>1. \A y \in Contexts : pc'[y] = "own" <=> pc[y] = "own"
      BY Zenon, <1>2, <1>c, <1>d
    <2>2. \A y \in Contexts : pc[y] = "own" => want'[y] = want[y]
      BY Zenon, <1>2, <1>d
    <2> QED BY Zenon, <2>1, <2>2, <1>7 DEF Inside
  <1>14. LockInv' /\ MutualExclusion'
    <2>1. \A y \in Contexts : /\ pc'[y] = "release" <=> pc[y] = "release"
                              /\ pc[y] = "release" => want'[y] = want[y]
      BY Zenon, <1>2, <1>c, <1>d
    <2>2. UNCHANGED <<locked, cpu, on, held>>
      BY Zenon, <1>2, <1>7
    <2> QED BY Zenon, <2>1, <2>2, <1>13, LockKept
  <1> QED BY <1>6, <1>8, <1>9, <1>10, <1>11, <1>12, <1>14 DEF SpinInv

\* The scheduler turns interrupts on while it is inside no lock.
LEMMA IntrOnInv ==
  ASSUME SpinInv, NEW c \in CPUs, intr_on(c)
  PROVE  SpinInv'
  <1> DEFINE x == on[c]
  <1>0. TypeOK /\ FrameInv /\ RunInv /\ WantInv /\ InterruptsOff /\ IntenaInv
        /\ LockInv /\ MutualExclusion /\ NoPanic
    BY DEF SpinInv
  <1>1. x \in Contexts /\ \A d \in CPUs : d # c => on[d] # x
    BY OnFacts
  <1>2. /\ pc[x] = "run" /\ x = c /\ held[c] = {} /\ frames[c] = <<>>
        /\ sie' = [sie EXCEPT ![c] = TRUE]
        /\ UNCHANGED <<noff, intena, on, locked, cpu, pc, want, old, held, frames, myintena,
                       before, panicked>>
    BY DEF intr_on, At, lockvars
  <1>3. noff[c] = 0
    <2>1. Cardinality(held[x]) = 0
      BY Zenon, <1>0, <1>1, <1>2, HeldFinite
    <2>2. noff[c] = Cardinality(held[x]) + 0
      BY Zenon, <1>0, <1>2 DEF InterruptsOff
    <2> QED BY <2>1, <2>2
  <1>4. TypeOK' /\ NoPanic' /\ FrameInv'
    BY <1>0, <1>2 DEF TypeOK, NoPanic, FrameInv
  <1>5. RunInv' /\ WantInv'
    BY <1>0, <1>2 DEF RunInv, WantInv
  <1>6. InterruptsOff'
    <2> SUFFICES ASSUME NEW d \in CPUs
                 PROVE  /\ noff'[d] = Cardinality(held'[on'[d]])
                             + (IF pc'[on'[d]] \in {"spin", "own", "pop_off"} THEN 1 ELSE 0)
                        /\ noff'[d] > 0 => ~sie'[d]
      BY Zenon DEF InterruptsOff
    <2>1. /\ noff[d] = Cardinality(held[on[d]])
                        + (IF pc[on[d]] \in {"spin", "own", "pop_off"} THEN 1 ELSE 0)
          /\ noff[d] > 0 => ~sie[d]
      BY Zenon, <1>0 DEF InterruptsOff
    <2>2. UNCHANGED <<noff, held, on, pc>>
      BY Zenon, <1>2
    <2>3. d # c => sie'[d] = sie[d]
      BY Zenon, <1>0, <1>2 DEF TypeOK
    <2>4. noff[d] > 0 => d # c
      BY <1>3
    <2> QED BY Zenon, <2>1, <2>2, <2>3, <2>4
  <1>7. IntenaInv'
    BY Zenon, <1>0, <1>2 DEF IntenaInv, TypeOK
  <1>8. LockInv' /\ MutualExclusion'
    <2>1. \A y \in Contexts : Inside(y)' = Inside(y)
      BY Zenon, <1>2 DEF Inside
    <2> QED BY Zenon, <2>1, <1>2, LockKept
  <1> QED BY <1>4, <1>5, <1>6, <1>7, <1>8 DEF SpinInv

\* sched() does not panic; the p->lock goes to the scheduler of the CPU, and
\* the interrupt state from before the first push_off() stays with the thread.
LEMMA SchedInv ==
  ASSUME SpinInv, NEW c \in CPUs, sched(c)
  PROVE  SpinInv'
  <1> DEFINE x == on[c]
  <1>0. TypeOK /\ FrameInv /\ RunInv /\ WantInv /\ InterruptsOff /\ IntenaInv
        /\ LockInv /\ MutualExclusion /\ NoPanic
    BY DEF SpinInv
  <1>1. PICK t \in Threads : t = x
    BY DEF sched
  <1>2. /\ pc[t] = "run" /\ held[t] = {t} /\ on[c] = t
        /\ panicked' = (~holding(c, t) \/ noff[c] # 1 \/ sie[c])
        /\ myintena' = [myintena EXCEPT ![t] = intena[c]]
        /\ on' = [on EXCEPT ![c] = c]
        /\ held' = [held EXCEPT ![t] = {}, ![c] = {t}]
        /\ pc' = [pc EXCEPT ![t] = "swtch"]
        /\ UNCHANGED <<sie, noff, intena, locked, cpu, want, old, frames, before>>
    BY <1>1 DEF sched, At, Goto, cpuvars, lockvars
  <1>3. /\ t \in Contexts /\ c \in Contexts /\ t # c /\ t \in AllLocks /\ t \notin CPUs
        /\ c \notin Threads
    BY DEF Contexts, AllLocks
  <1>4. /\ pc[c] = "run" /\ held[c] = {} /\ frames[c] = <<>> /\ want[c] = NoLock
        /\ want[t] = NoLock /\ \A d \in CPUs : d # c => on[d] # t /\ on[d] # c
    <2>1. pc[c] = "run" /\ held[c] = {} /\ frames[c] = <<>> /\ want[c] = NoLock
      <3>1. on[c] # c
        BY Zenon, <1>2, <1>3
      <3> QED BY Zenon, <3>1, <1>0 DEF RunInv
    <2>2. want[t] = NoLock
      BY <1>0, <1>2, <1>3 DEF WantInv, TypeOK
    <2>3. ASSUME NEW d \in CPUs, d # c PROVE on[d] # t /\ on[d] # c
      <3>1. on[d] # on[c] /\ (on[d] = d \/ on[d] \in Threads)
        BY Zenon, <2>3, <1>0 DEF RunInv
      <3> QED BY Zenon, <3>1, <2>3, <1>2, <1>3
    <2> QED BY <2>1, <2>2, <2>3
  <1>5. Cardinality({t}) = 1 /\ noff[c] = 1 /\ ~sie[c]
    <2>1. Cardinality({t}) = 1
      BY FS_Singleton
    <2>2. noff[c] = Cardinality({t}) + 0
      BY <1>0, <1>2 DEF InterruptsOff
    <2>3. noff[c] = 1
      BY <2>1, <2>2
    <2> QED BY <2>1, <2>3, <1>0 DEF InterruptsOff
  <1>6. panicked' = FALSE
    <2>1. t \in Inside(t)
      BY <1>2 DEF Inside
    <2>2. locked[t] /\ cpu[t] = c
      BY Zenon, <2>1, <1>0, <1>2, <1>3 DEF LockInv
    <2> QED BY Zenon, <1>2, <1>5, <2>2 DEF holding
  <1>7. held'[t] = {} /\ held'[c] = {t} /\ \A y \in Contexts : y # t /\ y # c => held'[y] = held[y]
    BY <1>0, <1>2, <1>3 DEF TypeOK
  <1>8. /\ on'[c] = c /\ \A d \in CPUs : d # c => on'[d] = on[d]
        /\ pc'[t] = "swtch" /\ \A y \in Contexts : y # t => pc'[y] = pc[y]
        /\ want' = want /\ frames' = frames
    BY <1>0, <1>2, <1>3 DEF TypeOK
  <1>9. TypeOK'
    BY <1>0, <1>2, <1>3, <1>6 DEF TypeOK
  <1>10. FrameInv' /\ NoPanic'
    BY <1>0, <1>2, <1>6 DEF FrameInv, NoPanic
  <1>11. RunInv'
    <2>1. \A d \in CPUs : on'[d] = d \/ on'[d] \in Threads
      BY ZenonT(30), <1>0, <1>8 DEF RunInv
    <2>2. \A d, e \in CPUs : on'[d] = on'[e] => d = e
      BY <1>0, <1>3, <1>4, <1>8 DEF RunInv
    <2>3. ASSUME NEW u \in Threads
          PROVE  (\E d \in CPUs : on'[d] = u) <=> pc'[u] \notin {"fresh", "swtch"}
      <3>1. CASE u = t
        BY <3>1, <1>3, <1>4, <1>8
      <3>2. CASE u # t
        <4>1. pc'[u] = pc[u] /\ \A d \in CPUs : on'[d] = u <=> on[d] = u
          BY <3>2, <1>2, <1>3, <1>8 DEF Contexts
        <4> QED BY <4>1, <1>0 DEF RunInv
      <3> QED BY <3>1, <3>2
    <2>4. ASSUME NEW u \in Threads
          PROVE  /\ pc'[u] \in {"fresh", "swtch"} => held'[u] = {} /\ want'[u] = NoLock
                 /\ pc'[u] = "fresh" => frames'[u] = <<>>
      <3>1. u \in Contexts /\ u # c
        BY DEF Contexts
      <3>2. CASE u = t
        BY Zenon, <3>2, <1>2, <1>4, <1>7, <1>8
      <3>3. CASE u # t
        BY <3>1, <3>3, <1>0, <1>7, <1>8 DEF RunInv
      <3> QED BY <3>2, <3>3
    <2>5. ASSUME NEW d \in CPUs
          PROVE  /\ pc'[d] \notin {"fresh", "swtch"}
                 /\ on'[d] # d =>
                      pc'[d] = "run" /\ held'[d] = {} /\ frames'[d] = <<>> /\ want'[d] = NoLock
      <3>1. d \in Contexts /\ d # t
        BY DEF Contexts
      <3>2. CASE d = c
        BY <3>2, <1>3, <1>4, <1>8
      <3>3. CASE d # c
        BY <3>1, <3>3, <1>0, <1>7, <1>8 DEF RunInv
      <3> QED BY <3>2, <3>3
    <2> QED BY <2>1, <2>2, <2>3, <2>4, <2>5 DEF RunInv
  <1>12. WantInv'
    <2> SUFFICES ASSUME NEW y \in Contexts
                 PROVE  /\ want'[y] \in AllLocks <=> pc'[y] \in {"push_off", "spin", "own", "release"}
                        /\ pc'[y] = "release" => want'[y] \in held'[y]
                        /\ pc'[y] \in {"push_off", "spin", "own"} =>
                             want'[y] \notin held'[y] /\ held'[y] \intersect Threads = {}
                        /\ \A s, u \in Threads : s \in held'[y] /\ u \in held'[y] => s = u
                        /\ pc'[y] = "pop_off" => Cardinality(held'[y]) <= Cardinality(Locks)
      BY DEF WantInv
    <2>1. NoLock \notin AllLocks
      BY DEF AllLocks
    <2>2. CASE y = t
      <3>1. want'[y] = NoLock /\ pc'[y] = "swtch" /\ held'[y] = {}
        BY <2>2, <1>4, <1>7, <1>8
      <3> QED BY <2>1, <3>1
    <2>3. CASE y = c
      <3>1. want'[y] = NoLock /\ pc'[y] = "run" /\ held'[y] = {t}
        BY <2>3, <1>3, <1>4, <1>7, <1>8
      <3> QED BY <2>1, <3>1
    <2>4. CASE y # t /\ y # c
      <3>1. /\ want[y] \in AllLocks <=> pc[y] \in {"push_off", "spin", "own", "release"}
            /\ pc[y] = "release" => want[y] \in held[y]
            /\ pc[y] \in {"push_off", "spin", "own"} =>
                 want[y] \notin held[y] /\ held[y] \intersect Threads = {}
            /\ \A u, v \in Threads : u \in held[y] /\ v \in held[y] => u = v
            /\ pc[y] = "pop_off" => Cardinality(held[y]) <= Cardinality(Locks)
        BY Zenon, <1>0 DEF WantInv
      <3>2. want'[y] = want[y] /\ pc'[y] = pc[y] /\ held'[y] = held[y]
        BY Zenon, <2>4, <1>2, <1>7, <1>8
      <3> QED BY Zenon, <3>1, <3>2
    <2> QED BY <2>2, <2>3, <2>4
  <1>13. InterruptsOff'
    <2> SUFFICES ASSUME NEW d \in CPUs
                 PROVE  /\ noff'[d] = Cardinality(held'[on'[d]])
                             + (IF pc'[on'[d]] \in {"spin", "own", "pop_off"} THEN 1 ELSE 0)
                        /\ noff'[d] > 0 => ~sie'[d]
      BY Zenon DEF InterruptsOff
    <2>1. CASE d = c
      <3>1. held'[on'[d]] = {t} /\ pc'[on'[d]] = "run" /\ noff'[d] = 1 /\ ~sie'[d]
        <4>1. noff' = noff /\ sie' = sie
          BY <1>2
        <4>2. held'[on'[c]] = {t} /\ pc'[on'[c]] = "run"
          BY Zenon, <1>2, <1>3, <1>4, <1>7, <1>8
        <4> QED BY <2>1, <4>1, <4>2, <1>5
      <3> QED BY <3>1, <1>5
    <2>2. CASE d # c
      <3>1. on'[d] = on[d] /\ on[d] \in Contexts /\ on[d] # t /\ on[d] # c
        BY <2>2, <1>0, <1>4, <1>8 DEF TypeOK
      <3>2. /\ held'[on'[d]] = held[on[d]] /\ pc'[on'[d]] = pc[on[d]]
            /\ noff'[d] = noff[d] /\ sie'[d] = sie[d]
        BY Zenon, <3>1, <1>2, <1>7, <1>8
      <3> QED BY Zenon, <3>2, <1>0 DEF InterruptsOff
    <2> QED BY Zenon, <2>1, <2>2
  <1>14. IntenaInv'
    <2>1. myintena'[t] = intena[c] /\ \A u \in Threads : u # t => myintena'[u] = myintena[u]
      <3>1. /\ myintena \in [Threads -> BOOLEAN]
            /\ myintena' = [myintena EXCEPT ![t] = intena[c]]
        BY ZenonT(30), <1>0, <1>2 DEF TypeOK
      <3> QED BY Zenon, <3>1
    <2>2. intena[c] = before[t] /\ (frames[t] # <<>> => ~intena[c])
      BY <1>0, <1>2, <1>5 DEF IntenaInv
    <2>3. ASSUME NEW d \in CPUs
          PROVE  /\ frames'[on'[d]] # <<>> => ~sie'[d]
                 /\ frames'[on'[d]] # <<>> /\ noff'[d] > 0 => ~intena'[d]
                 /\ pc'[on'[d]] = "push_off" => old'[on'[d]] = sie'[d]
                 /\ on'[d] \in Threads /\ noff'[d] > 0 => intena'[d] = before'[on'[d]]
      <3>1. CASE d = c
        BY Zenon, <3>1, <1>3, <1>4, <1>8
      <3>2. CASE d # c
        <4>1. on'[d] = on[d] /\ pc'[on[d]] = pc[on[d]]
          BY Zenon, <3>2, <1>0, <1>4, <1>8 DEF TypeOK
        <4>2. /\ frames[on[d]] # <<>> => ~sie[d]
              /\ frames[on[d]] # <<>> /\ noff[d] > 0 => ~intena[d]
              /\ pc[on[d]] = "push_off" => old[on[d]] = sie[d]
              /\ on[d] \in Threads /\ noff[d] > 0 => intena[d] = before[on[d]]
          BY Zenon, <1>0 DEF IntenaInv
        <4>3. UNCHANGED <<frames, sie, noff, intena, old, before>>
          BY Zenon, <1>2
        <4> QED BY <4>1, <4>2, <4>3
      <3> QED BY Zenon, <3>1, <3>2
    <2>4. ASSUME NEW u \in Threads, pc'[u] = "swtch"
          PROVE  myintena'[u] = before'[u] /\ (frames'[u] # <<>> => ~myintena'[u])
      <3>1. CASE u = t
        BY Zenon, <3>1, <2>1, <2>2, <1>2
      <3>2. CASE u # t
        <4>1. pc'[u] = pc[u]
          BY Zenon, <3>2, <1>8 DEF Contexts
        <4> QED BY Zenon, <3>2, <4>1, <2>1, <2>4, <1>0, <1>2 DEF IntenaInv
      <3> QED BY Zenon, <3>1, <3>2
    <2> QED BY <2>3, <2>4 DEF IntenaInv
  <1>15. /\ Inside(t) = {t} /\ Inside(c) = {}
         /\ \A y \in Contexts : Inside(y)' = IF y = t THEN {} ELSE IF y = c THEN {t} ELSE Inside(y)
    <2>1. Inside(t) = {t} /\ Inside(c) = {}
      BY Zenon, <1>2, <1>3, <1>4 DEF Inside
    <2>2. Inside(t)' = {} /\ Inside(c)' = {t}
      BY Zenon, <1>2, <1>3, <1>4, <1>7, <1>8 DEF Inside
    <2>3. \A y \in Contexts : y # t /\ y # c => Inside(y)' = Inside(y)
      BY Zenon, <1>7, <1>8 DEF Inside
    <2> QED BY <2>1, <2>2, <2>3
  <1>16. LockInv'
    <2>1. ASSUME NEW l \in AllLocks
          PROVE  locked'[l] <=> \E y \in Contexts : l \in Inside(y)'
      <3>1. (\E y \in Contexts : l \in Inside(y)) <=> (\E y \in Contexts : l \in Inside(y)')
        BY <1>3, <1>15
      <3> QED BY Zenon, <3>1, <1>0, <1>2 DEF LockInv
    <2>2. ASSUME NEW d \in CPUs, NEW l \in AllLocks
          PROVE  cpu'[l] = d <=> /\ l \in held'[on'[d]]
                                 /\ ~(pc'[on'[d]] = "release" /\ want'[on'[d]] = l)
      <3>1. CASE d = c
        <4>1. cpu[l] = c <=> l \in held[t] /\ ~(pc[t] = "release" /\ want[t] = l)
          BY Zenon, <1>0, <1>2 DEF LockInv
        <4>2. on'[c] = c /\ held'[c] = held[t] /\ pc'[c] = "run" /\ cpu' = cpu
          BY Zenon, <1>2, <1>3, <1>4, <1>7, <1>8
        <4> QED BY Zenon, <3>1, <4>1, <4>2, <1>2
      <3>2. CASE d # c
        <4>0. on[d] \in Contexts
          BY Zenon, OnFacts
        <4>1. on'[d] = on[d] /\ held'[on[d]] = held[on[d]] /\ pc'[on[d]] = pc[on[d]]
          BY ZenonT(30), <3>2, <4>0, <1>4, <1>7, <1>8
        <4>2. cpu[l] = d <=> l \in held[on[d]] /\ ~(pc[on[d]] = "release" /\ want[on[d]] = l)
          BY <1>0 DEF LockInv
        <4>3. cpu' = cpu /\ want' = want
          BY Zenon, <1>2, <1>8
        <4> QED BY Zenon, <4>1, <4>2, <4>3
      <3> QED BY <3>1, <3>2
    <2> QED BY <2>1, <2>2 DEF LockInv
  <1>17. MutualExclusion'
    <2> SUFFICES ASSUME NEW y \in Contexts, NEW z \in Contexts, y # z
                 PROVE  Inside(y)' \intersect Inside(z)' = {}
      BY DEF MutualExclusion
    <2>1. \A w \in Contexts : w # t => t \notin Inside(w)
      BY <1>0, <1>3, <1>15 DEF MutualExclusion
    <2>2. Inside(y) \intersect Inside(z) = {}
      BY <1>0 DEF MutualExclusion
    <2> QED BY <2>1, <2>2, <1>3, <1>15
  <1> QED BY <1>9, <1>10, <1>11, <1>12, <1>13, <1>14, <1>16, <1>17 DEF SpinInv

\* scheduler() switches to a thread: p->lock goes with it, and the CPU takes
\* the interrupt state that sched() kept for the thread.
LEMMA SwtchInv ==
  ASSUME SpinInv, NEW c \in CPUs, NEW t \in Threads, swtch(c, t)
  PROVE  SpinInv'
  <1>0. TypeOK /\ FrameInv /\ RunInv /\ WantInv /\ InterruptsOff /\ IntenaInv
        /\ LockInv /\ MutualExclusion /\ NoPanic
    BY DEF SpinInv
  <1>2. /\ pc[c] = "run" /\ on[c] = c /\ frames[c] = <<>> /\ held[c] = {t}
        /\ pc[t] \in {"fresh", "swtch"}
        /\ on' = [on EXCEPT ![c] = t]
        /\ held' = [held EXCEPT ![c] = {}, ![t] = {t}]
        /\ intena' = [intena EXCEPT ![c] = IF pc[t] = "fresh" THEN intena[c] ELSE myintena[t]]
        /\ before' = IF pc[t] = "fresh" THEN [before EXCEPT ![t] = intena[c]] ELSE before
        /\ myintena' = [myintena EXCEPT ![t] = FALSE]
        /\ pc' = [pc EXCEPT ![t] = "run"]
        /\ UNCHANGED <<sie, noff, locked, cpu, want, old, frames, panicked>>
    BY DEF swtch, At, lockvars, Restored
  <1>3. /\ t \in Contexts /\ c \in Contexts /\ t # c /\ t \in AllLocks /\ t \notin CPUs
        /\ c \notin Threads
    BY DEF Contexts, AllLocks
  <1>4. /\ held[t] = {} /\ want[t] = NoLock /\ want[c] = NoLock
        /\ \A d \in CPUs : on[d] # t /\ (d # c => on[d] # c)
    <2>1. held[t] = {} /\ want[t] = NoLock /\ \A d \in CPUs : on[d] # t
      BY <1>0, <1>2 DEF RunInv
    <2>2. want[c] = NoLock
      <3>1. want[c] \in AllLocks \union {NoLock}
        BY <1>0, <1>3 DEF TypeOK
      <3>2. want[c] \notin AllLocks
        BY <1>0, <1>2, <1>3 DEF WantInv
      <3> QED BY <3>1, <3>2
    <2>3. \A d \in CPUs : d # c => on[d] # c
      BY <1>0, <1>2 DEF RunInv
    <2> QED BY <2>1, <2>2, <2>3
  <1>5. Cardinality({t}) = 1 /\ noff[c] = 1 /\ ~sie[c]
    <2>1. Cardinality({t}) = 1
      BY FS_Singleton
    <2>2. noff[c] = Cardinality({t}) + 0
      BY Zenon, <1>0, <1>2 DEF InterruptsOff
    <2>3. noff[c] = 1
      BY <2>1, <2>2
    <2> QED BY <2>1, <2>3, <1>0 DEF InterruptsOff
  <1>7. held'[c] = {} /\ held'[t] = {t} /\ \A y \in Contexts : y # t /\ y # c => held'[y] = held[y]
    BY <1>0, <1>2, <1>3 DEF TypeOK
  <1>8. /\ on'[c] = t /\ \A d \in CPUs : d # c => on'[d] = on[d]
        /\ pc'[t] = "run" /\ \A y \in Contexts : y # t => pc'[y] = pc[y]
        /\ want' = want /\ frames' = frames
    BY <1>0, <1>2, <1>3 DEF TypeOK
  <1>9. TypeOK'
    <2>1. intena' \in [CPUs -> BOOLEAN] /\ before' \in [Contexts -> BOOLEAN]
      BY <1>0, <1>2, <1>3 DEF TypeOK
    <2> QED BY Zenon, <2>1, <1>0, <1>2, <1>3 DEF TypeOK
  <1>10. FrameInv' /\ NoPanic'
    BY <1>0, <1>2 DEF FrameInv, NoPanic
  <1>11. RunInv'
    <2>1. \A d \in CPUs : on'[d] = d \/ on'[d] \in Threads
      BY ZenonT(30), <1>0, <1>8 DEF RunInv
    <2>2. \A d, e \in CPUs : on'[d] = on'[e] => d = e
      <3>1. \A d, e \in CPUs : on[d] = on[e] => d = e
        BY Zenon, <1>0 DEF RunInv
      <3> QED BY <3>1, <1>4, <1>8
    <2>3. ASSUME NEW u \in Threads
          PROVE  (\E d \in CPUs : on'[d] = u) <=> pc'[u] \notin {"fresh", "swtch"}
      <3>1. CASE u = t
        BY <3>1, <1>8
      <3>2. CASE u # t
        <4>1. pc'[u] = pc[u] /\ \A d \in CPUs : on'[d] = u <=> on[d] = u
          BY <3>2, <1>2, <1>3, <1>8 DEF Contexts
        <4> QED BY <4>1, <1>0 DEF RunInv
      <3> QED BY <3>1, <3>2
    <2>4. ASSUME NEW u \in Threads
          PROVE  /\ pc'[u] \in {"fresh", "swtch"} => held'[u] = {} /\ want'[u] = NoLock
                 /\ pc'[u] = "fresh" => frames'[u] = <<>>
      <3>1. u \in Contexts /\ u # c
        BY DEF Contexts
      <3>2. CASE u = t
        BY <3>2, <1>8
      <3>3. CASE u # t
        BY <3>1, <3>3, <1>0, <1>7, <1>8 DEF RunInv
      <3> QED BY <3>2, <3>3
    <2>5. ASSUME NEW d \in CPUs
          PROVE  /\ pc'[d] \notin {"fresh", "swtch"}
                 /\ on'[d] # d =>
                      pc'[d] = "run" /\ held'[d] = {} /\ frames'[d] = <<>> /\ want'[d] = NoLock
      <3>1. d \in Contexts /\ d # t
        BY DEF Contexts
      <3>2. CASE d = c
        BY Zenon, <3>2, <1>2, <1>3, <1>4, <1>7, <1>8
      <3>3. CASE d # c
        BY ZenonT(30), <3>1, <3>3, <1>0, <1>7, <1>8 DEF RunInv
      <3> QED BY <3>2, <3>3
    <2> QED BY <2>1, <2>2, <2>3, <2>4, <2>5 DEF RunInv
  <1>12. WantInv'
    <2> SUFFICES ASSUME NEW y \in Contexts
                 PROVE  /\ want'[y] \in AllLocks <=> pc'[y] \in {"push_off", "spin", "own", "release"}
                        /\ pc'[y] = "release" => want'[y] \in held'[y]
                        /\ pc'[y] \in {"push_off", "spin", "own"} =>
                             want'[y] \notin held'[y] /\ held'[y] \intersect Threads = {}
                        /\ \A s, u \in Threads : s \in held'[y] /\ u \in held'[y] => s = u
                        /\ pc'[y] = "pop_off" => Cardinality(held'[y]) <= Cardinality(Locks)
      BY DEF WantInv
    <2>1. NoLock \notin AllLocks
      BY DEF AllLocks
    <2>2. CASE y = t
      <3>1. want'[y] = NoLock /\ pc'[y] = "run" /\ held'[y] = {t}
        BY <2>2, <1>4, <1>7, <1>8
      <3> QED BY <2>1, <3>1
    <2>3. CASE y = c
      <3>1. want'[y] = NoLock /\ pc'[y] = "run" /\ held'[y] = {}
        BY Zenon, <2>3, <1>2, <1>3, <1>4, <1>7, <1>8
      <3> QED BY <2>1, <3>1
    <2>4. CASE y # t /\ y # c
      BY ZenonT(30), <2>4, <1>0, <1>2, <1>7, <1>8 DEF WantInv
    <2> QED BY Zenon, <2>2, <2>3, <2>4
  <1>13. InterruptsOff'
    <2> SUFFICES ASSUME NEW d \in CPUs
                 PROVE  /\ noff'[d] = Cardinality(held'[on'[d]])
                             + (IF pc'[on'[d]] \in {"spin", "own", "pop_off"} THEN 1 ELSE 0)
                        /\ noff'[d] > 0 => ~sie'[d]
      BY DEF InterruptsOff
    <2>1. CASE d = c
      <3>1. held'[on'[d]] = {t} /\ pc'[on'[d]] = "run" /\ noff'[d] = 1 /\ ~sie'[d]
        BY Zenon, <2>1, <1>2, <1>3, <1>4, <1>5, <1>7, <1>8
      <3> QED BY <3>1, <1>5
    <2>2. CASE d # c
      <3>1. on'[d] = on[d] /\ on[d] \in Contexts /\ on[d] # t /\ on[d] # c
        BY <2>2, <1>0, <1>4, <1>8 DEF TypeOK
      <3>2. /\ held'[on'[d]] = held[on[d]] /\ pc'[on'[d]] = pc[on[d]]
            /\ noff'[d] = noff[d] /\ sie'[d] = sie[d]
        BY Zenon, <3>1, <1>2, <1>7, <1>8
      <3> QED BY Zenon, <3>2, <1>0 DEF InterruptsOff
    <2> QED BY Zenon, <2>1, <2>2
  <1>14. IntenaInv'
    <2>1. ASSUME NEW d \in CPUs
          PROVE  /\ frames'[on'[d]] # <<>> => ~sie'[d]
                 /\ frames'[on'[d]] # <<>> /\ noff'[d] > 0 => ~intena'[d]
                 /\ pc'[on'[d]] = "push_off" => old'[on'[d]] = sie'[d]
                 /\ on'[d] \in Threads /\ noff'[d] > 0 => intena'[d] = before'[on'[d]]
      <3>1. CASE d = c
        <4>1. /\ on'[d] = t /\ frames' = frames /\ pc'[t] = "run" /\ ~sie'[d]
              /\ intena'[d] = IF pc[t] = "fresh" THEN intena[c] ELSE myintena[t]
          BY <3>1, <1>0, <1>2, <1>5, <1>8 DEF TypeOK
        <4>2. CASE pc[t] = "fresh"
          <5>1. before'[t] = intena[c] /\ frames[t] = <<>>
            <6>1. before \in [Contexts -> BOOLEAN]
              BY Zenon, <1>0 DEF TypeOK
            <6>2. frames[t] = <<>>
              BY Zenon, <4>2, <1>0 DEF RunInv
            <6> QED BY Zenon, <4>2, <6>1, <6>2, <1>2, <1>3
          <5> QED BY <4>1, <4>2, <5>1
        <4>3. CASE pc[t] = "swtch"
          <5>1. before'[t] = before[t] /\ myintena[t] = before[t]
                /\ (frames[t] # <<>> => ~myintena[t])
            BY <4>3, <1>0, <1>2 DEF IntenaInv
          <5> QED BY <4>1, <4>3, <5>1
        <4> QED BY ZenonT(30), <4>2, <4>3, <1>2
      <3>2. CASE d # c
        <4>1. on[d] # t /\ on[d] \in Contexts /\ on'[d] = on[d]
          BY ZenonT(30), <3>2, <1>0, <1>4, <1>8 DEF TypeOK
        <4>2. pc'[on[d]] = pc[on[d]] /\ intena'[d] = intena[d] /\ before'[on[d]] = before[on[d]]
          BY <3>2, <4>1, <1>0, <1>2, <1>8 DEF TypeOK
        <4> QED BY <4>1, <4>2, <1>0, <1>2 DEF IntenaInv
      <3> QED BY Zenon, <3>1, <3>2
    <2>2. ASSUME NEW u \in Threads, pc'[u] = "swtch"
          PROVE  myintena'[u] = before'[u] /\ (frames'[u] # <<>> => ~myintena'[u])
      <3>1. u # t /\ u \in Contexts
        BY <2>2, <1>8 DEF Contexts
      <3>2. pc[u] = "swtch" /\ before'[u] = before[u] /\ myintena'[u] = myintena[u]
        BY <2>2, <3>1, <1>0, <1>2, <1>8 DEF TypeOK
      <3> QED BY Zenon, <3>2, <1>0, <1>8 DEF IntenaInv
    <2> QED BY Zenon, <2>1, <2>2 DEF IntenaInv
  <1>15. /\ Inside(c) = {t} /\ Inside(t) = {}
         /\ \A y \in Contexts : Inside(y)' = IF y = c THEN {} ELSE IF y = t THEN {t} ELSE Inside(y)
    <2>1. /\ pc[c] # "own" /\ pc[t] # "own" /\ pc'[c] # "own" /\ pc'[t] # "own"
          /\ held[c] = {t} /\ held[t] = {} /\ held'[c] = {} /\ held'[t] = {t}
      BY Zenon, <1>2, <1>3, <1>4, <1>7, <1>8
    <2>2. Inside(c) = {t} /\ Inside(t) = {} /\ Inside(c)' = {} /\ Inside(t)' = {t}
      BY Zenon, <2>1 DEF Inside
    <2>3. \A y \in Contexts : y # c /\ y # t => Inside(y)' = Inside(y)
      BY Zenon, <1>7, <1>8 DEF Inside
    <2> QED BY Zenon, <2>2, <2>3, <1>3
  <1>16. LockInv'
    <2>1. ASSUME NEW l \in AllLocks
          PROVE  locked'[l] <=> \E y \in Contexts : l \in Inside(y)'
      <3>1. (\E y \in Contexts : l \in Inside(y)) <=> (\E y \in Contexts : l \in Inside(y)')
        BY <1>3, <1>15
      <3> QED BY <3>1, <1>0, <1>2 DEF LockInv
    <2>2. ASSUME NEW d \in CPUs, NEW l \in AllLocks
          PROVE  cpu'[l] = d <=> /\ l \in held'[on'[d]]
                                 /\ ~(pc'[on'[d]] = "release" /\ want'[on'[d]] = l)
      <3>1. CASE d = c
        <4>1. cpu[l] = c <=> l \in held[c] /\ ~(pc[c] = "release" /\ want[c] = l)
          BY <1>0, <1>2 DEF LockInv
        <4>2. on'[c] = t /\ held'[t] = held[c] /\ pc'[t] = "run" /\ cpu' = cpu
          BY Zenon, <1>2, <1>3, <1>4, <1>7, <1>8
        <4> QED BY <3>1, <4>1, <4>2, <1>2
      <3>2. CASE d # c
        <4>0. on[d] \in Contexts
          BY Zenon, OnFacts
        <4>1. on'[d] = on[d] /\ held'[on[d]] = held[on[d]] /\ pc'[on[d]] = pc[on[d]]
          BY Zenon, <3>2, <4>0, <1>4, <1>7, <1>8
        <4> QED BY <4>1, <1>0, <1>2 DEF LockInv
      <3> QED BY <3>1, <3>2
    <2> QED BY <2>1, <2>2 DEF LockInv
  <1>17. MutualExclusion'
    <2> SUFFICES ASSUME NEW y \in Contexts, NEW z \in Contexts, y # z
                 PROVE  Inside(y)' \intersect Inside(z)' = {}
      BY DEF MutualExclusion
    <2>1. \A w \in Contexts : w # c => t \notin Inside(w)
      BY <1>0, <1>3, <1>15 DEF MutualExclusion
    <2>2. Inside(y) \intersect Inside(z) = {}
      BY <1>0 DEF MutualExclusion
    <2> QED BY <2>1, <2>2, <1>3, <1>15
  <1> QED BY <1>9, <1>10, <1>11, <1>12, <1>13, <1>14, <1>16, <1>17 DEF SpinInv

\* Every step keeps the invariant.
LEMMA NextInv == SpinInv /\ [Next]_vars => SpinInv'
  <1> SUFFICES ASSUME SpinInv, [Next]_vars PROVE SpinInv'
    OBVIOUS
  <1>1. CASE UNCHANGED vars
    <2>1. UNCHANGED <<sie, noff, intena, on, locked, cpu, pc, want, old, held, frames, myintena,
                      before, panicked>>
      BY <1>1 DEF vars, cpuvars, lockvars
    <2>2. TypeOK'
      BY Zenon, <2>1 DEF SpinInv, TypeOK
    <2>3. FrameInv' /\ NoPanic'
      BY Zenon, <2>1 DEF SpinInv, FrameInv, NoPanic
    <2>4. RunInv'
      BY Zenon, <2>1 DEF SpinInv, RunInv
    <2>5. WantInv'
      BY Zenon, <2>1 DEF SpinInv, WantInv
    <2>6. InterruptsOff' /\ IntenaInv'
      BY Zenon, <2>1 DEF SpinInv, InterruptsOff, IntenaInv
    <2>7. \A y \in Contexts : Inside(y)' = Inside(y)
      BY Zenon, <2>1 DEF Inside
    <2>8. LockInv' /\ MutualExclusion'
      BY Zenon, <2>1, <2>7, LockKept
    <2> QED BY Zenon, <2>2, <2>3, <2>4, <2>5, <2>6, <2>8 DEF SpinInv
  <1>2. CASE Halted
    BY <1>2 DEF Halted, SpinInv, NoPanic
  <1>3. ASSUME NEW c \in CPUs, NEW l \in AllLocks, acquire(c, l) \/ release(c, l)
        PROVE  SpinInv'
    BY <1>3, AcquireInv, ReleaseInv
  <1>4. ASSUME NEW c \in CPUs, push_off(c) \/ test_and_set(c) \/ record_cpu(c)
        PROVE  SpinInv'
    BY <1>4, PushOffInv, TestAndSetInv, RecordCpuInv
  <1>5. ASSUME NEW c \in CPUs, lock_release(c) \/ pop_off(c)
        PROVE  SpinInv'
    BY <1>5, LockReleaseInv, PopOffInv
  <1>6. ASSUME NEW c \in CPUs, kerneltrap(c) \/ sret(c) \/ intr_on(c)
        PROVE  SpinInv'
    BY <1>6, KerneltrapInv, SretInv, IntrOnInv
  <1>7. ASSUME NEW c \in CPUs, sched(c) \/ \E t \in Threads : swtch(c, t)
        PROVE  SpinInv'
    BY <1>7, SchedInv, SwtchInv
  <1> QED BY <1>1, <1>2, <1>3, <1>4, <1>5, <1>6, <1>7 DEF Next
-----------------------------------------------------------------------------
\* The inductive invariant holds in every state of acquire(), release(),
\* sched() and the interrupt handlers.
THEOREM SpinlockInvariant == Spec => []SpinInv
  BY InitInv, NextInv, PTL DEF Spec

\* Type correctness: in particular noff of struct cpu never exceeds the
\* number of locks, plus one.
THEOREM TypeCorrect == Spec => []TypeOK
  <1>1. SpinInv => TypeOK
    BY DEF SpinInv
  <1> QED BY <1>1, SpinlockInvariant, PTL

\* Two contexts are never inside the same lock.
THEOREM MutualExclusionHolds == Spec => []MutualExclusion
  <1>1. SpinInv => MutualExclusion
    BY DEF SpinInv
  <1> QED BY <1>1, SpinlockInvariant, PTL

\* No panic of acquire(), release(), pop_off() or sched() is reachable.
THEOREM NoPanicHolds == Spec => []NoPanic
  <1>1. SpinInv => NoPanic
    BY DEF SpinInv
  <1> QED BY <1>1, SpinlockInvariant, PTL

\* noff counts the locks, and while it is not 0 interrupts are off.
THEOREM InterruptsOffHolds == Spec => []InterruptsOff
  <1>1. SpinInv => InterruptsOff
    BY DEF SpinInv
  <1> QED BY <1>1, SpinlockInvariant, PTL

\* kerneltrap() is not entered again before its sret.
THEOREM HandlersDoNotNestHolds == Spec => []HandlersDoNotNest
  <1>1. SpinInv => HandlersDoNotNest
    <2> SUFFICES ASSUME SpinInv, NEW x \in Contexts
                 PROVE  Len(frames[x]) <= 1
      BY DEF HandlersDoNotNest
    <2>1. frames[x] = <<>> \/ \E f \in Frames : frames[x] = <<f>>
      BY DEF SpinInv, FrameInv
    <2>2. CASE frames[x] = <<>>
      <3>1. Len(frames[x]) = 0
        BY <2>2
      <3> QED BY <3>1
    <2>3. ASSUME NEW f \in Frames, frames[x] = <<f>>
          PROVE  Len(frames[x]) <= 1
      <3>1. Len(frames[x]) = 1
        BY <2>3
      <3> QED BY <3>1
    <2> QED BY <2>1, <2>2, <2>3
  <1> QED BY <1>1, SpinlockInvariant, PTL

\* The last pop_off() of a thread restores the interrupt state from before
\* its first push_off(), also on another CPU.
THEOREM RestoresInterruptsHolds == Spec => RestoresInterrupts
  <1> DEFINE Restores == \A c \in CPUs :
        noff[c] = 1 /\ noff'[c] = 0 /\ on[c] \in Threads => sie'[c] = before[on[c]]
  <1>1. SpinInv /\ [Next]_vars => [Restores]_vars
    <2> SUFFICES ASSUME SpinInv, Next, NEW c \in CPUs,
                        noff[c] = 1, noff'[c] = 0, on[c] \in Threads
                 PROVE  sie'[c] = before[on[c]]
      BY Zenon DEF vars
    <2>1. TypeOK /\ InterruptsOff /\ IntenaInv
      BY DEF SpinInv
    <2>2. noff # noff'
      OBVIOUS
    <2>3. PICK d \in CPUs : push_off(d) \/ pop_off(d)
      <3>1. Halted => noff' = noff
        BY Zenon DEF Halted, vars, cpuvars
      <3>2. \A d \in CPUs : \A l \in AllLocks :
              acquire(d, l) \/ release(d, l) => noff' = noff
        BY Zenon DEF acquire, release, cpuvars
      <3>3. \A d \in CPUs :
              test_and_set(d) \/ record_cpu(d) \/ lock_release(d) => noff' = noff
        BY Zenon DEF test_and_set, record_cpu, lock_release, cpuvars
      <3>4. \A d \in CPUs : kerneltrap(d) \/ sret(d) \/ intr_on(d) => noff' = noff
        BY Zenon DEF kerneltrap, sret, intr_on
      <3>5. /\ \A d \in CPUs : sched(d) => noff' = noff
            /\ \A d \in CPUs : \A t \in Threads : swtch(d, t) => noff' = noff
        BY Zenon DEF sched, swtch, cpuvars
      <3> QED BY Zenon, <2>2, <3>1, <3>2, <3>3, <3>4, <3>5 DEF Next
    <2>4. pop_off(c)
      <3>1. CASE push_off(d)
        <4>1. noff' = [noff EXCEPT ![d] = @ + 1]
          BY Zenon, <3>1 DEF push_off
        <4>2. noff'[c] = IF c = d THEN noff[c] + 1 ELSE noff[c]
          BY <4>1, <2>1 DEF TypeOK
        <4> QED BY <4>2
      <3>2. CASE pop_off(d)
        <4>1. noff' = [noff EXCEPT ![d] = noff[d] - 1]
          BY <3>2 DEF pop_off, Popped
        <4>2. noff'[c] = IF c = d THEN noff[c] - 1 ELSE noff[c]
          BY <4>1, <2>1 DEF TypeOK
        <4>3. c = d
          BY <4>2
        <4> QED BY <3>2, <4>3
      <3> QED BY <2>3, <3>1, <3>2
    <2>5. sie' = IF intena[c] THEN [sie EXCEPT ![c] = TRUE] ELSE sie
      BY <2>4 DEF pop_off, Last
    <2>6. ~sie[c] /\ intena[c] = before[on[c]]
      BY <2>1 DEF InterruptsOff, IntenaInv
    <2>7. intena[c] \in BOOLEAN /\ sie \in [CPUs -> BOOLEAN] /\ before[on[c]] \in BOOLEAN
      BY <2>1 DEF TypeOK
    <2> QED BY Zenon, <2>5, <2>6, <2>7
  <1> QED BY <1>1, SpinlockInvariant, PTL DEF Spec, RestoresInterrupts
=============================================================================
