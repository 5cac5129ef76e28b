---------------------------- MODULE ClockProofs ----------------------------
(***************************************************************************)
(* Proofs about Clock: sleep() is exact for every width of the counter,     *)
(* every number of processes and every latency that the width can tell      *)
(* apart from a wrap.                                                      *)
(***************************************************************************)
EXTENDS Clock, TLAPS

USE ClockAssumption

Sleeps == [pc : {"user", "checked", "sleep", "woken"}, n : Nat, ticks0 : 0..(WORD - 1),
           killed : BOOLEAN, real : Nat, late : 0..Latency,
           result : {"none", "ok", "killed"}]

\* The ticks since ticks0, without %.
Distance(t, t0) == IF t >= t0 THEN t - t0 ELSE t + WORD - t0

\* A sleep in progress: the unsigned difference is the true one, and only a
\* runnable process is past its time, by the ticks it waited for a CPU.
SleepOK(v) ==
  /\ v.n + Latency < WORD
  /\ v.pc # "user" => v.result = "none" /\ v.real = Distance(ticks, v.ticks0)
  /\ v.pc \in {"checked", "sleep"} => v.real < v.n /\ v.late = 0
  /\ v.pc = "woken" => v.real <= v.n + v.late
  /\ v.result = "ok" => v.real >= v.n /\ v.real <= v.n + Latency

ClockInv ==
  /\ ticks \in 0..(WORD - 1)
  /\ sl \in [Procs -> Sleeps]
  /\ \A p \in Procs : SleepOK(sl[p])
-----------------------------------------------------------------------------
\* What % computes in the two places that use it.
LEMMA WrapLemma ==
  ASSUME NEW t \in 0..(2 * WORD - 1), WORD > 0
  PROVE  t % WORD = IF t < WORD THEN t ELSE t - WORD
  OBVIOUS

\* 0 is a tick count and a latency.
LEMMA Zero == 0 \in Nat /\ 0 \in 0..(WORD - 1) /\ 0 \in 0..Latency
  OBVIOUS

\* The unsigned difference of the code is the distance.
LEMMA ElapsedIsDistance ==
  ASSUME ticks \in 0..(WORD - 1), NEW v, v.ticks0 \in 0..(WORD - 1)
  PROVE  Elapsed(v) = Distance(ticks, v.ticks0)
  <1>1. ticks + WORD - v.ticks0 \in 0..(2 * WORD - 1) /\ WORD > 0
    OBVIOUS
  <1>2. (ticks + WORD - v.ticks0) % WORD =
          IF ticks + WORD - v.ticks0 < WORD THEN ticks + WORD - v.ticks0
          ELSE ticks + WORD - v.ticks0 - WORD
    BY <1>1, WrapLemma
  <1> QED BY <1>2 DEF Elapsed, Wrapped, Distance

\* A turn of the loop of sys_sleep(), for a process whose time is counted.
LEMMA TurnOK ==
  ASSUME ticks \in 0..(WORD - 1), NEW v \in Sleeps, v.n + Latency < WORD,
         v.real = Distance(ticks, v.ticks0), v.result = "none",
         v.real <= v.n + v.late
  PROVE  Turn(v) \in Sleeps /\ SleepOK(Turn(v))
  <1>0. v.n \in Nat /\ v.real \in Nat /\ v.killed \in BOOLEAN
    BY DEF Sleeps
  <1>1. Elapsed(v) = v.real
    BY ElapsedIsDistance DEF Sleeps
  <1>2. CASE v.real >= v.n
    <2>1. Turn(v) = [Idle EXCEPT !.killed = v.killed, !.real = v.real, !.n = v.n, !.result = "ok"]
      BY <1>1, <1>2 DEF Turn, Enough
    <2>2. v.real <= v.n + Latency
      BY DEF Sleeps
    <2>3. Turn(v) = [pc |-> "user", n |-> v.n, ticks0 |-> 0, killed |-> v.killed,
                     real |-> v.real, late |-> 0, result |-> "ok"]
      BY Zenon, <2>1 DEF Idle
    <2>4. /\ Turn(v) \in Sleeps /\ Turn(v).pc = "user" /\ Turn(v).n = v.n
          /\ Turn(v).real = v.real
      BY <2>3, <1>0, Zero DEF Sleeps
    <2> QED BY <2>2, <2>4, <1>2 DEF SleepOK
  <1>3. CASE ~(v.real >= v.n) /\ v.killed
    <2>1. Turn(v) = [Idle EXCEPT !.killed = TRUE, !.result = "killed"]
      BY <1>1, <1>3 DEF Turn, Enough
    <2>2. /\ Turn(v) \in Sleeps /\ Turn(v).pc = "user" /\ Turn(v).n = 0
          /\ Turn(v).result = "killed"
      <3>1. Turn(v) = [pc |-> "user", n |-> 0, ticks0 |-> 0, killed |-> TRUE,
                       real |-> 0, late |-> 0, result |-> "killed"]
        BY Zenon, <2>1 DEF Idle
      <3> QED BY <3>1, Zero DEF Sleeps
    <2> QED BY <2>2 DEF SleepOK
  <1>4. CASE ~(v.real >= v.n) /\ ~v.killed
    <2>1. Turn(v) = [v EXCEPT !.pc = "checked", !.late = 0]
      BY <1>1, <1>4 DEF Turn, Enough
    <2>2. /\ Turn(v) \in Sleeps /\ Turn(v).pc = "checked" /\ Turn(v).n = v.n
          /\ Turn(v).real = v.real /\ Turn(v).result = "none" /\ Turn(v).late = 0
          /\ Turn(v).ticks0 = v.ticks0
      BY <2>1, Zero, Zenon DEF Sleeps
    <2>3. v.real < v.n
      BY <1>4 DEF Sleeps
    <2> QED BY <2>2, <2>3 DEF SleepOK
  <1> QED BY <1>2, <1>3, <1>4

\* The invariant holds at the start.
LEMMA InitiallyInv == ClockInit => ClockInv
  BY DEF ClockInit, ClockInv, Idle, Sleeps, SleepOK

\* A tick moves ticks and every count of a sleep in progress together.
LEMMA ClockintrInv ==
  ASSUME ClockInv, clockintr
  PROVE  ClockInv'
  <1>0. /\ ticks \in 0..(WORD - 1) /\ sl \in [Procs -> Sleeps]
        /\ \A p \in Procs : SleepOK(sl[p])
    BY DEF ClockInv
  <1>1. ticks' = IF ticks + 1 = WORD THEN 0 ELSE ticks + 1
    <2>1. ticks + 1 \in 0..(2 * WORD - 1) /\ WORD > 0
      BY <1>0
    <2>2. PICK t \in 0..(2 * WORD - 1) : t = ticks + 1
      BY <2>1
    <2>3. t % WORD = IF t < WORD THEN t ELSE t - WORD
      BY <2>1, WrapLemma
    <2>4. ticks' = t % WORD
      BY Zenon, <2>2 DEF clockintr, Wrapped
    <2> QED BY <1>0, <2>2, <2>3, <2>4
  <1>2. ticks' \in 0..(WORD - 1)
    BY <1>0, <1>1
  <1>3. ASSUME NEW p \in Procs
        PROVE  sl'[p] \in Sleeps /\ SleepOK(sl[p])'
    <2> DEFINE v == sl[p]
    <2>0. v \in Sleeps /\ SleepOK(v)
      BY <1>0
    <2>1. CASE v.pc = "user"
      <3>1. sl'[p] = v
        BY Zenon, <2>1 DEF clockintr
      <3> QED BY <2>0, <2>1, <3>1 DEF SleepOK
    <2>2. CASE v.pc # "user"
      <3>1. v.real = Distance(ticks, v.ticks0) /\ v.n + Latency < WORD /\ v.result = "none"
        BY <2>0, <2>2 DEF SleepOK
      <3>2. v.pc = "woken" => v.late < Latency
        BY Zenon DEF clockintr
      <3>3. LockFree => v.pc \in {"sleep", "woken"}
        BY <2>0, <2>2 DEF LockFree, Sleeps
      <3>4. /\ v.pc = "woken" => v.real + 1 <= v.n + v.late + 1
            /\ v.pc = "sleep" => v.real + 1 <= v.n
            /\ v.pc \in {"sleep", "woken"} /\ v.real < WORD - 1 /\ v.real <= v.n + Latency
        <4>1. v.pc \in {"sleep", "woken"}
          BY Zenon, <3>3 DEF clockintr
        <4>2. v.n \in Nat /\ v.real \in Nat /\ v.late \in 0..Latency
          BY <2>0 DEF Sleeps
        <4>3. /\ v.pc = "sleep" => v.real < v.n
              /\ v.pc = "woken" => v.real <= v.n + v.late
          BY <2>0 DEF SleepOK
        <4>4. CASE v.pc = "sleep"
          BY <4>2, <4>3, <4>4, <3>1
        <4>5. CASE v.pc = "woken"
          BY <4>2, <4>3, <4>5, <3>1, <3>2
        <4> QED BY <4>1, <4>4, <4>5
      <3>5. sl'[p] = [v EXCEPT !.pc = "woken", !.real = v.real + 1,
                               !.late = IF v.pc = "woken" THEN v.late + 1 ELSE 0]
        <4>1. Count(v) = v.real + 1
          BY <2>0, <3>4 DEF Count, Sleeps
        <4>2. TickWakes(v) = "woken"
          BY <3>4 DEF TickWakes
        <4> QED BY Zenon, <2>0, <2>2, <4>1, <4>2 DEF clockintr, Sleeps
      <3>6. Distance(ticks', v.ticks0) = v.real + 1
        BY <1>0, <1>1, <2>0, <3>1, <3>4 DEF Distance, Sleeps
      <3>7. sl'[p] \in Sleeps
        <4>1. v.real + 1 \in Nat /\ (IF v.pc = "woken" THEN v.late + 1 ELSE 0) \in 0..Latency
          BY <2>0, <3>2 DEF Sleeps
        <4> HIDE DEF v
        <4> QED BY <2>0, <3>5, <4>1, Zenon DEF Sleeps
      <3>8. /\ sl'[p].pc = "woken" /\ sl'[p].n = v.n /\ sl'[p].real = v.real + 1
            /\ sl'[p].ticks0 = v.ticks0 /\ sl'[p].result = "none"
            /\ sl'[p].late = IF v.pc = "woken" THEN v.late + 1 ELSE 0
        BY <2>0, <3>1, <3>5 DEF Sleeps
      <3>9. sl'[p].real <= sl'[p].n + sl'[p].late
        BY <2>0, <3>4, <3>8 DEF Sleeps
      <3> QED BY <3>1, <3>6, <3>7, <3>8, <3>9 DEF SleepOK
    <2> QED BY <2>1, <2>2
  <1>4. sl' \in [Procs -> Sleeps]
    BY Zenon, <1>3 DEF clockintr
  <1> QED BY <1>2, <1>3, <1>4 DEF ClockInv

\* The sleep that sys_sleep() begins.
LEMMA FreshSleep ==
  ASSUME NEW m, NEW t, NEW b, NEW v, v = [Idle EXCEPT !.n = m, !.ticks0 = t, !.killed = b]
  PROVE  v = [pc |-> "user", n |-> m, ticks0 |-> t, killed |-> b, real |-> 0, late |-> 0,
              result |-> "none"]
  BY Zenon DEF Idle

\* The steps of one process, and kill().
LEMMA ProcessInv ==
  ASSUME ClockInv, NEW p \in Procs,
         sys_sleep(p) \/ sys_sleep_sleep(p) \/ sys_sleep_again(p) \/ killsleep(p)
  PROVE  ClockInv'
  <1>0. /\ ticks \in 0..(WORD - 1) /\ sl \in [Procs -> Sleeps]
        /\ \A q \in Procs : SleepOK(sl[q])
    BY DEF ClockInv
  <1> SUFFICES ASSUME NEW w \in Sleeps, SleepOK(w), sl' = [sl EXCEPT ![p] = w], ticks' = ticks
               PROVE  ClockInv'
    <2>1. CASE sys_sleep(p)
      <3>1. PICK n \in Counts :
              sl' = [sl EXCEPT ![p] = Turn([Idle EXCEPT !.n = Asked(n), !.ticks0 = ticks,
                                                        !.killed = sl[p].killed])]
        BY Zenon, <2>1 DEF sys_sleep
      <3> DEFINE v == [Idle EXCEPT !.n = Asked(n), !.ticks0 = ticks, !.killed = sl[p].killed]
      <3>2. Asked(n) \in Nat /\ Asked(n) + Latency < WORD
        BY DEF Asked
      <3>3. /\ v \in Sleeps /\ v.n = Asked(n) /\ v.real = 0 /\ v.result = "none" /\ v.late = 0
            /\ v.ticks0 = ticks
        <4>1. v = [pc |-> "user", n |-> Asked(n), ticks0 |-> ticks, killed |-> sl[p].killed,
                   real |-> 0, late |-> 0, result |-> "none"]
          BY Zenon, FreshSleep
        <4>2. sl[p].killed \in BOOLEAN
          BY <1>0 DEF Sleeps
        <4> HIDE DEF v
        <4> QED BY <1>0, <3>2, <4>1, <4>2, Zero DEF Sleeps
      <3>4. v.real = Distance(ticks, v.ticks0) /\ v.real <= v.n + v.late
        BY <1>0, <3>2, <3>3 DEF Distance
      <3>5. Turn(v) \in Sleeps /\ SleepOK(Turn(v))
        BY Zenon, <1>0, <3>2, <3>3, <3>4, TurnOK
      <3> QED BY Zenon, <3>1, <3>5, <2>1 DEF sys_sleep
    <2>2. CASE sys_sleep_sleep(p)
      <3>1. sl[p] \in Sleeps /\ SleepOK(sl[p]) /\ sl[p].pc = "checked"
        BY <1>0, <2>2 DEF sys_sleep_sleep
      <3>2. [sl[p] EXCEPT !.pc = "sleep"] \in Sleeps /\ SleepOK([sl[p] EXCEPT !.pc = "sleep"])
        BY <3>1 DEF Sleeps, SleepOK
      <3> QED BY Zenon, <3>2, <2>2 DEF sys_sleep_sleep
    <2>3. CASE sys_sleep_again(p)
      <3>1. sl[p] \in Sleeps /\ SleepOK(sl[p]) /\ sl[p].pc = "woken"
        BY <1>0, <2>3 DEF sys_sleep_again
      <3>2. Turn(sl[p]) \in Sleeps /\ SleepOK(Turn(sl[p]))
        BY <1>0, <3>1, TurnOK DEF SleepOK
      <3> QED BY Zenon, <3>2, <2>3 DEF sys_sleep_again
    <2>4. CASE killsleep(p)
      <3> DEFINE k == [sl[p] EXCEPT !.killed = TRUE,
                                    !.pc = IF sl[p].pc = "sleep" THEN "woken" ELSE sl[p].pc]
      <3>1. sl[p] \in Sleeps /\ SleepOK(sl[p])
        BY <1>0
      <3>2. k \in Sleeps /\ SleepOK(k)
        <4>1. /\ k.pc = (IF sl[p].pc = "sleep" THEN "woken" ELSE sl[p].pc)
              /\ k.n = sl[p].n /\ k.ticks0 = sl[p].ticks0 /\ k.real = sl[p].real
              /\ k.late = sl[p].late /\ k.result = sl[p].result
          BY <3>1 DEF Sleeps
        <4>2. k \in Sleeps
          BY <3>1, Zenon DEF Sleeps
        <4>3. sl[p].n \in Nat /\ sl[p].real \in Nat /\ sl[p].late \in Nat
          BY <3>1 DEF Sleeps
        <4> HIDE DEF k
        <4>4. SleepOK(k)
          BY <3>1, <4>1, <4>3 DEF SleepOK
        <4> QED BY <4>2, <4>4
      <3>3. sl' = [sl EXCEPT ![p] = k] /\ ticks' = ticks
        BY Zenon, <1>0, <3>1, <2>4 DEF killsleep, Sleeps
      <3> QED BY Zenon, <3>2, <3>3
    <2> QED BY <2>1, <2>2, <2>3, <2>4
  <1>1. sl' \in [Procs -> Sleeps] /\ sl'[p] = w /\ \A q \in Procs : q # p => sl'[q] = sl[q]
    BY <1>0
  <1>2. ASSUME NEW q \in Procs
        PROVE  SleepOK(sl[q])'
    BY <1>0, <1>1 DEF SleepOK
  <1> QED BY <1>0, <1>1, <1>2 DEF ClockInv

\* Every step keeps the invariant.
LEMMA StepInv == ClockInv /\ [ClockNext]_clockvars => ClockInv'
  <1> SUFFICES ASSUME ClockInv, [ClockNext]_clockvars PROVE ClockInv'
    OBVIOUS
  <1>1. CASE UNCHANGED clockvars
    BY <1>1 DEF clockvars, ClockInv, SleepOK
  <1> QED BY <1>1, ClockintrInv, ProcessInv DEF ClockNext
-----------------------------------------------------------------------------
\* The inductive invariant of clockintr(), sys_sleep() and kill().
THEOREM ClockInvariant == ClockSpec => []ClockInv
  BY InitiallyInv, StepInv, PTL DEF ClockSpec

\* sleep(n) lasts n ticks at least and is not more than Latency ticks late,
\* whatever the counter was when it began.
THEOREM SleepsLongEnoughHolds == ClockSpec => []SleepsLongEnough
  <1>1. ClockInv => SleepsLongEnough
    BY DEF ClockInv, SleepOK, SleepsLongEnough
  <1> QED BY <1>1, ClockInvariant, PTL

\* No process goes to sleep, or stays asleep, after its time.
THEOREM SleepJustifiedHolds == ClockSpec => []SleepJustified
  <1>1. ClockInv => SleepJustified
    BY DEF ClockInv, SleepOK, SleepJustified
  <1> QED BY <1>1, ClockInvariant, PTL
=============================================================================
