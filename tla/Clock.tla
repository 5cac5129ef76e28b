------------------------------- MODULE Clock -------------------------------
(***************************************************************************)
(* Ticks and sleeping: clockintr() (kernel/trap.c), sys_sleep and           *)
(* sys_uptime (kernel/sysproc.c), with kill().                              *)
(*                                                                         *)
(* A step is a critical section of tickslock, cut where kill(), which does   *)
(* not take that lock, can come between the test of p->killed and the       *)
(* sleep ("checked": the lock is held).  ticks is a uint and wraps at WORD; *)
(* "real" counts the ticks since a sleep began without wrapping.      *)
(* The clock does not stop for processes: one that is runnable may miss up  *)
(* to Latency ticks before it runs, the bound that round-robin scheduling   *)
(* gives (at most NPROC processes, each for a tick).                        *)
(***************************************************************************)
EXTENDS Integers, FiniteSets

CONSTANTS Procs,     \* sleeping processes
          WORD,      \* 2^32, the range of a uint
          Counts,    \* arguments of sleep(), ints
          Latency    \* ticks a runnable process may wait for a CPU

ASSUME ClockAssumption ==
  /\ WORD \in Nat /\ Latency \in Nat \ {0} /\ Counts \subseteq Int
  /\ Latency < WORD /\ \A n \in Counts : n + Latency < WORD

VARIABLES ticks,   \* the tick counter
          sl       \* per process: pc, n, ticks0, killed; real and late count ticks

clockvars == <<ticks, sl>>

Idle == [pc |-> "user", n |-> 0, ticks0 |-> 0, killed |-> FALSE,
         real |-> 0, late |-> 0, result |-> "none"]

ClockInit ==
  /\ ticks \in 0..(WORD - 1)      \* the machine may have run for any time
  /\ sl = [p \in Procs |-> Idle]

\* Mutant: a counter that does not wrap.
Wrapped_not(t) == t

\* The value of a uint.
Wrapped(t) == t % WORD

\* Mutant: the counter is compared before the subtraction wraps.
Elapsed_signed(v) == ticks - v.ticks0

\* ticks - ticks0, unsigned.
Elapsed(v) == Wrapped(ticks + WORD - v.ticks0)

\* Mutant: the tick wakes nobody.
TickWakes_not(v) == v.pc

\* wakeup(&ticks).
TickWakes(v) == IF v.pc = "sleep" THEN "woken" ELSE v.pc

\* No process holds tickslock.
LockFree == \A p \in Procs : sl[p].pc # "checked"

\* One more tick; a sleep that is Latency ticks over its time counts no further.
Count(v) == IF v.real > v.n + Latency THEN v.real ELSE v.real + 1

\* clockintr() on CPU 0.
clockintr ==
  /\ LockFree
  /\ \A p \in Procs : sl[p].pc = "woken" => sl[p].late < Latency
  /\ ticks' = Wrapped(ticks + 1)
  /\ sl' = [p \in Procs |->
              IF sl[p].pc = "user" THEN sl[p]
              ELSE [sl[p] EXCEPT !.pc = TickWakes(sl[p]), !.real = Count(sl[p]),
                                 !.late = IF sl[p].pc = "woken" THEN @ + 1 ELSE 0]]

\* A negative count is taken as 0.
Asked(n) == IF n < 0 THEN 0 ELSE n

\* Mutant: one tick short.
Enough_short(v) == Elapsed(v) + 1 >= v.n

\* The loop's condition is false.
Enough(v) == Elapsed(v) >= v.n

\* A turn of the loop: return, give up, or go on to sleep.
Turn(v) ==
  IF Enough(v) THEN [Idle EXCEPT !.killed = v.killed, !.real = v.real, !.n = v.n, !.result = "ok"]
  ELSE IF v.killed THEN [Idle EXCEPT !.killed = TRUE, !.result = "killed"]
  ELSE [v EXCEPT !.pc = "checked", !.late = 0]

sys_sleep(p) ==
  \E n \in Counts :
    /\ sl[p].pc = "user" /\ LockFree
    /\ sl' = [sl EXCEPT ![p] = Turn([Idle EXCEPT !.n = Asked(n), !.ticks0 = ticks,
                                                 !.killed = sl[p].killed])]
    /\ UNCHANGED ticks

\* sleep(&ticks, &tickslock).
sys_sleep_sleep(p) ==
  /\ sl[p].pc = "checked"
  /\ sl' = [sl EXCEPT ![p].pc = "sleep"]
  /\ UNCHANGED ticks

\* sleep() returns.
sys_sleep_again(p) ==
  /\ sl[p].pc = "woken" /\ LockFree
  /\ sl' = [sl EXCEPT ![p] = Turn(@)]
  /\ UNCHANGED ticks

\* kill(), of a process that is in sys_sleep() or about to be.
killsleep(p) ==
  /\ ~sl[p].killed
  /\ sl' = [sl EXCEPT ![p].killed = TRUE,
                      ![p].pc = IF @ = "sleep" THEN "woken" ELSE @]
  /\ UNCHANGED ticks

ClockNext ==
  \/ clockintr
  \/ \E p \in Procs : sys_sleep(p) \/ sys_sleep_sleep(p) \/ sys_sleep_again(p) \/ killsleep(p)

ClockSpec == ClockInit /\ [][ClockNext]_clockvars

\* The timer goes on interrupting, and a runnable process runs and gets
\* tickslock.
ClockLiveSpec ==
  /\ ClockSpec /\ WF_clockvars(clockintr)
  /\ \A p \in Procs : /\ WF_clockvars(sys_sleep_sleep(p))
                      /\ SF_clockvars(sys_sleep_again(p))

-----------------------------------------------------------------------------
\* The shape of the state.
ClockTypeOK ==
  /\ ticks \in 0..(WORD - 1)
  /\ \A p \in Procs : sl[p].pc \in {"user", "checked", "sleep", "woken"} /\ sl[p].ticks0 \in 0..(WORD - 1)

\* sleep(n) that returns 0 lasted n ticks at least, and no longer than it took
\* to get a CPU after the n-th: also when the counter wraps in between.
SleepsLongEnough ==
  \A p \in Procs : sl[p].result = "ok" => sl[p].real >= sl[p].n /\ sl[p].real <= sl[p].n + Latency

\* A process sleeps only while its time is not over.
SleepJustified == \A p \in Procs : sl[p].pc \in {"checked", "sleep"} => sl[p].real < sl[p].n

\* Every sleep ends.
SleepReturns == \A p \in Procs : sl[p].pc # "user" ~> sl[p].pc = "user"
=============================================================================
