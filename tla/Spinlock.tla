------------------------------ MODULE Spinlock ------------------------------
(***************************************************************************)
(* kernel/spinlock.c, the part of trap.c that interrupts kernel code, and  *)
(* the switches of proc.c that move a kernel thread between CPUs while it  *)
(* holds its own p->lock.  A step is a stretch of code in which one CPU    *)
(* reads or writes one shared word, or runs with its interrupts off.       *)
(*                                                                         *)
(* A context is a kernel thread or the scheduler of a CPU.  An interrupt   *)
(* runs its handler on the stack of the context it interrupts, and handlers*)
(* take the same locks as the code they interrupt.  A context takes the    *)
(* p->lock of a process last, after any other lock.                        *)
(***************************************************************************)
EXTENDS Integers, Sequences, FiniteSets

CONSTANTS CPUs,     \* CPUs; each is also the name of its scheduler context
          Threads,  \* kernel threads; each is also the name of its p->lock
          Locks,    \* the other locks
          NoCpu,    \* lk->cpu of a free lock
          NoLock    \* a context that is not in acquire() or release()

ASSUME SpinlockAssumption == /\ CPUs \intersect Threads = {}
                             /\ Locks \intersect Threads = {}
                             /\ NoCpu \notin CPUs
                             /\ NoLock \notin Locks \union Threads
                             /\ IsFiniteSet(Locks \union Threads)

Contexts == CPUs \union Threads
AllLocks == Locks \union Threads

VARIABLES
  sie, noff, intena,  \* of each CPU: interrupts on, depth of push_off(), and
                      \* whether they were on before the first push_off()
  on,                 \* the context that runs on each CPU
  locked, cpu,        \* fields of each lock
  pc, want, old,      \* where each context is, its lock, push_off()'s old
  held,               \* locks each context holds
  frames,             \* what the handlers on a context's stack interrupted
  myintena,           \* sched()'s local variable
  before,             \* history: interrupts on before the first push_off()
  panicked

cpuvars == <<sie, noff, intena>>
lockvars == <<locked, cpu>>
vars == <<cpuvars, on, lockvars, pc, want, old, held, frames, myintena,
          before, panicked>>

Init ==
  /\ sie = [c \in CPUs |-> TRUE]
  /\ noff = [c \in CPUs |-> 0]
  /\ intena = [c \in CPUs |-> FALSE]
  /\ on = [c \in CPUs |-> c]
  /\ locked = [l \in AllLocks |-> FALSE]
  /\ cpu = [l \in AllLocks |-> NoCpu]
  /\ pc = [x \in Contexts |-> IF x \in Threads THEN "fresh" ELSE "run"]
  /\ want = [x \in Contexts |-> NoLock]
  /\ old = [x \in Contexts |-> FALSE]
  /\ held = [x \in Contexts |-> {}]
  /\ frames = [x \in Contexts |-> <<>>]
  /\ myintena = [t \in Threads |-> FALSE]
  /\ before = [x \in Contexts |-> FALSE]
  /\ panicked = FALSE

At(c, where) == ~panicked /\ pc[on[c]] = where
Goto(c, where) == pc' = [pc EXCEPT ![on[c]] = where]

holding(c, l) == locked[l] /\ cpu[l] = c

panic == panicked' = TRUE

(***************************************************************************)
(* acquire()                                                               *)
(***************************************************************************)
\* The callers' rule: never a lock one holds, and a p->lock last.
MayTake(x, l) ==
  /\ held[x] \intersect (Threads \union {l}) = {}
  /\ x \in CPUs /\ frames[x] = <<>> => l \in Threads

\* acquire(l) up to push_off()'s intr_get().
acquire(c, l) ==
  /\ At(c, "run") /\ MayTake(on[c], l)
  /\ old' = [old EXCEPT ![on[c]] = sie[c]]
  /\ want' = [want EXCEPT ![on[c]] = l]
  /\ Goto(c, "push_off")
  /\ UNCHANGED <<cpuvars, on, lockvars, held, frames, myintena, before,
                 panicked>>

\* Mutant: interrupts stay on.
intr_off_not(c) == UNCHANGED sie

intr_off(c) == sie' = [sie EXCEPT ![c] = FALSE]

\* Mutant: a nested push_off() records the state it finds.
Outermost_any(c) == TRUE

Outermost(c) == noff[c] = 0

\* The rest of push_off(), and the test for a lock this CPU already holds.
push_off(c) ==
  LET x == on[c] IN
  /\ At(c, "push_off")
  /\ intr_off(c)
  /\ noff' = [noff EXCEPT ![c] = @ + 1]
  /\ intena' = IF Outermost(c) THEN [intena EXCEPT ![c] = old[x]] ELSE intena
  /\ before' = IF noff[c] = 0 THEN [before EXCEPT ![x] = sie[c]] ELSE before
  /\ panicked' = holding(c, want[x])
  /\ old' = [old EXCEPT ![x] = FALSE]
  /\ Goto(c, "spin")
  /\ UNCHANGED <<on, lockvars, want, held, frames, myintena>>

\* Mutant: the lock is taken whatever the swap returned.
Swapped_any(l) == TRUE

Swapped(l) == ~locked[l]

\* The swap that finds the lock free; the others change nothing.
test_and_set(c) ==
  /\ At(c, "spin") /\ Swapped(want[on[c]])
  /\ locked' = [locked EXCEPT ![want[on[c]]] = TRUE]
  /\ Goto(c, "own")
  /\ UNCHANGED <<cpuvars, on, cpu, want, old, held, frames, myintena, before,
                 panicked>>

record_cpu(c) ==
  LET x == on[c] IN
  /\ At(c, "own")
  /\ cpu' = [cpu EXCEPT ![want[x]] = c]
  /\ held' = [held EXCEPT ![x] = @ \union {want[x]}]
  /\ want' = [want EXCEPT ![x] = NoLock]
  /\ Goto(c, "run")
  /\ UNCHANGED <<cpuvars, on, locked, old, frames, myintena, before,
                 panicked>>

(***************************************************************************)
(* release()                                                               *)
(***************************************************************************)
release(c, l) ==
  LET x == on[c] IN
  /\ At(c, "run") /\ l \in held[x]
  /\ panicked' = ~holding(c, l)
  /\ cpu' = [cpu EXCEPT ![l] = NoCpu]
  /\ want' = [want EXCEPT ![x] = l]
  /\ Goto(c, "release")
  /\ UNCHANGED <<cpuvars, on, locked, old, held, frames, myintena, before>>

lock_release(c) ==
  LET x == on[c] IN
  /\ At(c, "release")
  /\ locked' = [locked EXCEPT ![want[x]] = FALSE]
  /\ held' = [held EXCEPT ![x] = @ \ {want[x]}]
  /\ want' = [want EXCEPT ![x] = NoLock]
  /\ Goto(c, "pop_off")
  /\ UNCHANGED <<cpuvars, on, cpu, old, frames, myintena, before,
                 panicked>>

\* Mutant: every pop_off() puts the recorded state back.
Last_any(c) == TRUE

Last(c) == noff[c] = 1

\* Mutant: the depth is never lowered.
Popped_not(c) == noff[c]

Popped(c) == noff[c] - 1

pop_off(c) ==
  /\ At(c, "pop_off")
  /\ panicked' = (sie[c] \/ noff[c] < 1)
  /\ noff' = [noff EXCEPT ![c] = Popped(c)]
  /\ sie' = IF Last(c) /\ intena[c] THEN [sie EXCEPT ![c] = TRUE] ELSE sie
  /\ before' = IF noff[c] = 1 THEN [before EXCEPT ![on[c]] = FALSE] ELSE before
  /\ Goto(c, "run")
  /\ UNCHANGED <<intena, on, lockvars, want, old, held, frames, myintena>>

(***************************************************************************)
(* Interrupts and context switches.                                        *)
(***************************************************************************)
\* kernelvec, kerneltrap() and devintr() begin, between any two steps taken
\* with interrupts on; the hardware turns them off.
kerneltrap(c) ==
  LET x == on[c] IN
  /\ sie[c] /\ ~panicked
  /\ frames' = [frames EXCEPT ![x] =
       Append(@, [pc |-> pc[x], old |-> old[x], want |-> want[x],
                  held |-> held[x]])]
  /\ sie' = [sie EXCEPT ![c] = FALSE]
  /\ held' = [held EXCEPT ![x] = {}]
  /\ want' = [want EXCEPT ![x] = NoLock]
  /\ old' = [old EXCEPT ![x] = FALSE]
  /\ Goto(c, "run")
  /\ UNCHANGED <<noff, intena, on, lockvars, myintena, before, panicked>>

\* The handler is done: w_sstatus(sstatus) and sret.
sret(c) ==
  LET x == on[c]
      f == frames[x][Len(frames[x])] IN
  /\ At(c, "run") /\ frames[x] # <<>> /\ held[x] = {}
  /\ frames' = [frames EXCEPT ![x] = SubSeq(@, 1, Len(@) - 1)]
  /\ sie' = [sie EXCEPT ![c] = TRUE]
  /\ pc' = [pc EXCEPT ![x] = f.pc]
  /\ old' = [old EXCEPT ![x] = f.old]
  /\ want' = [want EXCEPT ![x] = f.want]
  /\ held' = [held EXCEPT ![x] = f.held]
  /\ UNCHANGED <<noff, intena, on, lockvars, myintena, before, panicked>>

\* The outer loop of scheduler() turns interrupts on.
intr_on(c) ==
  /\ At(c, "run") /\ on[c] = c /\ held[c] = {} /\ frames[c] = <<>>
  /\ sie' = [sie EXCEPT ![c] = TRUE]
  /\ UNCHANGED <<noff, intena, on, lockvars, pc, want, old, held, frames,
                 myintena, before, panicked>>

\* sched() up to swtch(): from yield(), in a handler or not, sleep(), exit().
sched(c) ==
  LET t == on[c] IN
  /\ At(c, "run") /\ t \in Threads /\ held[t] = {t}
  /\ panicked' = (~holding(c, t) \/ noff[c] # 1 \/ sie[c])
  /\ myintena' = [myintena EXCEPT ![t] = intena[c]]
  /\ on' = [on EXCEPT ![c] = c]
  /\ held' = [held EXCEPT ![t] = {}, ![c] = {t}]
  /\ Goto(c, "swtch")
  /\ UNCHANGED <<cpuvars, lockvars, want, old, frames, before>>

\* Mutant: the interrupt state is left as the CPU has it.
Restored_not(c, t) == intena[c]

\* What sched() stores in mycpu()->intena once it is back; a thread that
\* starts in forkret() stores nothing.
Restored(c, t) == IF pc[t] = "fresh" THEN intena[c] ELSE myintena[t]

\* scheduler() holds p->lock of a RUNNABLE process and switches to it.
swtch(c, t) ==
  /\ At(c, "run") /\ on[c] = c /\ frames[c] = <<>> /\ held[c] = {t}
  /\ pc[t] \in {"fresh", "swtch"}
  /\ on' = [on EXCEPT ![c] = t]
  /\ held' = [held EXCEPT ![c] = {}, ![t] = {t}]
  /\ intena' = [intena EXCEPT ![c] = Restored(c, t)]
  /\ before' = IF pc[t] = "fresh" THEN [before EXCEPT ![t] = intena[c]]
               ELSE before
  /\ myintena' = [myintena EXCEPT ![t] = FALSE]
  /\ pc' = [pc EXCEPT ![t] = "run"]
  /\ UNCHANGED <<sie, noff, lockvars, want, old, frames, panicked>>

\* panic() stops the machine.
Halted == panicked /\ UNCHANGED vars

Next ==
  \/ Halted
  \/ \E c \in CPUs :
     \/ \E l \in AllLocks : acquire(c, l) \/ release(c, l)
     \/ push_off(c) \/ test_and_set(c) \/ record_cpu(c)
     \/ lock_release(c) \/ pop_off(c)
     \/ kerneltrap(c) \/ sret(c) \/ intr_on(c)
     \/ sched(c) \/ \E t \in Threads : swtch(c, t)

Spec == Init /\ [][Next]_vars
-----------------------------------------------------------------------------
(***************************************************************************)
(* Properties.                                                             *)
(***************************************************************************)
\* Type invariant.  A context holds at most one p->lock, so noff of
\* struct cpu is bounded.
TypeOK ==
  /\ sie \in [CPUs -> BOOLEAN]
  /\ noff \in [CPUs -> 0..Cardinality(Locks) + 1]
  /\ intena \in [CPUs -> BOOLEAN]
  /\ on \in [CPUs -> Contexts]
  /\ locked \in [AllLocks -> BOOLEAN]
  /\ cpu \in [AllLocks -> CPUs \union {NoCpu}]
  /\ pc \in [Contexts -> {"fresh", "run", "push_off", "spin", "own",
                          "release", "pop_off", "swtch"}]
  /\ want \in [Contexts -> AllLocks \union {NoLock}]
  /\ old \in [Contexts -> BOOLEAN]
  /\ held \in [Contexts -> SUBSET AllLocks]
  /\ myintena \in [Threads -> BOOLEAN]
  /\ before \in [Contexts -> BOOLEAN]
  /\ panicked \in BOOLEAN

\* Locks a context is inside of: held, or won by test_and_set() just now.
Inside(x) == held[x] \union (IF pc[x] = "own" THEN {want[x]} ELSE {})

\* A spinlock excludes: two contexts are never inside the same lock, also
\* when sched() hands a p->lock to the scheduler of a CPU, or takes it back
\* on another one.
MutualExclusion ==
  \A x, y \in Contexts : x # y => Inside(x) \intersect Inside(y) = {}

\* None of the panics of acquire(), release(), pop_off() and sched() is
\* reachable; in particular no handler finds a lock held by the code that it
\* interrupted, which would wait for itself for ever.
NoPanic == ~panicked

\* A CPU whose context is inside a lock takes no interrupt, and its noff
\* counts the locks the context is inside of, or is about to be.
InterruptsOff ==
  \A c \in CPUs :
    LET x == on[c] IN
    /\ noff[c] = Cardinality(held[x])
                 + (IF pc[x] \in {"spin", "own", "pop_off"} THEN 1 ELSE 0)
    /\ noff[c] > 0 => ~sie[c]

\* A handler is not itself interrupted, although it takes and releases locks
\* and may be switched out by yield() and resumed on another CPU whose
\* intena says something else: kerneltrap() can restore sepc and sstatus.
HandlersDoNotNest == \A x \in Contexts : Len(frames[x]) <= 1

\* "if interrupts are initially off, then push_off, pop_off leaves them off",
\* and on if they were on, for a thread that may change CPUs in between.
RestoresInterrupts ==
  [][\A c \in CPUs :
       noff[c] = 1 /\ noff'[c] = 0 /\ on[c] \in Threads
         => sie'[c] = before[on[c]]]_vars
=============================================================================
