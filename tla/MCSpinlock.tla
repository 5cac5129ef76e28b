----------------------------- MODULE MCSpinlock -----------------------------
(***************************************************************************)
(* Interrupts and the kernel, for TLC: spin locks that turn them off, and   *)
(* the trap paths that save and restore what they interrupt.                *)
(*                                                                         *)
(* Spinlock has the interrupt enable bits and not the other registers, Trap *)
(* the registers and not the locks; they share no variable.  One of them    *)
(* moves in a behaviour, the other stays in its initial state.              *)
(***************************************************************************)
EXTENDS Spinlock, TLC

CONSTANTS Harts, UserThreads, Kernel

VARIABLES part,  \* the module that moves
          h, k, sfr, expect, stopped

T == INSTANCE Trap WITH Threads <- UserThreads, panic <- stopped

ASSUME T!TrapAssumption

trap == <<h, k, sfr, expect, stopped>>

MCInit == part \in {"spinlock", "trap"} /\ Init /\ T!Init

MCNext ==
  /\ UNCHANGED part
  /\ \/ part = "spinlock" /\ Next /\ UNCHANGED trap
     \/ part = "trap" /\ T!Next /\ UNCHANGED vars

MCSpec == MCInit /\ [][MCNext]_<<part, vars, trap>>

Symmetry == Permutations(CPUs) \cup Permutations(Threads)

-----------------------------------------------------------------------------
\* A user program finds the registers it had, or those of its system call, after
\* any traps, switches and nested interrupts (see Trap).
UserStateKept == T!UserStateKept
=============================================================================
