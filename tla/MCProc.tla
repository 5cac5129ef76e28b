------------------------------- MODULE MCProc -------------------------------
(***************************************************************************)
(* Processes, for TLC: the clock and sleep(), the process table with its    *)
(* scheduler, and the listing of the table by ps().                         *)
(*                                                                         *)
(* Each module has the fields of struct proc that it is about; they share   *)
(* no variable.  One of them moves in a behaviour, the others stay in an    *)
(* initial state.                                                           *)
(***************************************************************************)
EXTENDS Clock, Proc, TLC

CONSTANTS PsSlots, PsPids, Filters,  \* NPROC, MaxPid and Filters of PsList
          Parts                      \* the modules that move, one in a behaviour

VARIABLES
  part,
  tab, listpid, ps, out, hist

L == INSTANCE PsList WITH NPROC <- PsSlots, MaxPid <- PsPids, nextpid <- listpid

ASSUME ListingAssumption == L!PsListAssumption

listing == <<tab, listpid, ps, out, hist>>

MCInit ==
  /\ part \in Parts
  /\ ClockInit /\ Init /\ L!Init
  /\ part # "clock" => ticks = 0
  /\ part # "ps" => ~ps.r /\ ~ps.l /\ ps.f = {}

MCNext ==
  /\ UNCHANGED part
  /\ \/ part = "clock" /\ ClockNext /\ UNCHANGED <<vars, listing>>
     \/ part = "proc" /\ Next /\ UNCHANGED <<clockvars, listing>>
     \/ part = "ps" /\ L!Next /\ UNCHANGED <<clockvars, vars>>

MCSpec == MCInit /\ [][MCNext]_<<part, clockvars, vars, listing>>

\* With the fairness of Proc, where it is the one that moves.
MCLiveSpec == MCSpec /\ Fairness

Symmetry == Permutations(CPUS)

\* The lists that -p names.
MCFilters == {{}, {2, 3}}

\* The arguments of sleep().
MCCounts == {-1, 0, 1, 2, 4}

-----------------------------------------------------------------------------
\* ps lists every process that lives throughout the listing, and the parent it
\* shows is the parent the process had (see PsList).
ListingRight == L!ListsAll /\ L!PpidRight
=============================================================================
