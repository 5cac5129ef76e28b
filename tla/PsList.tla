------------------------------- MODULE PsList -------------------------------
(***************************************************************************)
(* The listing of ps() (kernel/proc.c) while processes fork, exit and wait. *)
(*                                                                         *)
(* ps() walks the process table and takes no lock: each load of a field of  *)
(* the table is a step of its own, and so is each store that fork(), exit() *)
(* and wait() make to the fields that ps() prints.  The locks keep these    *)
(* calls out of each other's way, not out of ps()'s.  printf() may print    *)
(* the pid that the filter loaded or load it again: the compiler chooses.   *)
(* The parsing of the arguments is in PsArgs.                               *)
(***************************************************************************)
EXTENDS Naturals, FiniteSets

CONSTANTS NPROC,    \* slots; slot 1 is init, slot 2 the process that runs ps
          MaxPid,   \* bound: pids given out
          Filters   \* sets of pids that -p may name; {} stands for no -p

PsListAssumption == NPROC \in Nat /\ NPROC >= 2 /\ MaxPid \in Nat

Slots == 1..NPROC
NULL == 0

VARIABLES tab,      \* the table: state, pid, parent; "op": the call that is changing the slot
          nextpid,
          ps,       \* the walk: flags, slot, label, what it has loaded
          out,      \* the line printed for each slot
          hist      \* history since the walk began: pids held, and whether nothing changed

vars == <<tab, nextpid, ps, out, hist>>

None == <<"none", 0>>
Slot(state, pid, parent, op) == [state |-> state, pid |-> pid, parent |-> parent, op |-> op]
NoLine == [pid |-> 0, ppid |-> 0, printed |-> FALSE]

\* init is the parent of the process that calls ps, and of another one.
Init ==
  /\ tab = [i \in Slots |-> CASE i = 1 -> Slot("RUNNABLE", 1, NULL, None)
                              [] i = 2 -> Slot("RUNNING", 2, 1, None)
                              [] i = 3 -> Slot("RUNNABLE", 3, 1, None)
                              [] OTHER -> Slot("UNUSED", 0, NULL, None)]
  /\ nextpid = 4
  /\ \E r \in BOOLEAN, l \in BOOLEAN, f \in Filters :
       ps = [r |-> r, l |-> l, f |-> f, i |-> 0, at |-> "start", pid |-> 0, parent |-> NULL]
  /\ out = [i \in Slots |-> NoLine]
  /\ hist = [i \in Slots |-> [pids |-> {}, kept |-> FALSE, sameparent |-> FALSE, ran |-> FALSE]]

Alive(i) == tab[i].state \in {"RUNNABLE", "RUNNING"}

\* A process that may make a call; ps's own process is in ps().
CanCall(p) == p # 2 /\ Alive(p) /\ tab[p].op = None /\ \A j \in Slots : tab[j].op[2] # p

\* exit() and wait() hold wait_lock.
WaitLockFree == \A j \in Slots : tab[j].op[1] \notin {"exit", "free"}

\* A store to slot i: history follows.
Store(i, new) ==
  /\ tab' = [tab EXCEPT ![i] = new]
  /\ hist' = [hist EXCEPT ![i] =
       [pids |-> IF ps.at = "start" THEN {} ELSE @.pids \cup {new.pid},
        kept |-> @.kept /\ new.pid = tab[i].pid /\ new.state # "UNUSED",
        sameparent |-> @.sameparent /\ new.parent = tab[i].parent,
        ran |-> @.ran /\ new.state = "RUNNING"]]

-----------------------------------------------------------------------------
(* The other processes. *)

\* The scheduler runs a process, or it gives up the CPU.
dispatch(i) ==
  /\ Alive(i) /\ i # 1
  /\ Store(i, [tab[i] EXCEPT !.state = IF @ = "RUNNING" THEN "RUNNABLE" ELSE "RUNNING"])
  /\ UNCHANGED <<nextpid, ps, out>>

\* allocproc() for a fork() of process p: the pid, then the state.
allocproc_pid(p, i) ==
  /\ CanCall(p) /\ nextpid <= MaxPid
  /\ tab[i].state = "UNUSED" /\ tab[i].op = None
  /\ \A j \in 1..(i - 1) : ~(tab[j].state = "UNUSED" /\ tab[j].op = None)
  /\ Store(i, [tab[i] EXCEPT !.pid = nextpid, !.op = <<"fork", p>>])
  /\ nextpid' = nextpid + 1
  /\ UNCHANGED <<ps, out>>

allocproc_state(p, i) ==
  /\ tab[i].op = <<"fork", p>>
  /\ Store(i, [tab[i] EXCEPT !.state = "USED", !.op = <<"forked", p>>])
  /\ UNCHANGED <<nextpid, ps, out>>

\* fork() sets the parent and then makes the child runnable.
fork_parent(p, i) ==
  /\ tab[i].op = <<"forked", p>> /\ tab[i].parent = NULL /\ WaitLockFree
  /\ Store(i, [tab[i] EXCEPT !.parent = p])
  /\ UNCHANGED <<nextpid, ps, out>>

fork_runnable(p, i) ==
  /\ tab[i].op = <<"forked", p>> /\ tab[i].parent = p
  /\ Store(i, [tab[i] EXCEPT !.state = "RUNNABLE", !.op = None])
  /\ UNCHANGED <<nextpid, ps, out>>

\* No memory for the child: freeproc().
fork_fails(p, i) ==
  /\ tab[i].op = <<"forked", p>> /\ tab[i].parent = NULL
  /\ Store(i, [tab[i] EXCEPT !.pid = 0, !.op = <<"unfork", p>>])
  /\ UNCHANGED <<nextpid, ps, out>>

\* exit() takes wait_lock, gives the children to init one by one, ...
exit_begin(p) ==
  /\ p > 2 /\ CanCall(p) /\ WaitLockFree
  /\ Store(p, [tab[p] EXCEPT !.op = <<"exit", 0>>])
  /\ UNCHANGED <<nextpid, ps, out>>

exit_reparent(p, j) ==
  /\ tab[p].op = <<"exit", 0>> /\ tab[j].parent = p
  /\ Store(j, [tab[j] EXCEPT !.parent = 1])
  /\ UNCHANGED <<nextpid, ps, out>>

\* ... and is a zombie.
exit_zombie(p) ==
  /\ tab[p].op = <<"exit", 0>> /\ \A j \in Slots : tab[j].parent # p
  /\ Store(p, [tab[p] EXCEPT !.state = "ZOMBIE", !.op = None])
  /\ UNCHANGED <<nextpid, ps, out>>

\* wait() of the parent finds a zombie: freeproc() clears the fields one by one.
wait_pid(p, i) ==
  /\ CanCall(p) /\ WaitLockFree
  /\ tab[i].parent = p /\ tab[i].state = "ZOMBIE" /\ tab[i].op = None
  /\ Store(i, [tab[i] EXCEPT !.pid = 0, !.op = <<"free", p>>])
  /\ UNCHANGED <<nextpid, ps, out>>

freeproc_parent(p, i) ==
  /\ tab[i].op = <<"free", p>> /\ tab[i].parent # NULL
  /\ Store(i, [tab[i] EXCEPT !.parent = NULL])
  /\ UNCHANGED <<nextpid, ps, out>>

freeproc_state(p, i) ==
  /\ tab[i].op \in {<<"free", p>>, <<"unfork", p>>} /\ tab[i].parent = NULL
  /\ Store(i, [tab[i] EXCEPT !.state = "UNUSED", !.op = None])
  /\ UNCHANGED <<nextpid, ps, out>>

Others ==
  \/ \E p \in Slots : dispatch(p) \/ exit_begin(p) \/ exit_zombie(p)
  \/ \E p, i \in Slots :
       \/ allocproc_pid(p, i) \/ allocproc_state(p, i) \/ fork_parent(p, i) \/ fork_runnable(p, i) \/ fork_fails(p, i)
       \/ exit_reparent(p, i)
       \/ wait_pid(p, i) \/ freeproc_parent(p, i) \/ freeproc_state(p, i)

-----------------------------------------------------------------------------
(* The walk. *)

\* The walk begins, and with it the history.
ps_start ==
  /\ ps.at = "start"
  /\ ps' = [ps EXCEPT !.i = 1, !.at = "state"]
  /\ hist' = [i \in Slots |-> [pids |-> {tab[i].pid}, kept |-> tab[i].state # "UNUSED" /\ tab[i].pid # 0,
                               sameparent |-> TRUE, ran |-> tab[i].state = "RUNNING"]]
  /\ UNCHANGED <<tab, nextpid, out>>

GoTo(label) == [ps EXCEPT !.at = label]
NextSlot == IF ps.i < NPROC THEN [ps EXCEPT !.i = @ + 1, !.at = "state", !.pid = 0, !.parent = NULL]
            ELSE [ps EXCEPT !.at = "done", !.pid = 0, !.parent = NULL]

\* Mutant: a process that has exited is not listed.
Skipped_zombie(state) == state \in {"UNUSED", "ZOMBIE"} \/ (state # "RUNNING" /\ ps.r)

\* The tests of the state.
Skipped(state) == state = "UNUSED" \/ (state # "RUNNING" /\ ps.r)

ps_state ==
  /\ ps.at = "state"
  /\ ps' = IF Skipped(tab[ps.i].state) THEN NextSlot ELSE GoTo("filter")
  /\ UNCHANGED <<tab, nextpid, out, hist>>

\* Mutant: the pid is compared with the slot's number.
Selected_slot(pid) == ps.f = {} \/ ps.i \in ps.f

\* validPid, when there is a filter.
Selected(pid) == ps.f = {} \/ pid \in ps.f

ps_filter ==
  /\ ps.at = "filter"
  /\ ps' = IF ~Selected(tab[ps.i].pid) THEN NextSlot
           ELSE [ps EXCEPT !.pid = IF ps.f = {} THEN 0 ELSE tab[ps.i].pid,
                           !.at = IF ps.l THEN "parent" ELSE "print"]
  /\ UNCHANGED <<tab, nextpid, out, hist>>

\* p->parent is loaded once.
ps_parent ==
  /\ ps.at = "parent"
  /\ ps' = [ps EXCEPT !.parent = tab[ps.i].parent, !.at = "print"]
  /\ UNCHANGED <<tab, nextpid, out, hist>>

\* Mutant: the pid of the process itself.
Ppid_own(parent) == IF parent = NULL THEN 0 ELSE tab[ps.i].pid

\* ppid: the pid that the parent's slot has by now.
Ppid(parent) == IF parent = NULL THEN 0 ELSE tab[parent].pid

\* Mutant: the line has the slot's number.
Printed_slot(i) == {i}

\* The pid that is printed: loaded now, or the one that the filter loaded.
Printed(i) == {tab[i].pid} \cup (IF ps.f = {} THEN {} ELSE {ps.pid})

ps_print ==
  /\ ps.at = "print"
  /\ \E pid \in Printed(ps.i) :
       out' = [out EXCEPT ![ps.i] = [pid |-> pid, ppid |-> Ppid(ps.parent), printed |-> TRUE]]
  /\ ps' = NextSlot
  /\ UNCHANGED <<tab, nextpid, hist>>

Walk == ps_start \/ ps_state \/ ps_filter \/ ps_parent \/ ps_print

Returned == ps.at = "done" /\ UNCHANGED vars

Next == (ps.at # "done" /\ (Others \/ Walk)) \/ Returned

Spec == Init /\ [][Next]_vars

-----------------------------------------------------------------------------
\* The walk has passed slot i.
Passed(i) == ps.at = "done" \/ (ps.at # "start" /\ i < ps.i)

\* A process that exists from the beginning of the listing until its slot is passed
\* is listed, zombie or not, when the flags select it: with -p its pid, with r only
\* if it runs all the time.
ListsAll ==
  \A i \in Slots : Passed(i) /\ hist[i].kept /\ (ps.r => hist[i].ran) /\ (ps.f # {} => tab[i].pid \in ps.f)
    => out[i].printed /\ out[i].pid = tab[i].pid

\* A pid that is printed was the pid of that slot during the listing: the race with
\* fork() and wait() never makes one up.  (A slot that is being freed shows 0.)
NoPidInvented == \A i \in Slots : out[i].printed => out[i].pid \in hist[i].pids

\* Under -p, a line is printed only for a slot that held a selected pid.
FilterRespected == \A i \in Slots : out[i].printed /\ ps.f # {} => hist[i].pids \cap ps.f # {}

\* The parent of a listed process is right if neither the process nor its parent
\* changed: otherwise the parent's slot may have been given to another process
\* between the two loads.
PpidRight ==
  \A i \in Slots : Passed(i) /\ ps.l /\ out[i].printed /\ hist[i].kept /\ hist[i].sameparent
    => \/ tab[i].parent = NULL /\ out[i].ppid = 0
       \/ tab[i].parent # NULL /\ (hist[tab[i].parent].kept => out[i].ppid = tab[tab[i].parent].pid)
=============================================================================
