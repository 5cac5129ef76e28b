----------------------------- MODULE ProcProofs -----------------------------
(***************************************************************************)
(* Proofs about Proc: who holds p->lock and wait_lock, the tree of parents, *)
(* and that no exit() is missed by a parent asleep in wait(), for every     *)
(* size of the process table and every number of CPUs.                      *)
(***************************************************************************)
EXTENDS Proc, TLAPS

\* The default provers, with a second try for a leaf that was cut short.
USE SMTT(20), SMTT(30), Zenon

Live == {"RUNNABLE", "RUNNING", "SLEEPING"}

\* Where a process holds wait_lock.
Waiting == {"scan", "sleep"}
Exiting == {"reparent", "wake_init", "wake_parent", "zombie"}
Holding == Waiting \union Exiting

\* Which CPU is on which process, and the p->lock that goes with it.
CpuInv ==
  /\ \A c \in CPUS : ctx[c] # "sched" => cproc[c] \in Slots
  /\ \A c \in CPUS : cproc[c] \in Slots => sidx[c] = cproc[c]
  /\ \A c \in CPUS, s \in Slots :
        lock[s] = c <=> cproc[c] = s /\ ctx[c] # "proc"
  /\ \A c, d \in CPUS : cproc[c] \in Slots /\ cproc[c] = cproc[d] => c = d
  /\ \A c \in CPUS : cproc[c] \in Slots =>
        IF ctx[c] = "sched"
        THEN state[cproc[c]] \in {"RUNNABLE", "SLEEPING", "ZOMBIE"}
        ELSE state[cproc[c]] = "RUNNING"
  /\ \A s \in Slots : state[s] = "RUNNING" => \E c \in CPUS : cproc[c] = s

\* Which program points go with which state, and who holds wait_lock.
PcInv ==
  /\ \A c \in CPUS :
        wait_lock = c <=> ctx[c] = "proc" /\ pc[cproc[c]] \in Holding
  /\ \A s \in Slots : pc[s] \in Holding =>
        \E c \in CPUS : cproc[c] = s /\ ctx[c] = "proc"
  /\ \A s \in Slots :
       /\ state[s] \in {"UNUSED", "ZOMBIE"} => pc[s] \in {"user", "dead"}
       /\ state[s] = "USED" => pc[s] = "user"
       /\ state[s] = "SLEEPING" => pc[s] = "wait" /\ chan[s] = s
       /\ pc[s] = "dead" => state[s] \in {"UNUSED", "ZOMBIE"}

\* The slot a fork() is filling in belongs to that fork() alone.
ForkInv ==
  /\ \A p \in Slots : pc[p] \in {"fork_parent", "fork_run"} =>
       /\ arg[p] \in Slots /\ state[arg[p]] = "USED"
       /\ parent[arg[p]] = IF pc[p] = "fork_parent" THEN None ELSE p
  /\ \A p, q \in Slots :
       /\ pc[p] \in {"fork_parent", "fork_run"}
       /\ pc[q] \in {"fork_parent", "fork_run"}
       /\ arg[p] = arg[q]
       => p = q

\* The tree of processes.
TreeInv ==
  /\ parent[initproc] = None /\ state[initproc] \in Live
  /\ \A s \in Slots :
       /\ state[s] = "UNUSED" => parent[s] = None
       /\ parent[s] \in Slots => state[parent[s]] \in Live
       /\ s # initproc /\ state[s] \in Live \union {"ZOMBIE"} =>
            parent[s] \in Slots
       /\ pc[s] \in Exiting => s # initproc
       /\ pc[s] \in {"wake_parent", "zombie"} =>
            \A t \in Slots : parent[t] # s

\* How far the holder of wait_lock has come, and what a sleeper can rely on.
WaitInv ==
  /\ \A q \in Slots :
       /\ pc[q] = "scan" =>
            /\ \A s \in Slots : parent[s] = q /\ s < idx[q] =>
                                  state[s] # "ZOMBIE"
            /\ havekids[q] => \E s \in Slots : parent[s] = q
       /\ pc[q] = "sleep" =>
            /\ \A s \in Slots : parent[s] = q => state[s] # "ZOMBIE"
            /\ \E s \in Slots : parent[s] = q
       /\ pc[q] = "wake_init" =>
            /\ arg[q] = initproc
            /\ idx[q] > 0 => state[initproc] # "SLEEPING"
       /\ pc[q] = "wake_parent" =>
            /\ arg[q] = parent[q]
            /\ parent[q] < idx[q] => state[parent[q]] # "SLEEPING"
       /\ pc[q] = "zombie" => state[parent[q]] # "SLEEPING"
  /\ \A p \in Slots : state[p] = "SLEEPING" =>
       /\ \E s \in Slots : parent[s] = p
       /\ \A s \in Slots : parent[s] = p /\ state[s] = "ZOMBIE" =>
            /\ p = initproc
            /\ \E q \in Slots : pc[q] = "wake_init" /\ idx[q] = 0

\* Pids.
PidInv ==
  /\ nextpid > 1
  /\ \A s \in Slots : state[s] # "UNUSED" => pid[s] > 0 /\ pid[s] < nextpid
  /\ \A s, t \in Slots :
       state[s] # "UNUSED" /\ state[t] # "UNUSED" /\ pid[s] = pid[t] => s = t

\* Who is marked killed, when kill() is not called with 0, the pid of a slot
\* that is not in use.
KillInv ==
  \A s \in Slots :
    /\ state[s] = "UNUSED" => pid[s] = 0 /\ ~killed[s]
    /\ state[s] # "UNUSED" /\ killed[s] => pid[s] \in targets
    /\ pc[s] = "kill" => arg[s] \in KillPids

ProcInv ==
  TypeOK /\ CpuInv /\ PcInv /\ ForkInv /\ TreeInv /\ WaitInv /\ PidInv
-----------------------------------------------------------------------------
\* What the proofs use of the constants.
LEMMA Constants ==
  /\ NPROC \in Nat \ {0} /\ KillPids \subseteq Nat
  /\ Free \notin CPUS /\ None \notin Slots
  /\ initproc \in Slots /\ \A s \in Slots : s \in Nat
  /\ \A s \in Nat : s < NPROC <=> s \in Slots
  BY ProcAssumption DEF Free, None, Slots, initproc

\* The program points of Preemptible, Holding and "dead" are different ones.
LEMMA Points ==
  /\ PCs = Preemptible \union Holding \union {"dead"}
  /\ Preemptible \intersect Holding = {}
  /\ "dead" \notin Preemptible /\ "dead" \notin Holding
  BY DEF PCs, Preemptible, Holding, Waiting, Exiting

\* The process a CPU runs is RUNNING, and on no other CPU.
LEMMA Acting ==
  ASSUME ProcInv, NEW c \in CPUS, ctx[c] # "sched"
  PROVE  /\ cproc[c] \in Slots /\ state[cproc[c]] = "RUNNING"
         /\ \A d \in CPUS : cproc[d] = cproc[c] => d = c
  BY DEF ProcInv, CpuInv

\* One process at most is where wait_lock is held, and none when it is free.
LEMMA Holder ==
  ASSUME ProcInv, NEW q \in Slots, pc[q] \in Holding
  PROVE  /\ wait_lock \in CPUS /\ cproc[wait_lock] = q
         /\ ctx[wait_lock] = "proc" /\ state[q] = "RUNNING"
         /\ \A r \in Slots : pc[r] \in Holding => r = q
PROOF
  <1>1. PICK c \in CPUS : cproc[c] = q /\ ctx[c] = "proc"
    BY DEF ProcInv, PcInv
  <1>2. wait_lock = c /\ state[q] = "RUNNING"
    BY <1>1 DEF ProcInv, PcInv, CpuInv
  <1>3. ASSUME NEW r \in Slots, pc[r] \in Holding
        PROVE  r = q
    <2>1. PICK d \in CPUS : cproc[d] = r /\ ctx[d] = "proc"
      BY <1>3 DEF ProcInv, PcInv
    <2>2. wait_lock = d
      BY <2>1, <1>3 DEF ProcInv, PcInv
    <2> QED BY <1>1, <1>2, <2>1, <2>2
  <1> QED BY <1>1, <1>2, <1>3

\* Init establishes the invariant: init is RUNNABLE, no CPU is on a process.
LEMMA Initially ==
  ASSUME Init
  PROVE  ProcInv
PROOF
  <1> USE Constants DEF Init
  <1>1. TypeOK
    BY DEF TypeOK, PCs, Preemptible, Slots
  <1>2. CpuInv
    BY DEF CpuInv
  <1>3. PcInv
    BY DEF PcInv, Holding, Waiting, Exiting
  <1>4. ForkInv
    BY DEF ForkInv
  <1>5. TreeInv
    BY DEF TreeInv, Live, Exiting
  <1>6. WaitInv
    BY DEF WaitInv
  <1>7. PidInv
    BY DEF PidInv
  <1> QED BY <1>1, <1>2, <1>3, <1>4, <1>5, <1>6, <1>7 DEF ProcInv


\* A process in exit() is not init, and has a parent.
LEMMA HasParent ==
  ASSUME ProcInv, NEW q \in Slots, pc[q] \in Exiting
  PROVE  q # initproc /\ parent[q] \in Slots
PROOF
  <1>1. state[q] = "RUNNING"
    BY Holder DEF Holding
  <1> QED BY <1>1 DEF ProcInv, TreeInv, Live

\* What a sleeper relies on is kept by a step that changes no parent, makes no
\* process a zombie or a sleeper, and leaves alone who holds wait_lock.
LEMMA WaitKept ==
  ASSUME ProcInv, parent' = parent,
         \A s \in Slots : state'[s] \in {"ZOMBIE", "SLEEPING"} =>
                            state'[s] = state[s],
         \A q \in Slots : pc[q] \in Holding \/ pc'[q] \in Holding =>
                            /\ pc'[q] = pc[q] /\ idx'[q] = idx[q]
                            /\ arg'[q] = arg[q] /\ havekids'[q] = havekids[q]
  PROVE  WaitInv'
PROOF
  <1>1. ASSUME NEW q \in Slots
        PROVE  /\ pc'[q] = "scan" =>
                    /\ \A s \in Slots : parent'[s] = q /\ s < idx'[q] =>
                                          state'[s] # "ZOMBIE"
                    /\ havekids'[q] => \E s \in Slots : parent'[s] = q
               /\ pc'[q] = "sleep" =>
                    /\ \A s \in Slots : parent'[s] = q => state'[s] # "ZOMBIE"
                    /\ \E s \in Slots : parent'[s] = q
    BY DEF ProcInv, WaitInv, Holding, Waiting
  <1>2. ASSUME NEW q \in Slots
        PROVE  /\ pc'[q] = "wake_init" =>
                    /\ arg'[q] = initproc
                    /\ idx'[q] > 0 => state'[initproc] # "SLEEPING"
               /\ pc'[q] = "wake_parent" =>
                    /\ arg'[q] = parent'[q]
                    /\ parent'[q] < idx'[q] => state'[parent'[q]] # "SLEEPING"
               /\ pc'[q] = "zombie" => state'[parent'[q]] # "SLEEPING"
    BY HasParent, Constants DEF ProcInv, WaitInv, Holding, Exiting
  <1>3. ASSUME NEW p \in Slots, state'[p] = "SLEEPING"
        PROVE  /\ \E s \in Slots : parent'[s] = p
               /\ \A s \in Slots : parent'[s] = p /\ state'[s] = "ZOMBIE" =>
                    /\ p = initproc
                    /\ \E q \in Slots : pc'[q] = "wake_init" /\ idx'[q] = 0
    <2>1. state[p] = "SLEEPING"
      BY <1>3
    <2>2. \E s \in Slots : parent'[s] = p
      BY <2>1 DEF ProcInv, WaitInv
    <2>3. ASSUME NEW s \in Slots, parent'[s] = p, state'[s] = "ZOMBIE"
          PROVE  /\ p = initproc
                 /\ \E q \in Slots : pc'[q] = "wake_init" /\ idx'[q] = 0
      <3>1. state[s] = "ZOMBIE" /\ parent[s] = p
        BY <2>3
      <3>2. PICK q \in Slots : pc[q] = "wake_init" /\ idx[q] = 0 /\ p = initproc
        BY <2>1, <3>1 DEF ProcInv, WaitInv
      <3>3. pc'[q] = "wake_init" /\ idx'[q] = 0
        BY <3>2 DEF Holding, Exiting
      <3> QED BY <3>2, <3>3
    <2> QED BY <2>2, <2>3
  <1> QED BY Zenon, <1>1, <1>2, <1>3 DEF WaitInv

\* CpuInv is about the fields of the CPUs, p->lock and p->state.
LEMMA CpuKept ==
  ASSUME ProcInv, UNCHANGED <<state, lock, cproc, ctx, sidx>>
  PROVE  CpuInv'
  BY DEF ProcInv, CpuInv

\* A step that changes the state of no process a CPU is on.
LEMMA CpuStays ==
  ASSUME ProcInv, UNCHANGED <<lock, cproc, ctx, sidx>>,
         \A c \in CPUS : cproc[c] \in Slots => state'[cproc[c]] = state[cproc[c]],
         \A q \in Slots : state'[q] = "RUNNING" => state[q] = "RUNNING"
  PROVE  CpuInv'
PROOF
  <1>1. CpuInv
    BY Zenon DEF ProcInv
  <1>2. ASSUME NEW c \in CPUS
        PROVE  /\ ctx'[c] # "sched" => cproc'[c] \in Slots
               /\ cproc'[c] \in Slots => sidx'[c] = cproc'[c]
    BY Zenon, <1>1 DEF CpuInv
  <1>3. ASSUME NEW c \in CPUS, NEW s \in Slots
        PROVE  lock'[s] = c <=> cproc'[c] = s /\ ctx'[c] # "proc"
    <2>1. lock[s] = c <=> cproc[c] = s /\ ctx[c] # "proc"
      BY <1>1 DEF CpuInv
    <2> QED BY Zenon, <2>1
  <1>4. ASSUME NEW c \in CPUS, NEW d \in CPUS,
               cproc'[c] \in Slots, cproc'[c] = cproc'[d]
        PROVE  c = d
    <2>1. cproc[c] \in Slots /\ cproc[c] = cproc[d]
      BY Zenon, <1>4
    <2> QED BY <1>1, <2>1 DEF CpuInv
  <1>5. ASSUME NEW c \in CPUS, cproc'[c] \in Slots
        PROVE  IF ctx'[c] = "sched"
               THEN state'[cproc'[c]] \in {"RUNNABLE", "SLEEPING", "ZOMBIE"}
               ELSE state'[cproc'[c]] = "RUNNING"
    <2>1. IF ctx[c] = "sched"
          THEN state[cproc[c]] \in {"RUNNABLE", "SLEEPING", "ZOMBIE"}
          ELSE state[cproc[c]] = "RUNNING"
      BY <1>1, <1>5 DEF CpuInv
    <2> QED BY Zenon, <1>5, <2>1
  <1>6. ASSUME NEW s \in Slots, state'[s] = "RUNNING"
        PROVE  \E c \in CPUS : cproc'[c] = s
    BY Zenon, <1>1, <1>6 DEF CpuInv
  <1> QED BY <1>2, <1>3, <1>4, <1>5, <1>6 DEF CpuInv

\* A step that hands out no pid and takes no slot.
LEMMA PidKept ==
  ASSUME ProcInv, UNCHANGED <<pid, nextpid>>,
         \A s \in Slots : state'[s] # "UNUSED" => state[s] # "UNUSED"
  PROVE  PidInv'
  BY DEF ProcInv, PidInv

\* A step in which nobody takes or releases wait_lock, or changes CPUs.
LEMMA PcKept ==
  ASSUME ProcInv, UNCHANGED <<wait_lock, cproc, ctx>>,
         \A q \in Slots : pc'[q] \in Holding <=> pc[q] \in Holding,
         \A q \in Slots :
           /\ state'[q] \in {"UNUSED", "ZOMBIE"} => pc'[q] \in {"user", "dead"}
           /\ state'[q] = "USED" => pc'[q] = "user"
           /\ state'[q] = "SLEEPING" => pc'[q] = "wait" /\ chan'[q] = q
           /\ pc'[q] = "dead" => state'[q] \in {"UNUSED", "ZOMBIE"}
  PROVE  PcInv'
PROOF
  <1>1. ASSUME NEW c \in CPUS
        PROVE  wait_lock' = c <=> ctx'[c] = "proc" /\ pc'[cproc'[c]] \in Holding
    <2>1. ctx[c] = "proc" => cproc[c] \in Slots
      BY DEF ProcInv, CpuInv
    <2>2. wait_lock = c <=> ctx[c] = "proc" /\ pc[cproc[c]] \in Holding
      BY DEF ProcInv, PcInv
    <2> QED BY <2>1, <2>2
  <1>2. \A s \in Slots : pc'[s] \in Holding =>
                           \E c \in CPUS : cproc'[c] = s /\ ctx'[c] = "proc"
    BY DEF ProcInv, PcInv
  <1> QED BY Zenon, <1>1, <1>2 DEF PcInv

\* A step that neither starts a fork() nor touches the slot of one.
LEMMA ForkKept ==
  ASSUME ProcInv,
         \A s \in Slots : state[s] = "USED" =>
                            state'[s] = "USED" /\ parent'[s] = parent[s],
         \A q \in Slots : pc'[q] \in {"fork_parent", "fork_run"} =>
                            pc'[q] = pc[q] /\ arg'[q] = arg[q]
  PROVE  ForkInv'
PROOF
  <1>1. ASSUME NEW q \in Slots, pc'[q] \in {"fork_parent", "fork_run"}
        PROVE  /\ arg'[q] \in Slots /\ state'[arg'[q]] = "USED"
               /\ parent'[arg'[q]] = IF pc'[q] = "fork_parent" THEN None ELSE q
    <2>1. /\ arg[q] \in Slots /\ state[arg[q]] = "USED"
          /\ parent[arg[q]] = IF pc[q] = "fork_parent" THEN None ELSE q
          /\ pc'[q] = pc[q] /\ arg'[q] = arg[q]
      BY <1>1 DEF ProcInv, ForkInv
    <2> QED BY <2>1
  <1>2. ASSUME NEW q \in Slots, NEW r \in Slots,
               pc'[q] \in {"fork_parent", "fork_run"},
               pc'[r] \in {"fork_parent", "fork_run"}, arg'[q] = arg'[r]
        PROVE  q = r
    BY <1>2 DEF ProcInv, ForkInv
  <1> QED BY Zenon, <1>1, <1>2 DEF ForkInv

\* A step that leaves the parents alone, and in which nobody dies.
LEMMA TreeKept ==
  ASSUME ProcInv, parent' = parent,
         \A s \in Slots : \/ state'[s] = state[s]
                          \/ state[s] \in Live /\ state'[s] \in Live,
         \A q \in Slots : pc'[q] \in Exiting => q # initproc,
         \A q \in Slots : pc'[q] \in {"wake_parent", "zombie"} =>
                            \A t \in Slots : parent[t] # q
  PROVE  TreeInv'
PROOF
  <1>1. parent'[initproc] = None /\ state'[initproc] \in Live
    BY Constants DEF ProcInv, TreeInv
  <1>2. ASSUME NEW s \in Slots
        PROVE  /\ state'[s] = "UNUSED" => parent'[s] = None
               /\ parent'[s] \in Slots => state'[parent'[s]] \in Live
               /\ s # initproc /\ state'[s] \in Live \union {"ZOMBIE"} =>
                    parent'[s] \in Slots
    BY DEF ProcInv, TreeInv, Live
  <1> QED BY Zenon, <1>1, <1>2 DEF TreeInv

\* sched(): the lock of p goes with CPU c into its scheduler.
LEMMA SwitchedOut ==
  ASSUME ProcInv, NEW c \in CPUS, ctx[c] = "proc",
         NEW p \in Slots, p = cproc[c],
         NEW st \in {"RUNNABLE", "SLEEPING", "ZOMBIE"},
         lock[p] = Free, lock' = [lock EXCEPT ![p] = c],
         state' = [state EXCEPT ![p] = st],
         ctx' = [ctx EXCEPT ![c] = "sched"], UNCHANGED <<cproc, sidx>>
  PROVE  CpuInv'
PROOF
  <1>1. /\ lock'[p] = c /\ \A s \in Slots : s # p => lock'[s] = lock[s]
        /\ state'[p] = st /\ \A s \in Slots : s # p => state'[s] = state[s]
        /\ ctx'[c] = "sched" /\ \A d \in CPUS : d # c => ctx'[d] = ctx[d]
    BY Zenon DEF ProcInv, TypeOK
  <1>2. \A d \in CPUS : cproc[d] = p => d = c
    BY Acting
  <1>3. ASSUME NEW d \in CPUS
        PROVE  /\ ctx'[d] # "sched" => cproc'[d] \in Slots
               /\ cproc'[d] \in Slots => sidx'[d] = cproc'[d]
               /\ cproc'[d] \in Slots =>
                    IF ctx'[d] = "sched"
                    THEN state'[cproc'[d]] \in {"RUNNABLE", "SLEEPING", "ZOMBIE"}
                    ELSE state'[cproc'[d]] = "RUNNING"
    <2>1. CASE d = c
      BY <1>1, <2>1 DEF ProcInv, CpuInv
    <2>2. CASE d # c
      BY <1>1, <1>2, <2>2 DEF ProcInv, CpuInv
    <2> QED BY <2>1, <2>2
  <1>4. ASSUME NEW d \in CPUS, NEW s \in Slots
        PROVE  lock'[s] = d <=> cproc'[d] = s /\ ctx'[d] # "proc"
    <2>1. lock[s] = d <=> cproc[d] = s /\ ctx[d] # "proc"
      BY DEF ProcInv, CpuInv
    <2> QED BY <1>1, <1>2, <2>1
  <1>5. \A d, e \in CPUS : cproc'[d] \in Slots /\ cproc'[d] = cproc'[e] => d = e
    BY DEF ProcInv, CpuInv
  <1>6. \A s \in Slots : state'[s] = "RUNNING" => \E d \in CPUS : cproc'[d] = s
    BY <1>1 DEF ProcInv, CpuInv
  <1> QED BY Zenon, <1>3, <1>4, <1>5, <1>6 DEF CpuInv

\* The slot after s in the table, going round.
LEMMA Wrap ==
  ASSUME NEW s \in Slots
  PROVE  (s + 1) % NPROC \in Slots
  BY Constants DEF Slots

\* A step that moves the running process p from one preemptible point to
\* another, and no other process, lock or parent with it.
LEMMA Private ==
  ASSUME ProcInv, NEW c \in CPUS, ctx[c] = "proc",
         NEW p, p = cproc[c], pc[p] \in Preemptible,
         NEW l \in Preemptible \ {"fork_parent", "fork_run"},
         pc' = [pc EXCEPT ![p] = l],
         idx' \in [Slots -> 0..NPROC], \A q \in Slots \ {p} : idx'[q] = idx[q],
         arg' \in [Slots -> Nat], \A q \in Slots \ {p} : arg'[q] = arg[q],
         havekids' \in [Slots -> BOOLEAN],
         \A q \in Slots \ {p} : havekids'[q] = havekids[q],
         killed' \in [Slots -> BOOLEAN], targets' \subseteq Nat,
         UNCHANGED <<state, pid, parent, chan, nextpid, lvars, cvars>>
  PROVE  ProcInv'
PROOF
  <1>0. /\ p \in Slots /\ state[p] = "RUNNING"
        /\ \A d \in CPUS : cproc[d] = p => d = c
        /\ l \in PCs /\ l \notin Holding /\ l # "dead" /\ pc[p] \notin Holding
    BY Acting, Points
  <1>1. /\ pc'[p] = l /\ \A q \in Slots : q # p => pc'[q] = pc[q]
        /\ pc' \in [Slots -> PCs]
    BY <1>0 DEF ProcInv, TypeOK
  <1>2. UNCHANGED <<state, pid, parent, chan, nextpid, lock, wait_lock,
                    cproc, ctx, sidx>>
    BY DEF lvars, cvars
  <1>3. TypeOK'
    BY <1>1, <1>2 DEF ProcInv, TypeOK
  <1>4. CpuInv'
    BY <1>2 DEF ProcInv, CpuInv
  <1>5. PcInv'
    BY <1>0, <1>1, <1>2, Constants DEF ProcInv, TypeOK, CpuInv, PcInv
  <1>6. ForkInv'
    BY <1>0, <1>1, <1>2 DEF ProcInv, ForkInv
  <1>7. TreeInv'
    BY <1>0, <1>1, <1>2 DEF ProcInv, TreeInv, Holding, Exiting
  <1>8. WaitInv'
    BY <1>0, <1>1, <1>2 DEF ProcInv, WaitInv, Holding, Waiting, Exiting
  <1>9. PidInv'
    BY <1>2 DEF ProcInv, PidInv
  <1> QED BY <1>3, <1>4, <1>5, <1>6, <1>7, <1>8, <1>9 DEF ProcInv

\* The scheduler takes a RUNNABLE process, which is on no CPU, or goes on.
LEMMA KeepsScheduler ==
  ASSUME ProcInv, NEW c \in CPUS, scheduler(c)
  PROVE  ProcInv'
PROOF
  <1> DEFINE s == sidx[c]
  <1>1. s \in Slots /\ cproc[c] = None /\ ctx[c] = "sched" /\ lock[s] = Free
    BY DEF ProcInv, TypeOK, scheduler
  <1>2. CASE state[s] = "RUNNABLE"
    <2>1. /\ lock' = [lock EXCEPT ![s] = c]
          /\ state' = [state EXCEPT ![s] = "RUNNING"]
          /\ cproc' = [cproc EXCEPT ![c] = s]
          /\ ctx' = [ctx EXCEPT ![c] = "resume"]
          /\ UNCHANGED <<sidx, pid, parent, chan, killed, nextpid, wait_lock,
                         pc, idx, arg, havekids, targets>>
      BY <1>2 DEF scheduler, pvars
    <2>2. \A d \in CPUS : cproc[d] # s
      BY <1>1, <1>2, Constants DEF ProcInv, CpuInv
    <2>3. TypeOK'
      BY <1>1, <2>1 DEF ProcInv, TypeOK
    <2>4. CpuInv'
      BY <1>1, <2>1, <2>2, Constants DEF ProcInv, TypeOK, CpuInv
    <2>5. PcInv'
      BY <1>1, <1>2, <2>1, <2>2 DEF ProcInv, TypeOK, CpuInv, PcInv
    <2>6. ForkInv'
      BY <1>1, <1>2, <2>1 DEF ProcInv, TypeOK, ForkInv
    <2>7. TreeInv'
      BY <1>1, <1>2, <2>1 DEF ProcInv, TypeOK, TreeInv, Live
    <2>8. WaitInv'
      BY <1>1, <1>2, <2>1 DEF ProcInv, TypeOK, WaitInv
    <2>9. PidInv'
      BY <1>1, <1>2, <2>1 DEF ProcInv, TypeOK, PidInv
    <2> QED BY <2>3, <2>4, <2>5, <2>6, <2>7, <2>8, <2>9 DEF ProcInv
  <1>3. CASE state[s] # "RUNNABLE"
    <2>1. PICK t \in Slots : sidx' = [sidx EXCEPT ![c] = t]
      BY <1>1, <1>3, Wrap DEF scheduler
    <2>2. UNCHANGED <<state, pid, parent, chan, killed, nextpid, lock,
                      wait_lock, cproc, ctx, pc, idx, arg, havekids, targets>>
      BY <1>3 DEF scheduler, pvars
    <2>3. TypeOK'
      BY <2>1, <2>2 DEF ProcInv, TypeOK
    <2>4. CpuInv'
      BY <1>1, <2>1, <2>2, Constants DEF ProcInv, TypeOK, CpuInv
    <2>5. PcInv' /\ ForkInv'
      BY <2>2 DEF ProcInv, PcInv, ForkInv
    <2>6. TreeInv' /\ WaitInv' /\ PidInv'
      BY <2>2 DEF ProcInv, TreeInv, WaitInv, PidInv
    <2> QED BY <2>3, <2>4, <2>5, <2>6 DEF ProcInv
  <1> QED BY <1>2, <1>3

\* The scheduler gives up the lock that came back to it from sched().
LEMMA KeepsSchedulerBack ==
  ASSUME ProcInv, NEW c \in CPUS, scheduler_back(c)
  PROVE  ProcInv'
PROOF
  <1>1. PICK t \in Slots : sidx' = [sidx EXCEPT ![c] = t]
    BY Zenon, Wrap DEF ProcInv, TypeOK, scheduler_back
  <1>a. /\ ctx[c] = "sched" /\ cproc[c] # None
        /\ cproc' = [cproc EXCEPT ![c] = None]
        /\ lock' = [lock EXCEPT ![sidx[c]] = Free]
        /\ UNCHANGED <<state, pid, parent, chan, killed, nextpid, wait_lock,
                       ctx, pc, idx, arg, havekids, targets>>
    BY Zenon DEF scheduler_back, tvars, pvars
  <1>b. cproc[c] \in Slots /\ sidx[c] = cproc[c]
    BY <1>a DEF ProcInv, TypeOK, CpuInv
  <1>2. /\ ctx[c] = "sched" /\ cproc[c] \in Slots /\ sidx[c] = cproc[c]
        /\ cproc' = [cproc EXCEPT ![c] = None]
        /\ lock' = [lock EXCEPT ![cproc[c]] = Free]
        /\ UNCHANGED <<state, pid, parent, chan, killed, nextpid, wait_lock,
                       ctx, pc, idx, arg, havekids, targets>>
    BY <1>a, <1>b
  <1>3. TypeOK'
    BY <1>1, <1>2 DEF ProcInv, TypeOK
  <1>4. CpuInv'
    <2>1. PICK s \in Slots : s = cproc[c]
      BY Zenon, <1>2
    <2>2. /\ cproc'[c] = None /\ \A d \in CPUS : d # c => cproc'[d] = cproc[d]
          /\ \A d \in CPUS : d # c => sidx'[d] = sidx[d]
          /\ lock'[s] = Free /\ \A q \in Slots : q # s => lock'[q] = lock[q]
      BY Zenon, <1>1, <1>2, <2>1 DEF ProcInv, TypeOK
    <2>3. /\ \A d \in CPUS : cproc[d] = s => d = c
          /\ state[s] # "RUNNING"
      BY Zenon, <1>2, <2>1 DEF ProcInv, CpuInv
    <2>4. ASSUME NEW d \in CPUS
          PROVE  /\ ctx'[d] # "sched" => cproc'[d] \in Slots
                 /\ cproc'[d] \in Slots =>
                      /\ sidx'[d] = cproc'[d]
                      /\ IF ctx'[d] = "sched"
                         THEN state'[cproc'[d]] \in {"RUNNABLE", "SLEEPING", "ZOMBIE"}
                         ELSE state'[cproc'[d]] = "RUNNING"
      <3>1. CASE d = c
        BY Zenon, <1>2, <2>2, <3>1, Constants
      <3>2. CASE d # c
        <4>1. /\ ctx[d] # "sched" => cproc[d] \in Slots
              /\ cproc[d] \in Slots =>
                   /\ sidx[d] = cproc[d]
                   /\ IF ctx[d] = "sched"
                      THEN state[cproc[d]] \in {"RUNNABLE", "SLEEPING", "ZOMBIE"}
                      ELSE state[cproc[d]] = "RUNNING"
          BY DEF ProcInv, CpuInv
        <4>2. /\ cproc'[d] = cproc[d] /\ sidx'[d] = sidx[d]
              /\ ctx' = ctx /\ state' = state
          BY Zenon, <1>2, <2>2, <3>2
        <4> QED BY <4>1, <4>2
      <3> QED BY Zenon, <3>1, <3>2
    <2>5. ASSUME NEW d \in CPUS, NEW q \in Slots
          PROVE  lock'[q] = d <=> cproc'[d] = q /\ ctx'[d] # "proc"
      <3>1. lock[q] = d <=> cproc[d] = q /\ ctx[d] # "proc"
        BY Zenon DEF ProcInv, CpuInv
      <3>2. CASE q = s
        BY Zenon, <2>2, <2>3, <3>2, Constants
      <3>3. CASE q # s
        BY Zenon, <1>2, <2>1, <2>2, <3>1, <3>3, Constants
      <3> QED BY Zenon, <3>2, <3>3
    <2>6. ASSUME NEW d \in CPUS, NEW e \in CPUS,
                 cproc'[d] \in Slots, cproc'[d] = cproc'[e]
          PROVE  d = e
      <3>1. d # c /\ e # c
        BY Zenon, <2>2, <2>6, Constants
      <3>2. cproc[d] \in Slots /\ cproc[d] = cproc[e]
        BY Zenon, <2>2, <2>6, <3>1
      <3> QED BY <3>2 DEF ProcInv, CpuInv
    <2>7. ASSUME NEW q \in Slots, state'[q] = "RUNNING"
          PROVE  \E d \in CPUS : cproc'[d] = q
      <3>1. state[q] = "RUNNING" /\ q # s
        BY Zenon, <1>2, <2>3, <2>7
      <3>2. PICK d \in CPUS : cproc[d] = q
        BY Zenon, <3>1 DEF ProcInv, CpuInv
      <3> QED BY Zenon, <2>1, <2>2, <3>1, <3>2
    <2> QED BY Zenon, <2>4, <2>5, <2>6, <2>7 DEF CpuInv
  <1>5. PcInv'
    BY <1>2 DEF ProcInv, TypeOK, PcInv
  <1>6. ForkInv' /\ TreeInv'
    BY <1>2 DEF ProcInv, ForkInv, TreeInv
  <1>7. WaitInv' /\ PidInv'
    BY <1>2, WaitKept, PidKept
  <1> QED BY <1>3, <1>4, <1>5, <1>6, <1>7 DEF ProcInv

\* A process that goes on after swtch() releases its lock.
LEMMA KeepsResume ==
  ASSUME ProcInv, NEW c \in CPUS, resume(c)
  PROVE  ProcInv'
PROOF
  <1> DEFINE p == cproc[c]
  <1>0. /\ p \in Slots /\ state[p] = "RUNNING"
        /\ \A d \in CPUS : cproc[d] = p => d = c
    BY Acting DEF resume
  <1>1. /\ ctx[c] = "resume"
        /\ ctx' = [ctx EXCEPT ![c] = "proc"]
        /\ lock' = [lock EXCEPT ![p] = Free]
        /\ chan' = [chan EXCEPT ![p] = None]
        /\ UNCHANGED <<state, pid, parent, killed, nextpid, wait_lock, cproc,
                       sidx, pc, idx, arg, havekids, targets>>
    BY DEF resume, pvars
  <1>2. TypeOK'
    BY <1>0, <1>1 DEF ProcInv, TypeOK
  <1>3. CpuInv'
    BY <1>0, <1>1, Constants DEF ProcInv, TypeOK, CpuInv
  <1>4. PcInv'
    BY <1>0, <1>1 DEF ProcInv, TypeOK, CpuInv, PcInv
  <1>5. ForkInv' /\ TreeInv'
    BY <1>1 DEF ProcInv, ForkInv, TreeInv
  <1>6. WaitInv' /\ PidInv'
    BY <1>1 DEF ProcInv, WaitInv, PidInv
  <1> QED BY <1>2, <1>3, <1>4, <1>5, <1>6 DEF ProcInv

\* yield(): the process is RUNNABLE again, its lock goes to the scheduler.
LEMMA KeepsYield ==
  ASSUME ProcInv, NEW c \in CPUS, yield(c)
  PROVE  ProcInv'
PROOF
  <1> DEFINE p == cproc[c]
             l == IF pc[p] = "yield" THEN "user" ELSE pc[p]
  <1>0. /\ p \in Slots /\ state[p] = "RUNNING" /\ ctx[c] = "proc"
        /\ \A d \in CPUS : cproc[d] = p => d = c
        /\ pc[p] \in Preemptible /\ l \in Preemptible
    BY Acting DEF yield, Preemptible
  <1>1. /\ lock[p] = Free /\ lock' = [lock EXCEPT ![p] = c]
        /\ state' = [state EXCEPT ![p] = "RUNNABLE"]
        /\ ctx' = [ctx EXCEPT ![c] = "sched"]
        /\ pc' = [pc EXCEPT ![p] = l]
        /\ UNCHANGED <<pid, parent, chan, killed, nextpid, wait_lock, cproc,
                       sidx, idx, arg, havekids, targets>>
    BY <1>0 DEF yield, SwitchOut, At, Goto
  <1>2. /\ l \in PCs /\ l \notin Holding /\ l # "dead" /\ pc[p] \notin Holding
        /\ l \in {"fork_parent", "fork_run"} => l = pc[p]
    BY <1>0, Points
  <1> HIDE DEF l
  <1>3. TypeOK'
    BY <1>0, <1>1, <1>2 DEF ProcInv, TypeOK
  <1>4. CpuInv'
    BY Zenon, <1>0, <1>1, SwitchedOut
  <1>5. PcInv'
    BY <1>0, <1>1, <1>2 DEF ProcInv, TypeOK, CpuInv, PcInv
  <1>6. ForkInv'
    BY <1>0, <1>1, <1>2 DEF ProcInv, TypeOK, ForkInv
  <1>7. TreeInv'
    BY <1>0, <1>1, <1>2
       DEF ProcInv, TypeOK, TreeInv, Live, Holding, Exiting
  <1>8. WaitInv'
    BY <1>0, <1>1, <1>2
       DEF ProcInv, TypeOK, WaitInv, Holding, Waiting, Exiting
  <1>9. PidInv'
    BY <1>0, <1>1 DEF ProcInv, TypeOK, PidInv
  <1> QED BY <1>3, <1>4, <1>5, <1>6, <1>7, <1>8, <1>9 DEF ProcInv

\* The traps from user space and the way back touch their process alone.
LEMMA KeepsTraps ==
  ASSUME ProcInv, NEW c \in CPUS,
         \/ timer(c) \/ fault(c) \/ usertrapret(c)
         \/ \E call \in Calls, a \in KillPids \union {0} : syscall(c, call, a)
  PROVE  ProcInv'
PROOF
  <1> DEFINE p == cproc[c]
  <1>0. p \in Slots /\ ctx[c] = "proc" /\ pc[p] \in {"user", "sysret"}
    BY Acting DEF timer, fault, usertrapret, syscall, At
  <1>1. pc[p] \in Preemptible
    BY <1>0 DEF Preemptible
  <1>2. CASE timer(c)
    <2>1. PICK l \in {"exit", "yield"} : pc' = [pc EXCEPT ![p] = l]
      BY Zenon, <1>2 DEF timer, UnlessKilled, Goto
    <2>2. l \in Preemptible \ {"fork_parent", "fork_run"}
      BY DEF Preemptible
    <2>3. UNCHANGED <<tvars, lvars, cvars, idx, arg, havekids, targets>>
      BY <1>2 DEF timer
    <2> QED
      BY Zenon, <1>0, <1>1, <2>1, <2>2, <2>3, Private DEF ProcInv, TypeOK, tvars
  <1>3. CASE fault(c)
    <2>1. /\ pc' = [pc EXCEPT ![p] = "sysret"]
          /\ killed' = [killed EXCEPT ![p] = TRUE]
          /\ targets' = targets \union {pid[p]}
          /\ UNCHANGED <<state, pid, parent, chan, nextpid, lvars, cvars, idx,
                         arg, havekids>>
      BY <1>3 DEF fault, Goto
    <2>2. "sysret" \in Preemptible \ {"fork_parent", "fork_run"}
      BY DEF Preemptible
    <2>3. killed' \in [Slots -> BOOLEAN] /\ targets' \subseteq Nat
      <3>1. killed \in [Slots -> BOOLEAN] /\ targets \subseteq Nat /\ pid[p] \in Nat
        BY <1>0 DEF ProcInv, TypeOK
      <3>2. killed' \in [Slots -> BOOLEAN]
        BY Zenon, <2>1, <3>1
      <3>3. targets' \subseteq Nat
        BY Zenon, <2>1, <3>1
      <3> QED BY <3>2, <3>3
    <2> QED
      BY Zenon, <1>0, <1>1, <2>1, <2>2, <2>3, Private DEF ProcInv, TypeOK
  <1>4. CASE usertrapret(c)
    <2>1. PICK l \in {"exit", "user"} : pc' = [pc EXCEPT ![p] = l]
      BY Zenon, <1>4 DEF usertrapret, UnlessKilled, Goto
    <2>2. l \in Preemptible \ {"fork_parent", "fork_run"}
      BY DEF Preemptible
    <2>3. /\ arg' = [arg EXCEPT ![p] = 0]
          /\ idx' = [idx EXCEPT ![p] = 0]
          /\ havekids' = [havekids EXCEPT ![p] = FALSE]
          /\ UNCHANGED <<tvars, lvars, cvars, targets>>
      BY <1>4 DEF usertrapret
    <2>4. /\ idx' \in [Slots -> 0..NPROC] /\ arg' \in [Slots -> Nat]
          /\ havekids' \in [Slots -> BOOLEAN]
          /\ \A q \in Slots \ {p} : /\ idx'[q] = idx[q] /\ arg'[q] = arg[q]
                                    /\ havekids'[q] = havekids[q]
      BY <1>0, <2>3, Constants DEF ProcInv, TypeOK
    <2> QED
      BY Zenon, <1>0, <1>1, <2>1, <2>2, <2>3, <2>4, Private
         DEF ProcInv, TypeOK, tvars
  <1>5. CASE \E call \in Calls, a \in KillPids \union {0} :
               syscall(c, call, a)
    <2>1. PICK call \in Calls, a \in KillPids \union {0} : syscall(c, call, a)
      BY <1>5
    <2>2. PICK l \in Calls : pc' = [pc EXCEPT ![p] = l]
      BY Zenon, <2>1 DEF syscall, UnlessKilled, Goto, Calls
    <2>3. l \in Preemptible \ {"fork_parent", "fork_run"}
      BY DEF Preemptible, Calls
    <2>4. /\ arg' = [arg EXCEPT ![p] = a]
          /\ idx' = [idx EXCEPT ![p] = 0]
          /\ UNCHANGED <<tvars, lvars, cvars, havekids, targets>>
      BY <2>1 DEF syscall
    <2>5. /\ idx' \in [Slots -> 0..NPROC] /\ arg' \in [Slots -> Nat]
          /\ \A q \in Slots \ {p} : idx'[q] = idx[q] /\ arg'[q] = arg[q]
      BY <1>0, <2>4, Constants DEF ProcInv, TypeOK
    <2> QED
      BY Zenon, <1>0, <1>1, <2>2, <2>3, <2>4, <2>5, Private
         DEF ProcInv, TypeOK, tvars
  <1> QED BY <1>2, <1>3, <1>4, <1>5

\* allocproc() takes a free slot for its fork(), or finds none.
LEMMA KeepsAllocproc ==
  ASSUME ProcInv, NEW c \in CPUS, allocproc(c)
  PROVE  ProcInv'
PROOF
  <1>0. PICK p \in Slots :
          /\ p = cproc[c]
          /\ state[p] = "RUNNING" /\ ctx[c] = "proc"
          /\ \A d \in CPUS : cproc[d] = p => d = c
          /\ pc[p] = "fork"
    BY Acting DEF allocproc, At, ProcInv, TypeOK
  <1>s. PICK s \in 0..NPROC : s = idx[p]
    BY DEF ProcInv, TypeOK
  <1>1. /\ pc[p] \in Preemptible
        /\ {"fork", "sysret"} \subseteq Preemptible \ {"fork_parent", "fork_run"}
    BY <1>0 DEF Preemptible
  <1>2. CASE s = NPROC
    <2>1. /\ pc' = [pc EXCEPT ![p] = "sysret"]
          /\ UNCHANGED <<tvars, lvars, cvars, idx, arg, havekids, targets>>
      BY <1>s, <1>0, <1>2 DEF allocproc, Goto
    <2> QED BY Zenon, <1>0, <1>1, <2>1, Private DEF ProcInv, TypeOK, tvars
  <1>3. CASE s # NPROC /\ state[s] # "UNUSED"
    <2>1. /\ pc' = [pc EXCEPT ![p] = "fork"]
          /\ idx' = [idx EXCEPT ![p] = s + 1]
          /\ UNCHANGED <<tvars, lvars, cvars, arg, havekids, targets>>
      BY <1>s, <1>0, <1>3 DEF allocproc, ProcInv, TypeOK
    <2>2. idx' \in [Slots -> 0..NPROC] /\ \A q \in Slots \ {p} : idx'[q] = idx[q]
      <3>1. s + 1 \in 0..NPROC
        <4>1. s # NPROC /\ NPROC \in Nat
          BY <1>3, Constants
        <4> QED BY <4>1
      <3> QED BY <2>1, <3>1 DEF ProcInv, TypeOK
    <2> QED BY Zenon, <1>0, <1>1, <2>1, <2>2, Private DEF ProcInv, TypeOK, tvars
  <1>4. CASE s # NPROC /\ state[s] = "UNUSED"
    <2>1. s \in Slots /\ s # p /\ s # initproc /\ parent[s] = None
      BY <1>0, <1>4, Constants DEF ProcInv, TreeInv, Live
    <2>2. /\ \A d \in CPUS : cproc[d] # s
          /\ pc[s] \in {"user", "dead"} /\ \A t \in Slots : parent[t] # s
          /\ \A q \in Slots : pc[q] \in {"fork_parent", "fork_run"} => arg[q] # s
      BY <1>4, <2>1
         DEF ProcInv, TypeOK, CpuInv, PcInv, ForkInv, TreeInv, Live
    <2>3. nextpid' = nextpid + 1 /\ UNCHANGED <<lock, wait_lock, cproc, ctx,
                                               sidx, havekids, targets>>
      BY <1>0, <1>s, <1>4 DEF allocproc, allocpid, lvars, cvars
    <2>4. CASE /\ pid' = [pid EXCEPT ![s] = nextpid]
               /\ state' = [state EXCEPT ![s] = "USED"]
               /\ pc' = [pc EXCEPT ![p] = "fork_parent", ![s] = "user"]
               /\ arg' = [arg EXCEPT ![p] = s, ![s] = 0]
               /\ idx' = [idx EXCEPT ![s] = 0]
               /\ UNCHANGED <<parent, chan, killed>>
      <3>1. /\ pc'[p] = "fork_parent" /\ pc'[s] = "user"
            /\ \A q \in Slots : q # p /\ q # s => pc'[q] = pc[q]
            /\ arg'[p] = s /\ \A q \in Slots : q # p /\ q # s => arg'[q] = arg[q]
            /\ \A q \in Slots : q # s => idx'[q] = idx[q] /\ pid'[q] = pid[q]
            /\ state'[s] = "USED" /\ pid'[s] = nextpid
            /\ \A q \in Slots : q # s => state'[q] = state[q]
        BY <1>0, <2>1, <2>4 DEF ProcInv, TypeOK
      <3>2. TypeOK'
        BY <1>0, <2>1, <2>3, <2>4, Constants
           DEF ProcInv, TypeOK, PCs, Preemptible
      <3>3. CpuInv'
        BY <1>0, <2>2, <2>3, <3>1 DEF ProcInv, TypeOK, CpuInv
      <3>a. /\ pc[p] \notin Holding /\ pc'[p] \notin Holding
            /\ pc[s] \notin Holding /\ pc'[s] \notin Holding
        BY <1>0, <2>2, <3>1 DEF Holding, Waiting, Exiting
      <3>4. PcInv'
        <4>1. ASSUME NEW d \in CPUS
              PROVE  wait_lock' = d <=> ctx'[d] = "proc" /\ pc'[cproc'[d]] \in Holding
          <5>1. wait_lock = d <=> ctx[d] = "proc" /\ pc[cproc[d]] \in Holding
            BY DEF ProcInv, PcInv
          <5>2. ctx[d] = "proc" => cproc[d] \in Slots /\ cproc[d] # s
            BY <2>2 DEF ProcInv, CpuInv
          <5> QED BY <2>3, <3>1, <3>a, <5>1, <5>2
        <4>2. ASSUME NEW q \in Slots
              PROVE  /\ pc'[q] \in Holding =>
                          \E d \in CPUS : cproc'[d] = q /\ ctx'[d] = "proc"
                     /\ state'[q] \in {"UNUSED", "ZOMBIE"} =>
                          pc'[q] \in {"user", "dead"}
                     /\ state'[q] = "USED" => pc'[q] = "user"
                     /\ state'[q] = "SLEEPING" => pc'[q] = "wait" /\ chan'[q] = q
                     /\ pc'[q] = "dead" => state'[q] \in {"UNUSED", "ZOMBIE"}
          <5>1. CASE q \in {p, s}
            BY <1>0, <2>1, <3>1, <3>a, <5>1
          <5>2. CASE q \notin {p, s}
            <6>1. /\ pc'[q] = pc[q] /\ state'[q] = state[q] /\ chan'[q] = chan[q]
                  /\ cproc' = cproc /\ ctx' = ctx
              BY Zenon, <2>3, <2>4, <3>1, <5>2
            <6> QED BY <6>1 DEF ProcInv, PcInv
          <5> QED BY <5>1, <5>2
        <4> QED BY Zenon, <4>1, <4>2 DEF PcInv
      <3>5. ForkInv'
        <4>1. ASSUME NEW q \in Slots, pc'[q] \in {"fork_parent", "fork_run"}
              PROVE  /\ arg'[q] \in Slots /\ state'[arg'[q]] = "USED"
                     /\ parent'[arg'[q]] =
                          IF pc'[q] = "fork_parent" THEN None ELSE q
          <5>1. CASE q = p
            BY <2>1, <2>4, <3>1, <5>1
          <5>2. CASE q # p
            <6>1. q # s /\ pc'[q] = pc[q] /\ arg'[q] = arg[q] /\ arg[q] # s
              BY <2>2, <3>1, <4>1, <5>2
            <6> QED BY <2>4, <3>1, <4>1, <6>1 DEF ProcInv, ForkInv
          <5> QED BY <5>1, <5>2
        <4>2. ASSUME NEW q \in Slots, NEW r \in Slots,
                     pc'[q] \in {"fork_parent", "fork_run"},
                     pc'[r] \in {"fork_parent", "fork_run"}, arg'[q] = arg'[r]
              PROVE  q = r
          <5>1. q # s /\ r # s
            BY <3>1, <4>2
          <5> QED BY <2>2, <3>1, <4>2, <5>1 DEF ProcInv, ForkInv
        <4> QED BY Zenon, <4>1, <4>2 DEF ForkInv
      <3>6. TreeInv'
        BY <1>0, <2>1, <2>2, <2>4, <3>1, Constants
           DEF ProcInv, TypeOK, TreeInv, Live, Exiting
      <3>7. WaitInv'
        <4>1. \A q \in Slots : state'[q] \in {"ZOMBIE", "SLEEPING"} =>
                                state'[q] = state[q]
          BY <3>1
        <4>2. ASSUME NEW q \in Slots, pc[q] \in Holding \/ pc'[q] \in Holding
              PROVE  /\ pc'[q] = pc[q] /\ idx'[q] = idx[q]
                     /\ arg'[q] = arg[q] /\ havekids'[q] = havekids[q]
          BY <2>3, <3>1, <3>a, <4>2
        <4> QED BY Zenon, <2>4, <4>1, <4>2, WaitKept
      <3>8. PidInv'
        BY <2>1, <2>3, <3>1 DEF ProcInv, TypeOK, PidInv
      <3> QED BY <3>2, <3>3, <3>4, <3>5, <3>6, <3>7, <3>8 DEF ProcInv
    <2>5. CASE freeproc(s) /\ Goto(p, "sysret") /\ UNCHANGED <<arg, idx>>
      <3>1. /\ pid' = [pid EXCEPT ![s] = 0]
            /\ chan' = [chan EXCEPT ![s] = None]
            /\ killed' = [killed EXCEPT ![s] = FALSE]
            /\ pc' = [pc EXCEPT ![p] = "sysret"]
            /\ UNCHANGED <<state, parent, arg, idx>>
        BY <1>4, <2>1, <2>5 DEF freeproc, Goto, ProcInv, TypeOK
      <3>2. TypeOK'
        BY <2>1, <2>3, <3>1 DEF ProcInv, TypeOK, PCs, Preemptible
      <3>3. CpuInv'
        BY <2>3, <3>1 DEF ProcInv, CpuInv
      <3>4. PcInv'
        BY <1>0, <1>4, <2>3, <3>1
           DEF ProcInv, TypeOK, CpuInv, PcInv, Holding, Waiting, Exiting
      <3>5. ForkInv' /\ TreeInv'
        BY <1>0, <3>1 DEF ProcInv, TypeOK, ForkInv, TreeInv, Exiting
      <3>6. WaitInv'
        <4>1. ASSUME NEW q \in Slots, pc[q] \in Holding \/ pc'[q] \in Holding
              PROVE  pc'[q] = pc[q]
          BY <1>0, <3>1, <4>1 DEF ProcInv, TypeOK, Holding, Waiting, Exiting
        <4> QED BY <2>3, <3>1, <4>1, WaitKept
      <3>7. PidInv'
        BY <1>4, <2>1, <2>3, <3>1 DEF ProcInv, TypeOK, PidInv
      <3> QED BY <3>2, <3>3, <3>4, <3>5, <3>6, <3>7 DEF ProcInv
    <2> QED BY <1>0, <1>s, <1>4, <2>4, <2>5 DEF allocproc
  <1> QED BY <1>2, <1>3, <1>4

\* fork() makes itself the parent of its slot, while nobody holds wait_lock.
LEMMA KeepsForkParent ==
  ASSUME ProcInv, NEW c \in CPUS, fork_parent(c)
  PROVE  ProcInv'
PROOF
  <1> DEFINE p == cproc[c]
             s == arg[p]
  <1>0. /\ p \in Slots /\ state[p] = "RUNNING" /\ pc[p] = "fork_parent"
        /\ \A d \in CPUS : cproc[d] = p => d = c
    BY Acting DEF fork_parent, At
  <1>1. /\ s \in Slots /\ state[s] = "USED" /\ parent[s] = None
        /\ \A q \in Slots : q # p /\ pc[q] \in {"fork_parent", "fork_run"}
                              => arg[q] # s
    BY <1>0 DEF ProcInv, ForkInv
  <1>2. /\ parent' = [parent EXCEPT ![s] = p]
        /\ pc' = [pc EXCEPT ![p] = "fork_run"]
        /\ UNCHANGED <<state, pid, chan, killed, nextpid, lock, wait_lock,
                       cproc, ctx, sidx, idx, arg, havekids, targets>>
    BY DEF fork_parent, Goto, lvars, cvars
  <1>3. \A q \in Slots : pc[q] \notin Holding
    BY Holder, Constants DEF fork_parent
  <1>4. TypeOK'
    BY <1>0, <1>1, <1>2 DEF ProcInv, TypeOK, PCs, Preemptible
  <1>5. CpuInv' /\ PidInv'
    BY Zenon, <1>2, CpuKept, PidKept
  <1>6. PcInv'
    BY <1>0, <1>2
       DEF ProcInv, TypeOK, CpuInv, PcInv, Holding, Waiting, Exiting
  <1>7. ForkInv'
    BY <1>0, <1>1, <1>2, Constants DEF ProcInv, TypeOK, ForkInv
  <1>8. TreeInv'
    BY <1>0, <1>1, <1>2, <1>3, Constants
       DEF ProcInv, TypeOK, TreeInv, Live, Holding, Exiting
  <1>9. WaitInv'
    <2>1. \A q \in Slots : pc'[q] \notin Holding
      BY <1>0, <1>2, <1>3 DEF ProcInv, TypeOK, Holding, Waiting, Exiting
    <2>2. ASSUME NEW q \in Slots, state[q] = "SLEEPING"
          PROVE  \A t \in Slots : parent'[t] = q <=> parent[t] = q
      BY <1>0, <1>1, <1>2, <2>2, Constants DEF ProcInv, TypeOK
    <2>3. \A q \in Slots : pc[q] # "wake_init"
      BY <1>3 DEF Holding, Exiting
    <2> QED
      BY <1>2, <2>1, <2>2, <2>3
         DEF ProcInv, WaitInv, Holding, Waiting, Exiting
  <1> QED BY <1>4, <1>5, <1>6, <1>7, <1>8, <1>9 DEF ProcInv

\* fork() lets its slot run.
LEMMA KeepsForkRun ==
  ASSUME ProcInv, NEW c \in CPUS, fork_run(c)
  PROVE  ProcInv'
PROOF
  <1>0. PICK p \in Slots :
          /\ p = cproc[c] /\ state[p] = "RUNNING" /\ pc[p] = "fork_run"
          /\ \A d \in CPUS : cproc[d] = p => d = c
    BY ZenonT(30), Acting DEF fork_run, At
  <1>1. PICK s \in Slots :
          /\ s = arg[p] /\ state[s] = "USED" /\ parent[s] = p
          /\ \A q \in Slots : q # p /\ pc[q] \in {"fork_parent", "fork_run"}
                                => arg[q] # s
    BY <1>0 DEF ProcInv, ForkInv
  <1>2. /\ state' = [state EXCEPT ![s] = "RUNNABLE"]
        /\ pc' = [pc EXCEPT ![p] = "sysret"]
        /\ UNCHANGED <<pid, parent, chan, killed, nextpid, lock, wait_lock,
                       cproc, ctx, sidx, idx, arg, havekids, targets>>
    BY Zenon, <1>0, <1>1 DEF fork_run, Goto, lvars, cvars
  <1>3. /\ state'[s] = "RUNNABLE" /\ \A q \in Slots : q # s => state'[q] = state[q]
        /\ pc'[p] = "sysret" /\ \A q \in Slots : q # p => pc'[q] = pc[q]
    BY Zenon, <1>2 DEF ProcInv, TypeOK
  <1>4. s # p /\ pc[s] = "user" /\ \A d \in CPUS : cproc[d] # s
    <2>1. pc[s] = "user"
      BY <1>1 DEF ProcInv, PcInv
    <2>2. \A d \in CPUS : cproc[d] # s
      BY <1>1 DEF ProcInv, CpuInv
    <2> QED BY <1>0, <1>1, <2>1, <2>2
  <1>5. TypeOK'
    <2>1. pc' \in [Slots -> PCs]
      BY <1>2 DEF ProcInv, TypeOK, PCs, Preemptible
    <2>2. state' \in [Slots -> {"UNUSED", "USED", "SLEEPING", "RUNNABLE",
                                "RUNNING", "ZOMBIE"}]
      BY <1>2 DEF ProcInv, TypeOK
    <2> QED BY Zenon, <1>2, <2>1, <2>2 DEF ProcInv, TypeOK
  <1>6. CpuInv'
    BY <1>2, <1>3, <1>4 DEF ProcInv, CpuInv
  <1>7. PcInv'
    <2>1. \A q \in Slots : pc'[q] \in Holding <=> pc[q] \in Holding
      BY <1>0, <1>3 DEF Holding, Waiting, Exiting
    <2>2. ASSUME NEW q \in Slots
          PROVE  /\ state'[q] \in {"UNUSED", "ZOMBIE"} => pc'[q] \in {"user", "dead"}
                 /\ state'[q] = "USED" => pc'[q] = "user"
                 /\ state'[q] = "SLEEPING" => pc'[q] = "wait" /\ chan'[q] = q
                 /\ pc'[q] = "dead" => state'[q] \in {"UNUSED", "ZOMBIE"}
      <3>1. CASE q \in {p, s}
        BY <1>0, <1>3, <1>4, <3>1
      <3>2. CASE q \notin {p, s}
        BY <1>2, <1>3, <3>2 DEF ProcInv, PcInv
      <3> QED BY <3>1, <3>2
    <2> QED BY <1>2, <2>1, <2>2, PcKept
  <1>8. ForkInv'
    <2>1. ASSUME NEW q \in Slots, pc'[q] \in {"fork_parent", "fork_run"}
          PROVE  /\ q # p /\ pc'[q] = pc[q]
                 /\ arg[q] \in Slots /\ arg[q] # s /\ state[arg[q]] = "USED"
                 /\ parent[arg[q]] = IF pc[q] = "fork_parent" THEN None ELSE q
      <3>1. q # p /\ pc'[q] = pc[q]
        BY <1>3, <2>1
      <3> QED BY <1>1, <2>1, <3>1 DEF ProcInv, ForkInv
    <2>2. ASSUME NEW q \in Slots, pc'[q] \in {"fork_parent", "fork_run"}
          PROVE  /\ arg'[q] \in Slots /\ state'[arg'[q]] = "USED"
                 /\ parent'[arg'[q]] = IF pc'[q] = "fork_parent" THEN None ELSE q
      BY <1>2, <1>3, <2>1, <2>2
    <2>3. ASSUME NEW q \in Slots, NEW r \in Slots,
                 pc'[q] \in {"fork_parent", "fork_run"},
                 pc'[r] \in {"fork_parent", "fork_run"}, arg'[q] = arg'[r]
          PROVE  q = r
      <3>1. pc'[q] = pc[q] /\ pc'[r] = pc[r]
        BY <2>1, <2>3
      <3> QED BY <1>2, <2>3, <3>1 DEF ProcInv, ForkInv
    <2> QED BY Zenon, <2>2, <2>3 DEF ForkInv
  <1>9. TreeInv'
    <2>1. ASSUME NEW q \in Slots, pc'[q] \in Exiting
          PROVE  pc'[q] = pc[q]
      BY <1>3, <2>1 DEF Exiting
    <2>2. \A q \in Slots :
            /\ pc'[q] \in Exiting => q # initproc
            /\ pc'[q] \in {"wake_parent", "zombie"} =>
                 \A t \in Slots : parent'[t] # q
      BY <1>2, <2>1 DEF ProcInv, TreeInv, Exiting
    <2>3. ASSUME NEW q \in Slots
          PROVE  /\ state'[q] = "UNUSED" => parent'[q] = None
                 /\ parent'[q] \in Slots => state'[parent'[q]] \in Live
                 /\ q # initproc /\ state'[q] \in Live \union {"ZOMBIE"} =>
                      parent'[q] \in Slots
      BY <1>1, <1>2, <1>3 DEF ProcInv, TreeInv, Live
    <2>4. parent'[initproc] = None /\ state'[initproc] \in Live
      BY <1>1, <1>2, <1>3, Constants DEF ProcInv, TreeInv, Live
    <2> QED BY Zenon, <2>2, <2>3, <2>4 DEF TreeInv
  <1>10. WaitInv'
    <2>1. ASSUME NEW q \in Slots, pc[q] \in Holding \/ pc'[q] \in Holding
          PROVE  pc'[q] = pc[q]
      BY <1>0, <1>3, <2>1 DEF Holding, Waiting, Exiting
    <2>2. \A q \in Slots : state'[q] \in {"ZOMBIE", "SLEEPING"} =>
                            state'[q] = state[q]
      BY <1>3
    <2> QED BY <1>2, <2>1, <2>2, WaitKept
  <1>11. PidInv'
    BY <1>1, <1>2, <1>3, PidKept
  <1> QED BY <1>5, <1>6, <1>7, <1>8, <1>9, <1>10, <1>11 DEF ProcInv

\* exit() takes wait_lock; init panics instead.
LEMMA KeepsExit ==
  ASSUME ProcInv, NEW c \in CPUS, exit(c)
  PROVE  ProcInv'
PROOF
  <1> DEFINE p == cproc[c]
  <1>0. /\ p \in Slots /\ state[p] = "RUNNING" /\ ctx[c] = "proc"
        /\ \A d \in CPUS : cproc[d] = p => d = c
        /\ pc[p] = "exit"
    BY Zenon, Acting DEF exit, At
  <1>1. CASE p = initproc
    <2>1. /\ pc' = [pc EXCEPT ![p] = "panic"]
          /\ UNCHANGED <<tvars, lvars, cvars, idx, arg, havekids, targets>>
      BY <1>1 DEF exit, Goto, lvars
    <2>2. /\ "exit" \in Preemptible
          /\ "panic" \in Preemptible \ {"fork_parent", "fork_run"}
      BY DEF Preemptible
    <2> QED BY Zenon, <1>0, <2>1, <2>2, Private DEF ProcInv, TypeOK, tvars
  <1>2. CASE p # initproc
    <2>1. /\ wait_lock = Free /\ wait_lock' = c
          /\ pc' = [pc EXCEPT ![p] = "reparent"]
          /\ UNCHANGED <<state, pid, parent, chan, killed, nextpid, lock, cproc,
                         ctx, sidx, idx, arg, havekids, targets>>
      BY <1>2 DEF exit, Goto, tvars, cvars
    <2>2. \A q \in Slots : pc[q] \notin Holding
      BY <2>1, Holder, Constants
    <2>3. TypeOK'
      BY <1>0, <2>1 DEF ProcInv, TypeOK, PCs
    <2>4. CpuInv' /\ PidInv'
      BY Zenon, <2>1, CpuKept, PidKept
    <2>5. PcInv'
      <3>1. pc'[p] = "reparent" /\ \A q \in Slots : q # p => pc'[q] = pc[q]
        BY Zenon, <1>0, <2>1 DEF ProcInv, TypeOK
      <3>2. \A q \in Slots : pc'[q] \in Holding <=> q = p
        BY Zenon, <2>2, <3>1 DEF Holding, Exiting
      <3>3. ASSUME NEW d \in CPUS
            PROVE  wait_lock' = d <=> ctx'[d] = "proc" /\ pc'[cproc'[d]] \in Holding
        <4>1. ctx[d] = "proc" => cproc[d] \in Slots
          BY Zenon DEF ProcInv, CpuInv
        <4>2. wait_lock' = d <=> d = c
          BY Zenon, <2>1
        <4>3. ctx[d] = "proc" /\ pc'[cproc[d]] \in Holding <=> d = c
          BY Zenon, <1>0, <3>2, <4>1
        <4> QED BY Zenon, <2>1, <4>2, <4>3
      <3>4. ASSUME NEW q \in Slots
            PROVE  /\ state'[q] \in {"UNUSED", "ZOMBIE"} => pc'[q] \in {"user", "dead"}
                   /\ state'[q] = "USED" => pc'[q] = "user"
                   /\ state'[q] = "SLEEPING" => pc'[q] = "wait" /\ chan'[q] = q
                   /\ pc'[q] = "dead" => state'[q] \in {"UNUSED", "ZOMBIE"}
        <4>1. CASE q = p
          <5>1. pc'[q] = "reparent" /\ state'[q] = "RUNNING"
            BY Zenon, <1>0, <2>1, <3>1, <4>1
          <5> QED BY <5>1
        <4>2. CASE q # p
          <5>1. /\ state[q] \in {"UNUSED", "ZOMBIE"} => pc[q] \in {"user", "dead"}
                /\ state[q] = "USED" => pc[q] = "user"
                /\ state[q] = "SLEEPING" => pc[q] = "wait" /\ chan[q] = q
                /\ pc[q] = "dead" => state[q] \in {"UNUSED", "ZOMBIE"}
            BY Zenon DEF ProcInv, PcInv
          <5>2. pc'[q] = pc[q] /\ state' = state /\ chan' = chan
            BY Zenon, <2>1, <3>1, <4>2
          <5> QED BY <5>1, <5>2
        <4> QED BY Zenon, <4>1, <4>2
      <3>5. \A q \in Slots : pc'[q] \in Holding =>
              \E d \in CPUS : cproc'[d] = q /\ ctx'[d] = "proc"
        BY Zenon, <1>0, <2>1, <3>2
      <3> QED BY Zenon, <3>3, <3>4, <3>5 DEF PcInv
    <2>6. ForkInv' /\ TreeInv'
      <3>1. pc'[p] = "reparent" /\ \A q \in Slots : q # p => pc'[q] = pc[q]
        BY Zenon, <1>0, <2>1 DEF ProcInv, TypeOK
      <3>2. \A q \in Slots : pc'[q] \in {"fork_parent", "fork_run"} => pc'[q] = pc[q]
        BY Zenon, <3>1
      <3>3. \A q \in Slots : pc'[q] \in Exiting => q = p
        BY Zenon, <2>2, <3>1 DEF Holding
      <3>4. \A q \in Slots : pc'[q] \notin {"wake_parent", "zombie"}
        BY Zenon, <3>1, <3>3 DEF Exiting
      <3>5. ForkInv'
        BY Zenon, <2>1, <3>2, ForkKept
      <3>6. TreeInv'
        BY Zenon, <1>2, <2>1, <3>3, <3>4, TreeKept
      <3> QED BY <3>5, <3>6
    <2>7. WaitInv'
      BY <1>0, <2>1 DEF ProcInv, TypeOK, WaitInv
    <2> QED BY <2>3, <2>4, <2>5, <2>6, <2>7 DEF ProcInv
  <1> QED BY <1>1, <1>2

\* A child goes to init, which is woken up next; or none is left.
LEMMA KeepsReparent ==
  ASSUME ProcInv, NEW c \in CPUS, reparent(c)
  PROVE  ProcInv'
PROOF
  <1>0. PICK p \in Slots :
          /\ p = cproc[c]
          /\ state[p] = "RUNNING" /\ ctx[c] = "proc"
          /\ \A d \in CPUS : cproc[d] = p => d = c
          /\ pc[p] = "reparent" /\ idx' = [idx EXCEPT ![p] = 0]
          /\ UNCHANGED <<state, pid, chan, killed, nextpid, lock, wait_lock, cproc,
               ctx, sidx, havekids, targets>>
    BY Zenon, Acting DEF reparent, At, lvars, cvars
  <1>1. /\ p # initproc /\ parent[p] \in Slots
        /\ \A q \in Slots : q # p => pc[q] \notin Holding
    BY Zenon, <1>0, Holder DEF ProcInv, TreeInv, Live, Holding, Exiting
  <1>2. CASE Children(p) # {}
    <2>1. PICK t \in Slots : /\ parent[t] = p
                             /\ parent' = [parent EXCEPT ![t] = initproc]
      BY Zenon, <1>0, <1>2 DEF reparent, Children
    <2>2. /\ arg' = [arg EXCEPT ![p] = initproc]
          /\ pc' = [pc EXCEPT ![p] = "wake_init"]
      BY Zenon, <1>0, <1>2 DEF reparent, Goto
    <2>3. TypeOK'
      BY <1>0, <2>1, <2>2, Constants DEF ProcInv, TypeOK, PCs
    <2>4. CpuInv' /\ PidInv'
      BY Zenon, <1>0, CpuKept, PidKept
    <2>5. PcInv'
      BY <1>0, <2>2
         DEF ProcInv, TypeOK, CpuInv, PcInv, Holding, Waiting, Exiting
    <2>6. ForkInv'
      BY <1>0, <2>1, <2>2, Constants DEF ProcInv, TypeOK, ForkInv
    <2>7. TreeInv'
      BY <1>0, <1>1, <2>1, <2>2, Constants
         DEF ProcInv, TypeOK, TreeInv, Live, Holding, Exiting
    <2>8. WaitInv'
      <3>1. /\ \A q \in Slots : q # p => pc'[q] = pc[q]
            /\ pc'[p] = "wake_init" /\ arg'[p] = initproc /\ idx'[p] = 0
            /\ parent'[t] = initproc
            /\ \A q \in Slots : q # t => parent'[q] = parent[q]
        BY <1>0, <2>1, <2>2 DEF ProcInv, TypeOK
      <3>2. \A q \in Slots : q # p => pc'[q] \notin Holding
        BY <1>1, <3>1
      <3>3. \A q \in Slots : q # p =>
              pc'[q] \notin {"scan", "sleep", "wake_init", "wake_parent", "zombie"}
        BY <3>2 DEF Holding, Waiting, Exiting
      <3>4. ASSUME NEW r \in Slots, state'[r] = "SLEEPING"
            PROVE  /\ \E u \in Slots : parent'[u] = r
                   /\ \A u \in Slots : parent'[u] = r /\ state'[u] = "ZOMBIE" =>
                        /\ r = initproc
                        /\ \E q \in Slots : pc'[q] = "wake_init" /\ idx'[q] = 0
        <4>1. state[r] = "SLEEPING" /\ r # p
          BY Zenon, <1>0, <3>4
        <4>2. PICK u \in Slots : parent[u] = r
          BY <4>1 DEF ProcInv, WaitInv
        <4>3. u # t
          BY <2>1, <4>1, <4>2
        <4>4. parent'[u] = r
          BY <3>1, <4>2, <4>3
        <4>5. ASSUME NEW v \in Slots, parent'[v] = r, state'[v] = "ZOMBIE"
              PROVE  r = initproc
          <5>1. CASE v = t
            BY <3>1, <4>5, <5>1
          <5>2. CASE v # t
            <6>1. parent[v] = r /\ state[v] = "ZOMBIE"
              BY <1>0, <3>1, <4>5, <5>2
            <6> QED BY <4>1, <6>1 DEF ProcInv, WaitInv
          <5> QED BY <5>1, <5>2
        <4> QED BY Zenon, <3>1, <4>4, <4>5
      <3>5. ASSUME NEW q \in Slots
            PROVE  /\ pc'[q] \notin {"scan", "sleep", "wake_parent", "zombie"}
                   /\ pc'[q] = "wake_init" => arg'[q] = initproc /\ ~(idx'[q] > 0)
        BY <3>1, <3>3
      <3> QED BY Zenon, <3>4, <3>5 DEF WaitInv
    <2> QED BY <2>3, <2>4, <2>5, <2>6, <2>7, <2>8 DEF ProcInv
  <1>3. CASE Children(p) = {}
    <2>1. /\ arg' = [arg EXCEPT ![p] = parent[p]]
          /\ pc' = [pc EXCEPT ![p] = "wake_parent"]
          /\ parent' = parent
          /\ \A t \in Slots : parent[t] # p
      BY <1>0, <1>3 DEF reparent, Goto, Children
    <2>2. TypeOK'
      BY <1>0, <1>1, <2>1, Constants DEF ProcInv, TypeOK, PCs
    <2>3. CpuInv' /\ PidInv'
      BY ZenonT(30), <1>0, CpuKept, PidKept
    <2>4. PcInv'
      BY <1>0, <2>1
         DEF ProcInv, TypeOK, CpuInv, PcInv, Holding, Waiting, Exiting
    <2>5. ForkInv' /\ TreeInv'
      BY <1>0, <1>1, <2>1 DEF ProcInv, TypeOK, ForkInv, TreeInv, Exiting
    <2>6. WaitInv'
      BY <1>0, <1>1, <2>1, Constants
         DEF ProcInv, TypeOK, WaitInv, Holding, Waiting, Exiting
    <2> QED BY <2>2, <2>3, <2>4, <2>5, <2>6 DEF ProcInv
  <1> QED BY <1>2, <1>3

\* One step of wakeup() in exit(): past init, or past the parent, neither
\* sleeps any more.
LEMMA KeepsWakeup ==
  ASSUME ProcInv, NEW c \in CPUS, wakeup(c)
  PROVE  ProcInv'
PROOF
  <1>0. PICK p \in Slots :
          /\ p = cproc[c]
          /\ state[p] = "RUNNING" /\ ctx[c] = "proc"
          /\ \A d \in CPUS : cproc[d] = p => d = c
          /\ pc[p] \in {"wake_init", "wake_parent"}
          /\ UNCHANGED <<pid, parent, chan, killed, nextpid, lock, wait_lock, cproc,
               ctx, sidx, arg, havekids, targets>>
    BY Acting DEF wakeup, At, lvars, cvars, ProcInv, TypeOK
  <1>s. PICK s \in 0..NPROC : s = idx[p]
    BY DEF ProcInv, TypeOK
  <1>1. /\ p # initproc /\ parent[p] \in Slots
        /\ \A q \in Slots : q # p => pc[q] \notin Holding
    BY Zenon, <1>0, Holder DEF ProcInv, TreeInv, Live, Holding, Exiting
  <1>2. CASE s = NPROC
    <2>1. /\ UNCHANGED <<state, idx>>
          /\ pc' = [pc EXCEPT ![p] = IF pc[p] = "wake_init" THEN "reparent"
                                     ELSE "zombie"]
      BY Zenon, <1>s, <1>0, <1>2 DEF wakeup, At, Goto
    <2>2. TypeOK'
      BY <1>0, <2>1 DEF ProcInv, TypeOK, PCs
    <2>3. CpuInv' /\ PidInv'
      BY ZenonT(30), <1>0, <2>1, CpuKept, PidKept
    <2>4. PcInv'
      BY <1>0, <2>1
         DEF ProcInv, TypeOK, CpuInv, PcInv, Holding, Waiting, Exiting
    <2>5. ForkInv' /\ TreeInv'
      BY <1>0, <1>1, <2>1 DEF ProcInv, TypeOK, ForkInv, TreeInv, Exiting
    <2>6. WaitInv'
      <3>1. /\ pc'[p] = IF pc[p] = "wake_init" THEN "reparent" ELSE "zombie"
            /\ \A q \in Slots : q # p => pc'[q] = pc[q]
        BY <2>1 DEF ProcInv, TypeOK
      <3>2. \A q \in Slots : pc'[q] \notin {"scan", "sleep", "wake_init", "wake_parent"}
        BY Zenon, <1>0, <1>1, <3>1 DEF Holding, Waiting, Exiting
      <3>3. ASSUME NEW q \in Slots, pc'[q] = "zombie"
            PROVE  state[parent[q]] # "SLEEPING"
        <4>1. q = p /\ pc[p] = "wake_parent"
          BY Zenon, <1>0, <1>1, <3>1, <3>3 DEF Holding, Exiting
        <4>2. parent[p] < idx[p]
          BY <1>s, <1>1, <1>2, Constants
        <4> QED BY <4>1, <4>2 DEF ProcInv, WaitInv
      <3>4. ASSUME NEW r \in Slots, state[r] = "SLEEPING"
            PROVE  /\ \E t \in Slots : parent[t] = r
                   /\ \A t \in Slots : parent[t] = r => state[t] # "ZOMBIE"
        <4>1. \A q \in Slots : ~(pc[q] = "wake_init" /\ idx[q] = 0)
          BY Zenon, <1>s, <1>1, <1>2, Constants DEF Holding, Exiting
        <4> QED BY <3>4, <4>1 DEF ProcInv, WaitInv
      <3> QED BY Zenon, <1>0, <2>1, <3>2, <3>3, <3>4 DEF WaitInv
    <2> QED BY <2>2, <2>3, <2>4, <2>5, <2>6 DEF ProcInv
  <1>3. CASE s # NPROC
    <2>a. /\ pc' = pc /\ idx' = [idx EXCEPT ![p] = s + 1]
          /\ s # p => lock[s] = Free
          /\ state' = [state EXCEPT ![s] =
               IF s # p /\ state[s] = "SLEEPING" /\ chan[s] = arg[p]
               THEN "RUNNABLE" ELSE state[s]]
      BY Zenon, <1>s, <1>0, <1>3 DEF wakeup
    <2>b. s \in Slots
      BY <1>3, Constants
    <2>1. /\ s \in Slots /\ pc' = pc /\ idx' = [idx EXCEPT ![p] = s + 1]
          /\ s # p => lock[s] = Free
          /\ state' = [state EXCEPT ![s] =
               IF s # p /\ state[s] = "SLEEPING" /\ chan[s] = arg[p]
               THEN "RUNNABLE" ELSE state[s]]
      BY ZenonT(30), <2>a, <2>b
    <2>2. /\ \A q \in Slots : q # s => state'[q] = state[q]
          /\ state'[s] = IF state[s] = "SLEEPING" /\ arg[p] = s
                         THEN "RUNNABLE" ELSE state[s]
          /\ state[s] = "SLEEPING" => lock[s] = Free
          /\ idx'[p] = s + 1 /\ \A q \in Slots : q # p => idx'[q] = idx[q]
      BY <1>0, <2>1 DEF ProcInv, TypeOK, PcInv
    <2>3. TypeOK'
      BY <1>0, <1>3, <2>1, <2>2, Constants DEF ProcInv, TypeOK
    <2>4. CpuInv'
      BY <1>0, <2>2, Constants DEF ProcInv, TypeOK, CpuInv
    <2>5. PcInv'
      <3>1. pc' = pc /\ UNCHANGED <<wait_lock, cproc, ctx, chan>>
        BY Zenon, <1>0, <2>1
      <3>2. ASSUME NEW q \in Slots
            PROVE  \/ state'[q] = state[q]
                   \/ state[q] = "SLEEPING" /\ state'[q] = "RUNNABLE"
        BY <2>2
      <3>3. \A q \in Slots :
              /\ state'[q] \in {"UNUSED", "ZOMBIE"} => pc'[q] \in {"user", "dead"}
              /\ state'[q] = "USED" => pc'[q] = "user"
              /\ state'[q] = "SLEEPING" => pc'[q] = "wait" /\ chan'[q] = q
              /\ pc'[q] = "dead" => state'[q] \in {"UNUSED", "ZOMBIE"}
        BY <3>1, <3>2 DEF ProcInv, PcInv
      <3> QED BY Zenon, <3>1, <3>3, PcKept
    <2>6. ForkInv'
      BY ZenonT(30), <1>0, <2>1, <2>2, ForkKept
    <2>7. TreeInv'
      <3>1. \A q \in Slots : \/ state'[q] = state[q]
                             \/ state[q] \in Live /\ state'[q] \in Live
        BY <2>2 DEF Live
      <3>2. \A q \in Slots :
              /\ pc'[q] \in Exiting => q # initproc
              /\ pc'[q] \in {"wake_parent", "zombie"} =>
                   \A t \in Slots : parent[t] # q
        BY <2>1 DEF ProcInv, TreeInv
      <3> QED BY <1>0, <3>1, <3>2, TreeKept
    <2>8. WaitInv'
      <3>0. \A q \in Slots : state'[q] = "SLEEPING" => state[q] = "SLEEPING"
        BY <2>2
      <3>1. ASSUME NEW q \in Slots, pc[q] = "wake_init"
            PROVE  q = p /\ arg[q] = initproc /\ state'[initproc] # "SLEEPING"
        <4>1. q = p /\ arg[q] = initproc /\ pc[p] = "wake_init"
          BY <1>1, <3>1 DEF ProcInv, WaitInv, Holding, Exiting
        <4>2. CASE s = 0
          BY <2>2, <4>1, <4>2 DEF initproc
        <4>3. CASE s # 0
          BY <1>s, <3>0, <4>1, <4>3, Constants DEF ProcInv, WaitInv
        <4> QED BY <4>1, <4>2, <4>3
      <3>2. ASSUME NEW q \in Slots, pc[q] = "wake_parent"
            PROVE  /\ arg[q] = parent[q]
                   /\ parent[q] < idx'[q] => state'[parent[q]] # "SLEEPING"
        <4>1. q = p /\ arg[q] = parent[q] /\ pc[p] = "wake_parent"
          BY <1>1, <3>2 DEF ProcInv, WaitInv, Holding, Exiting
        <4>2. CASE parent[p] = s
          BY <2>2, <4>1, <4>2
        <4>3. CASE parent[p] # s
          <5>1. parent[p] < idx'[p] => parent[p] < idx[p]
            BY <1>s, <1>1, <2>2, <4>3, Constants
          <5> QED BY <1>1, <3>0, <4>1, <5>1 DEF ProcInv, WaitInv
        <4> QED BY <4>1, <4>2, <4>3
      <3>3. \A q \in Slots : pc[q] \notin {"scan", "sleep", "zombie"}
        BY <1>0, <1>1 DEF Holding, Waiting, Exiting
      <3>4. ASSUME NEW r \in Slots, state'[r] = "SLEEPING"
            PROVE  /\ \E t \in Slots : parent[t] = r
                   /\ \A t \in Slots : parent[t] = r => state'[t] # "ZOMBIE"
        <4>1. state[r] = "SLEEPING"
          BY <2>2, <3>4
        <4>2. \A t \in Slots : state'[t] = "ZOMBIE" => state[t] = "ZOMBIE"
          BY <2>2
        <4>3. \E t \in Slots : parent[t] = r
          BY <4>1 DEF ProcInv, WaitInv
        <4>4. ASSUME NEW t \in Slots, parent[t] = r, state'[t] = "ZOMBIE"
              PROVE  FALSE
          <5>1. PICK q \in Slots : r = initproc /\ pc[q] = "wake_init"
            BY <4>1, <4>2, <4>4 DEF ProcInv, WaitInv
          <5> QED BY <3>1, <3>4, <5>1
        <4> QED BY <4>3, <4>4
      <3>5. pc' = pc /\ arg' = arg /\ parent' = parent
        BY Zenon, <1>0, <2>1
      <3>6. ASSUME NEW q \in Slots
            PROVE  /\ pc'[q] \notin {"scan", "sleep", "zombie"}
                   /\ pc'[q] = "wake_init" =>
                        arg'[q] = initproc /\ state'[initproc] # "SLEEPING"
                   /\ pc'[q] = "wake_parent" =>
                        /\ arg'[q] = parent'[q]
                        /\ parent'[q] < idx'[q] => state'[parent'[q]] # "SLEEPING"
        BY Zenon, <3>1, <3>2, <3>3, <3>5
      <3>7. ASSUME NEW r \in Slots, state'[r] = "SLEEPING"
            PROVE  /\ \E t \in Slots : parent'[t] = r
                   /\ \A t \in Slots : parent'[t] = r => state'[t] # "ZOMBIE"
        BY <3>4, <3>5, <3>7
      <3> QED BY Zenon, <3>6, <3>7 DEF WaitInv
    <2>9. PidInv'
      BY Zenon, <1>0, <2>2, PidKept
    <2> QED BY <2>3, <2>4, <2>5, <2>6, <2>7, <2>8, <2>9 DEF ProcInv
  <1> QED BY <1>2, <1>3

\* exit() ends with no children left and a parent that does not sleep.
LEMMA KeepsZombie ==
  ASSUME ProcInv, NEW c \in CPUS, zombie(c)
  PROVE  ProcInv'
PROOF
  <1>0. PICK p \in Slots :
          /\ p = cproc[c] /\ state[p] = "RUNNING" /\ ctx[c] = "proc"
          /\ \A d \in CPUS : cproc[d] = p => d = c
          /\ pc[p] = "zombie"
    BY Zenon, Acting DEF zombie, At
  <1>1. /\ lock[p] = Free /\ lock' = [lock EXCEPT ![p] = c]
        /\ state' = [state EXCEPT ![p] = "ZOMBIE"]
        /\ ctx' = [ctx EXCEPT ![c] = "sched"]
        /\ wait_lock' = Free
        /\ pc' = [pc EXCEPT ![p] = "dead"]
        /\ arg' = [arg EXCEPT ![p] = 0]
        /\ idx' = [idx EXCEPT ![p] = 0]
        /\ havekids' = [havekids EXCEPT ![p] = FALSE]
        /\ UNCHANGED <<pid, parent, chan, killed, nextpid, cproc, sidx, targets>>
    BY Zenon, <1>0 DEF zombie, SwitchOut, Goto
  <1>2. /\ p # initproc /\ parent[p] \in Slots
        /\ state[parent[p]] # "SLEEPING" /\ \A t \in Slots : parent[t] # p
        /\ \A q \in Slots : q # p => pc[q] \notin Holding
    BY Zenon, <1>0, Holder DEF ProcInv, TreeInv, WaitInv, Live, Holding, Exiting
  <1>3. /\ pc'[p] = "dead" /\ state'[p] = "ZOMBIE" /\ ctx'[c] = "sched"
        /\ \A q \in Slots : q # p => pc'[q] = pc[q] /\ state'[q] = state[q]
        /\ \A q \in Slots : q # p => arg'[q] = arg[q] /\ idx'[q] = idx[q]
        /\ \A d \in CPUS : d # c => ctx'[d] = ctx[d]
    BY Zenon, <1>1 DEF ProcInv, TypeOK
  <1>4. \A q \in Slots : pc'[q] \notin Holding
    BY Zenon, <1>2, <1>3 DEF Holding, Waiting, Exiting
  <1>5. TypeOK'
    <2>1. pc' \in [Slots -> PCs] /\ lock' \in [Slots -> CPUS \union {Free}]
      BY <1>1 DEF ProcInv, TypeOK, PCs
    <2>2. /\ idx' \in [Slots -> 0..NPROC] /\ arg' \in [Slots -> Nat]
      BY <1>1, Constants DEF ProcInv, TypeOK
    <2>3. /\ state' \in [Slots -> {"UNUSED", "USED", "SLEEPING", "RUNNABLE",
                                   "RUNNING", "ZOMBIE"}]
          /\ ctx' \in [CPUS -> {"sched", "resume", "proc"}]
      BY <1>1 DEF ProcInv, TypeOK
    <2>4. havekids' \in [Slots -> BOOLEAN]
      BY Zenon, <1>1 DEF ProcInv, TypeOK
    <2> QED BY Zenon, <1>1, <2>1, <2>2, <2>3, <2>4 DEF ProcInv, TypeOK
  <1>6. CpuInv'
    BY Zenon, <1>0, <1>1, SwitchedOut
  <1>7. PcInv'
    <2>1. ASSUME NEW d \in CPUS
          PROVE  ~(wait_lock' = d) /\ ~(ctx'[d] = "proc" /\ pc'[cproc'[d]] \in Holding)
      <3>1. ctx'[d] = "proc" => cproc'[d] \in Slots
        BY Zenon, <1>6 DEF CpuInv
      <3> QED BY <1>1, <1>4, <3>1, Constants
    <2>2. ASSUME NEW q \in Slots
          PROVE  /\ state'[q] \in {"UNUSED", "ZOMBIE"} => pc'[q] \in {"user", "dead"}
                 /\ state'[q] = "USED" => pc'[q] = "user"
                 /\ state'[q] = "SLEEPING" => pc'[q] = "wait" /\ chan'[q] = q
                 /\ pc'[q] = "dead" => state'[q] \in {"UNUSED", "ZOMBIE"}
      <3>1. CASE q = p
        BY Zenon, <1>3, <3>1
      <3>2. CASE q # p
        <4>1. /\ state[q] \in {"UNUSED", "ZOMBIE"} => pc[q] \in {"user", "dead"}
              /\ state[q] = "USED" => pc[q] = "user"
              /\ state[q] = "SLEEPING" => pc[q] = "wait" /\ chan[q] = q
              /\ pc[q] = "dead" => state[q] \in {"UNUSED", "ZOMBIE"}
          BY Zenon DEF ProcInv, PcInv
        <4>2. pc'[q] = pc[q] /\ state'[q] = state[q] /\ chan'[q] = chan[q]
          BY Zenon, <1>1, <1>3, <3>2
        <4> QED BY Zenon, <4>1, <4>2
      <3> QED BY Zenon, <3>1, <3>2
    <2> QED BY Zenon, <1>4, <2>1, <2>2 DEF PcInv
  <1>8. ForkInv'
    BY Zenon, <1>0, <1>1, <1>3, ForkKept
  <1>9. TreeInv'
    <2>1. \A q \in Slots : pc'[q] \notin Exiting
      BY <1>4 DEF Holding
    <2>2. ASSUME NEW q \in Slots
          PROVE  /\ state'[q] = "UNUSED" => parent'[q] = None
                 /\ parent'[q] \in Slots => state'[parent'[q]] \in Live
                 /\ q # initproc /\ state'[q] \in Live \union {"ZOMBIE"} =>
                      parent'[q] \in Slots
      <3>1. /\ state[q] = "UNUSED" => parent[q] = None
            /\ parent[q] \in Slots => state[parent[q]] \in Live
            /\ q # initproc /\ state[q] \in Live \union {"ZOMBIE"} =>
                 parent[q] \in Slots
        BY Zenon DEF ProcInv, TreeInv
      <3>2. CASE q = p
        <4>1. state'[q] = "ZOMBIE" /\ parent'[q] = parent[p]
          BY Zenon, <1>1, <1>3, <3>2
        <4>2. state'[parent[p]] = state[parent[p]] /\ state[parent[p]] \in Live
          BY Zenon, <1>2, <1>3, <3>1, <3>2
        <4> QED BY Zenon, <1>2, <4>1, <4>2
      <3>3. CASE q # p
        <4>1. state'[q] = state[q] /\ parent' = parent
          BY Zenon, <1>1, <1>3, <3>3
        <4>2. parent[q] \in Slots => state'[parent[q]] = state[parent[q]]
          BY Zenon, <1>2, <1>3
        <4> QED BY Zenon, <3>1, <4>1, <4>2
      <3> QED BY Zenon, <3>2, <3>3
    <2>3. parent'[initproc] = None /\ state'[initproc] \in Live
      BY <1>1, <1>2, <1>3, Constants DEF ProcInv, TreeInv
    <2> QED BY Zenon, <2>1, <2>2, <2>3 DEF TreeInv, Exiting
  <1>10. WaitInv'
    <2>1. \A q \in Slots :
            pc'[q] \notin {"scan", "sleep", "wake_init", "wake_parent", "zombie"}
      BY <1>4 DEF Holding, Waiting, Exiting
    <2>2. \A q \in Slots : pc[q] # "wake_init"
      BY <1>0, <1>2 DEF Holding, Exiting
    <2>3. ASSUME NEW r \in Slots, state'[r] = "SLEEPING"
          PROVE  /\ \E t \in Slots : parent'[t] = r
                 /\ \A t \in Slots : parent'[t] = r => state'[t] # "ZOMBIE"
      <3>1. r # p /\ state[r] = "SLEEPING" /\ parent[p] # r
        BY Zenon, <1>2, <1>3, <2>3
      <3>2. /\ \E t \in Slots : parent[t] = r
            /\ \A t \in Slots : parent[t] = r => state[t] # "ZOMBIE"
        BY <2>2, <3>1 DEF ProcInv, WaitInv
      <3>3. \A t \in Slots : parent[t] = r => state'[t] = state[t]
        BY Zenon, <1>3, <3>1
      <3>4. parent' = parent
        BY Zenon, <1>1
      <3> QED BY Zenon, <3>2, <3>3, <3>4
    <2> QED BY Zenon, <2>1, <2>3 DEF WaitInv
  <1>11. PidInv'
    BY <1>0, <1>1, <1>3, PidKept
  <1> QED BY <1>5, <1>6, <1>7, <1>8, <1>9, <1>10, <1>11 DEF ProcInv

\* wait() takes wait_lock and starts its scan.
LEMMA KeepsWait ==
  ASSUME ProcInv, NEW c \in CPUS, wait(c)
  PROVE  ProcInv'
PROOF
  <1>0. PICK p \in Slots :
          /\ p = cproc[c] /\ state[p] = "RUNNING" /\ ctx[c] = "proc"
          /\ \A d \in CPUS : cproc[d] = p => d = c
          /\ pc[p] = "wait"
    BY Zenon, Acting DEF wait, At
  <1>1. /\ wait_lock = Free /\ wait_lock' = c
        /\ idx' = [idx EXCEPT ![p] = 0]
        /\ havekids' = [havekids EXCEPT ![p] = FALSE]
        /\ pc' = [pc EXCEPT ![p] = "scan"]
        /\ UNCHANGED <<state, pid, parent, chan, killed, nextpid, lock, cproc,
                       ctx, sidx, arg, targets>>
    BY Zenon, <1>0 DEF wait, Goto, tvars, cvars
  <1>2. \A q \in Slots : pc[q] \notin Holding
    BY Zenon, <1>1, Holder, Constants
  <1>3. /\ pc'[p] = "scan" /\ \A q \in Slots : q # p => pc'[q] = pc[q]
        /\ idx'[p] = 0 /\ ~havekids'[p]
    BY Zenon, <1>1 DEF ProcInv, TypeOK
  <1>4. TypeOK'
    <2>1. pc' \in [Slots -> PCs]
      BY <1>1 DEF ProcInv, TypeOK, PCs
    <2>2. idx' \in [Slots -> 0..NPROC]
      BY <1>1, Constants DEF ProcInv, TypeOK
    <2>3. havekids' \in [Slots -> BOOLEAN]
      BY Zenon, <1>1 DEF ProcInv, TypeOK
    <2> QED BY Zenon, <1>1, <2>1, <2>2, <2>3 DEF ProcInv, TypeOK
  <1>5. CpuInv' /\ PidInv'
    BY Zenon, <1>1, CpuKept, PidKept
  <1>6. PcInv'
    <2>1. ASSUME NEW d \in CPUS
          PROVE  wait_lock' = d <=> ctx'[d] = "proc" /\ pc'[cproc'[d]] \in Holding
      <3>1. CASE d = c
        BY Zenon, <1>0, <1>1, <1>3, <3>1 DEF Holding, Waiting
      <3>2. CASE d # c
        <4>1. ctx[d] = "proc" => cproc[d] \in Slots /\ cproc[d] # p
          BY Zenon, <1>0, <3>2 DEF ProcInv, CpuInv
        <4> QED BY Zenon, <1>1, <1>2, <1>3, <3>2, <4>1
      <3> QED BY Zenon, <3>1, <3>2
    <2>2. ASSUME NEW q \in Slots
          PROVE  /\ pc'[q] \in Holding =>
                      \E d \in CPUS : cproc'[d] = q /\ ctx'[d] = "proc"
                 /\ state'[q] \in {"UNUSED", "ZOMBIE"} =>
                      pc'[q] \in {"user", "dead"}
                 /\ state'[q] = "USED" => pc'[q] = "user"
                 /\ state'[q] = "SLEEPING" => pc'[q] = "wait" /\ chan'[q] = q
                 /\ pc'[q] = "dead" => state'[q] \in {"UNUSED", "ZOMBIE"}
      <3>1. CASE q = p
        BY Zenon, <1>0, <1>1, <1>3, <3>1
      <3>2. CASE q # p
        <4>1. /\ state[q] \in {"UNUSED", "ZOMBIE"} => pc[q] \in {"user", "dead"}
              /\ state[q] = "USED" => pc[q] = "user"
              /\ state[q] = "SLEEPING" => pc[q] = "wait" /\ chan[q] = q
              /\ pc[q] = "dead" => state[q] \in {"UNUSED", "ZOMBIE"}
          BY Zenon DEF ProcInv, PcInv
        <4>2. pc'[q] = pc[q] /\ state'[q] = state[q] /\ chan'[q] = chan[q]
          BY Zenon, <1>1, <1>3, <3>2
        <4> QED BY Zenon, <1>2, <4>1, <4>2
      <3> QED BY Zenon, <3>1, <3>2
    <2> QED BY Zenon, <2>1, <2>2 DEF PcInv
  <1>7. ForkInv'
    BY Zenon, <1>1, <1>3, ForkKept
  <1>8. TreeInv'
    <2>1. \A q \in Slots : pc'[q] \notin Exiting
      BY <1>2, <1>3 DEF Holding, Exiting
    <2> QED BY Zenon, <1>1, <2>1, TreeKept DEF Exiting
  <1>9. WaitInv'
    <2>1. \A q \in Slots :
            pc'[q] \notin {"sleep", "wake_init", "wake_parent", "zombie"}
      BY <1>2, <1>3 DEF Holding, Waiting, Exiting
    <2>2. \A q \in Slots : pc'[q] = "scan" => q = p
      BY <1>2, <1>3 DEF Holding, Waiting
    <2>3. \A t \in Slots : ~(t < idx'[p])
      BY <1>3, Constants
    <2>4. ASSUME NEW r \in Slots, state'[r] = "SLEEPING"
          PROVE  /\ \E t \in Slots : parent'[t] = r
                 /\ \A t \in Slots : parent'[t] = r => state'[t] # "ZOMBIE"
      BY <1>1, <1>2, <2>4 DEF ProcInv, WaitInv, Holding, Exiting
    <2>5. ASSUME NEW q \in Slots
          PROVE  /\ pc'[q] \notin {"sleep", "wake_init", "wake_parent", "zombie"}
                 /\ pc'[q] = "scan" =>
                      ~havekids'[q] /\ \A t \in Slots : ~(t < idx'[q])
      BY Zenon, <1>3, <2>1, <2>2, <2>3
    <2> QED BY Zenon, <2>4, <2>5 DEF WaitInv
  <1> QED BY <1>4, <1>5, <1>6, <1>7, <1>8, <1>9 DEF ProcInv

\* The scan comes to the next child; a zombie is freed.
LEMMA KeepsWaitChild ==
  ASSUME ProcInv, NEW c \in CPUS, wait_child(c)
  PROVE  ProcInv'
PROOF
  <1>0. PICK p \in Slots :
          /\ p = cproc[c]
          /\ state[p] = "RUNNING" /\ ctx[c] = "proc"
          /\ \A d \in CPUS : cproc[d] = p => d = c
          /\ pc[p] = "scan"
    BY Zenon, Acting DEF wait_child, At
  <1>s. PICK s \in Slots :
          /\ parent[s] = p /\ idx[p] <= s
          /\ \A t \in Slots : parent[t] = p /\ idx[p] <= t => s <= t
          /\ lock[s] = Free
          /\ idx' = [idx EXCEPT ![p] = s + 1]
          /\ IF state[s] = "ZOMBIE"
             THEN /\ freeproc(s) \/ UNCHANGED <<pid, parent, chan, killed, state>>
                  /\ wait_lock' = Free
                  /\ Goto(p, "sysret")
             ELSE UNCHANGED <<pid, parent, chan, killed, state, wait_lock, pc>>
    <2>1. PICK s \in ChildrenLeft(p) :
            /\ ComesFirst(s, ChildrenLeft(p))
            /\ lock[s] = Free
            /\ idx' = [idx EXCEPT ![p] = s + 1]
            /\ IF state[s] = "ZOMBIE"
               THEN /\ freeproc(s) \/ UNCHANGED <<pid, parent, chan, killed, state>>
                    /\ wait_lock' = Free
                    /\ Goto(p, "sysret")
               ELSE UNCHANGED <<pid, parent, chan, killed, state, wait_lock, pc>>
      BY Zenon, <1>0 DEF wait_child
    <2>2. s \in Slots /\ parent[s] = p /\ s >= idx[p]
      BY Zenon DEF ChildrenLeft, Children
    <2>3. ASSUME NEW t \in Slots, parent[t] = p, t >= idx[p]
          PROVE  s <= t
      BY Zenon, <2>1, <2>3 DEF ComesFirst, ChildrenLeft, Children
    <2>4. idx[p] <= s /\ \A t \in Slots : idx[p] <= t => t >= idx[p]
      <3>1. idx[p] \in Int /\ Slots \subseteq Int
        BY Constants DEF ProcInv, TypeOK
      <3> QED BY <2>2, <3>1
    <2> QED BY Zenon, <2>1, <2>2, <2>3, <2>4
  <1>1. /\ parent[s] = p /\ idx[p] <= s
        /\ \A t \in Slots : parent[t] = p /\ idx[p] <= t => s <= t
    BY Zenon, <1>s
  <1>2. /\ lock[s] = Free
        /\ havekids' = [havekids EXCEPT ![p] = TRUE]
        /\ idx' = [idx EXCEPT ![p] = s + 1]
        /\ UNCHANGED <<nextpid, lock, cproc, ctx, sidx, arg, targets>>
    BY Zenon, <1>0, <1>s DEF wait_child, cvars
  <1>3. \A q \in Slots : q # p => pc[q] \notin Holding
    BY Zenon, <1>0, Holder DEF Holding, Waiting
  <1>4. CASE state[s] # "ZOMBIE"
    <2>1. UNCHANGED <<state, pid, parent, chan, killed, wait_lock, pc>>
      BY Zenon, <1>s, <1>4
    <2>2. TypeOK'
      BY <1>0, <1>2, <2>1, Constants DEF ProcInv, TypeOK
    <2>3. CpuInv' /\ PidInv'
      BY Zenon, <1>2, <2>1, CpuKept, PidKept
    <2>4. PcInv' /\ ForkInv'
      <3>1. PcInv'
        <4>1. \A q \in Slots :
                /\ state[q] \in {"UNUSED", "ZOMBIE"} => pc[q] \in {"user", "dead"}
                /\ state[q] = "USED" => pc[q] = "user"
                /\ state[q] = "SLEEPING" => pc[q] = "wait" /\ chan[q] = q
                /\ pc[q] = "dead" => state[q] \in {"UNUSED", "ZOMBIE"}
          BY Zenon DEF ProcInv, PcInv
        <4> QED BY <1>2, <2>1, <4>1, PcKept
      <3>2. ForkInv'
        BY Zenon, <1>2, <2>1, ForkKept
      <3> QED BY <3>1, <3>2
    <2>5. TreeInv'
      BY Zenon, <2>1 DEF ProcInv, TreeInv
    <2>6. WaitInv'
      <3>1. \A t \in Slots : parent[t] = p /\ t < s + 1 => state[t] # "ZOMBIE"
        <4>1. ASSUME NEW t \in Slots, parent[t] = p, t < s + 1
              PROVE  state[t] # "ZOMBIE"
          <5>1. t = s \/ t < idx[p]
            <6>1. idx[p] \in Nat /\ s \in Nat /\ t \in Nat
              BY Constants DEF ProcInv, TypeOK
            <6>2. idx[p] <= t => s <= t
              BY <1>1, <4>1
            <6> QED BY <4>1, <6>1, <6>2
          <5> QED BY ZenonT(30), <1>0, <1>4, <4>1, <5>1 DEF ProcInv, WaitInv
        <4> QED BY <4>1
      <3>2. /\ idx'[p] = s + 1 /\ havekids'[p]
            /\ \A q \in Slots : q # p => idx'[q] = idx[q]
        BY <1>0, <1>2 DEF ProcInv, TypeOK
      <3>3. \A q \in Slots :
              pc[q] \notin {"sleep", "wake_init", "wake_parent", "zombie"}
        BY <1>0, <1>3 DEF Holding, Waiting, Exiting
      <3>4. \A q \in Slots : pc[q] = "scan" => q = p
        BY <1>3 DEF Holding, Waiting
      <3>5. \A r \in Slots : state[r] = "SLEEPING" =>
              /\ \E t \in Slots : parent[t] = r
              /\ \A t \in Slots : parent[t] = r => state[t] # "ZOMBIE"
        BY <3>3 DEF ProcInv, WaitInv
      <3>6. ASSUME NEW q \in Slots
            PROVE  /\ pc'[q] \notin {"sleep", "wake_init", "wake_parent", "zombie"}
                   /\ pc'[q] = "scan" =>
                        /\ \A t \in Slots : parent'[t] = q /\ t < idx'[q] =>
                                              state'[t] # "ZOMBIE"
                        /\ \E t \in Slots : parent'[t] = q
        BY <1>1, <2>1, <3>1, <3>2, <3>3, <3>4
      <3>7. \A r \in Slots : state'[r] = "SLEEPING" =>
              /\ \E t \in Slots : parent'[t] = r
              /\ \A t \in Slots : parent'[t] = r => state'[t] # "ZOMBIE"
        BY <2>1, <3>5
      <3> QED BY Zenon, <3>6, <3>7 DEF WaitInv
    <2> QED BY <2>2, <2>3, <2>4, <2>5, <2>6 DEF ProcInv
  <1>5. CASE state[s] = "ZOMBIE"
    <2>1. /\ wait_lock' = Free
          /\ pc' = [pc EXCEPT ![p] = "sysret"]
          /\ freeproc(s) \/ UNCHANGED <<pid, parent, chan, killed, state>>
      BY Zenon, <1>s, <1>5 DEF Goto
    <2>2. /\ s # p /\ s # initproc /\ \A d \in CPUS : cproc[d] # s
          /\ pc[s] \in {"user", "dead"}
          /\ \A t \in Slots : parent[t] # s
          /\ \A q \in Slots : pc[q] \in {"fork_parent", "fork_run"} => arg[q] # s
      <3>1. s # p /\ s # initproc /\ \A t \in Slots : parent[t] # s
        BY <1>0, <1>5, Constants DEF ProcInv, TreeInv, Live
      <3>2. ASSUME NEW d \in CPUS, cproc[d] = s
            PROVE  FALSE
        <4>1. ctx[d] = "sched"
          BY <1>5, <3>2 DEF ProcInv, CpuInv
        <4>2. lock[s] = d
          BY <3>2, <4>1 DEF ProcInv, CpuInv
        <4> QED BY <1>2, <4>2, Constants
      <3>3. pc[s] \in {"user", "dead"}
        BY <1>5 DEF ProcInv, PcInv
      <3>4. \A q \in Slots : pc[q] \in {"fork_parent", "fork_run"} => arg[q] # s
        BY <1>5 DEF ProcInv, ForkInv
      <3> QED BY <3>1, <3>2, <3>3, <3>4
    <2>3. /\ pc'[p] = "sysret" /\ \A q \in Slots : q # p => pc'[q] = pc[q]
          /\ \A q \in Slots : q # p => idx'[q] = idx[q]
          /\ pc' \in [Slots -> PCs]
      BY <1>0, <1>2, <2>1 DEF ProcInv, TypeOK, PCs, Preemptible
    <2>4. /\ \A t \in Slots : t # s => /\ state'[t] = state[t]
                                       /\ pid'[t] = pid[t]
                                       /\ parent'[t] = parent[t]
                                       /\ chan'[t] = chan[t]
          /\ \/ state'[s] = "UNUSED" /\ parent'[s] = None
             \/ state'[s] = "ZOMBIE" /\ parent'[s] = p /\ pid'[s] = pid[s]
      BY ZenonT(30), <1>1, <1>5, <2>1 DEF freeproc, ProcInv, TypeOK
    <2>5. TypeOK'
      <3>1. /\ state' \in [Slots -> {"UNUSED", "USED", "SLEEPING", "RUNNABLE",
                                     "RUNNING", "ZOMBIE"}]
            /\ pid' \in [Slots -> Nat] /\ parent' \in [Slots -> Slots \union {None}]
            /\ chan' \in [Slots -> Slots \union {None}]
        BY <1>1, <2>1 DEF freeproc, ProcInv, TypeOK
      <3>3. killed' \in [Slots -> BOOLEAN]
        <4>1. killed \in [Slots -> BOOLEAN]
          BY DEF ProcInv, TypeOK
        <4>2. killed' = [killed EXCEPT ![s] = FALSE] \/ killed' = killed
          BY Zenon, <2>1 DEF freeproc
        <4> QED BY Zenon, <4>1, <4>2
      <3>2. idx' \in [Slots -> 0..NPROC] /\ havekids' \in [Slots -> BOOLEAN]
        BY <1>0, <1>2, Constants DEF ProcInv, TypeOK
      <3> QED BY Zenon, <1>2, <2>1, <2>3, <3>1, <3>2, <3>3 DEF ProcInv, TypeOK
    <2>6. CpuInv'
      BY Zenon, <1>2, <2>2, <2>4, CpuStays
    <2>7. PcInv'
      <3>1. \A q \in Slots : pc'[q] \notin Holding
        BY <1>3, <2>3 DEF Holding, Waiting, Exiting
      <3>2. ASSUME NEW d \in CPUS
            PROVE  ~(wait_lock' = d) /\ ~(ctx'[d] = "proc" /\ pc'[cproc'[d]] \in Holding)
        <4>1. ctx'[d] = "proc" => cproc'[d] \in Slots
          BY Zenon, <1>2 DEF ProcInv, CpuInv
        <4> QED BY Zenon, <2>1, <3>1, <4>1, Constants
      <3>3. ASSUME NEW q \in Slots
            PROVE  /\ state'[q] \in {"UNUSED", "ZOMBIE"} => pc'[q] \in {"user", "dead"}
                   /\ state'[q] = "USED" => pc'[q] = "user"
                   /\ state'[q] = "SLEEPING" => pc'[q] = "wait" /\ chan'[q] = q
                   /\ pc'[q] = "dead" => state'[q] \in {"UNUSED", "ZOMBIE"}
        <4>1. CASE q = s
          BY Zenon, <2>2, <2>3, <2>4, <4>1
        <4>2. CASE q = p
          BY Zenon, <1>0, <2>2, <2>3, <2>4, <4>2
        <4>3. CASE q \notin {p, s}
          <5>1. /\ state[q] \in {"UNUSED", "ZOMBIE"} => pc[q] \in {"user", "dead"}
                /\ state[q] = "USED" => pc[q] = "user"
                /\ state[q] = "SLEEPING" => pc[q] = "wait" /\ chan[q] = q
                /\ pc[q] = "dead" => state[q] \in {"UNUSED", "ZOMBIE"}
            BY Zenon DEF ProcInv, PcInv
          <5>2. pc'[q] = pc[q] /\ state'[q] = state[q] /\ chan'[q] = chan[q]
            BY Zenon, <2>3, <2>4, <4>3
          <5> QED BY <5>1, <5>2
        <4> QED BY Zenon, <4>1, <4>2, <4>3
      <3> QED BY Zenon, <3>1, <3>2, <3>3 DEF PcInv
    <2>8. ForkInv'
      <3>1. \A t \in Slots : state[t] = "USED" => t # s
        BY <1>5
      <3> QED BY Zenon, <1>2, <2>3, <2>4, <3>1, ForkKept
    <2>9. TreeInv'
      <3>1. \A q \in Slots : pc'[q] \notin Exiting
        BY <1>3, <2>3 DEF Holding, Exiting
      <3>2. parent'[initproc] = None /\ state'[initproc] \in Live
        BY <2>2, <2>4, Constants DEF ProcInv, TreeInv
      <3>3. ASSUME NEW q \in Slots
            PROVE  /\ state'[q] = "UNUSED" => parent'[q] = None
                   /\ parent'[q] \in Slots => state'[parent'[q]] \in Live
                   /\ q # initproc /\ state'[q] \in Live \union {"ZOMBIE"} =>
                        parent'[q] \in Slots
        <4>1. CASE q = s
          <5>1. state'[p] \in Live
            BY Zenon, <1>0, <2>2, <2>4 DEF Live
          <5> QED BY <2>4, <4>1, <5>1, Constants DEF Live
        <4>2. CASE q # s
          <5>1. parent[q] # s /\ parent'[q] = parent[q] /\ state'[q] = state[q]
            BY Zenon, <2>2, <2>4, <4>2
          <5> QED BY <2>4, <5>1 DEF ProcInv, TreeInv
        <4> QED BY <4>1, <4>2
      <3> QED BY Zenon, <3>1, <3>2, <3>3 DEF TreeInv, Exiting
    <2>10. WaitInv'
      <3>1. \A q \in Slots : pc'[q] \notin Holding
        BY <1>3, <2>3 DEF Holding, Waiting, Exiting
      <3>2. ASSUME NEW r \in Slots, state'[r] = "SLEEPING"
            PROVE  /\ \E t \in Slots : parent'[t] = r
                   /\ \A t \in Slots : parent'[t] = r => state'[t] # "ZOMBIE"
        <4>1. state[r] = "SLEEPING" /\ r # p
          BY Zenon, <1>0, <2>2, <2>4, <3>2
        <4>2. \A q \in Slots : pc[q] # "wake_init"
          BY Zenon, <1>0, <1>3 DEF Holding, Exiting
        <4>3. \A t \in Slots : parent'[t] = r <=> parent[t] = r
          BY Zenon, <1>1, <2>4, <4>1, Constants
        <4>4. \A t \in Slots : t # s => state'[t] = state[t]
          BY Zenon, <2>4
        <4> QED BY <1>1, <4>1, <4>2, <4>3, <4>4 DEF ProcInv, WaitInv
      <3> QED BY <3>1, <3>2 DEF WaitInv, Holding, Waiting, Exiting
    <2>11. PidInv'
      <3>1. \A t \in Slots : state'[t] # "UNUSED" =>
                              state[t] # "UNUSED" /\ pid'[t] = pid[t]
        BY Zenon, <1>5, <2>4
      <3> QED BY <1>2, <3>1 DEF ProcInv, PidInv
    <2> QED BY <2>5, <2>6, <2>7, <2>8, <2>9, <2>10, <2>11 DEF ProcInv
  <1> QED BY <1>4, <1>5

\* The scan ends: wait() returns, or goes to sleep with a child and no zombie.
LEMMA KeepsWaitEnd ==
  ASSUME ProcInv, NEW c \in CPUS, wait_end(c)
  PROVE  ProcInv'
PROOF
  <1>0. PICK p \in Slots :
          /\ p = cproc[c]
          /\ state[p] = "RUNNING" /\ ctx[c] = "proc"
          /\ \A d \in CPUS : cproc[d] = p => d = c
          /\ pc[p] = "scan"
          /\ UNCHANGED <<state, pid, parent, chan, killed, nextpid, lock, cproc,
               ctx, sidx, idx, arg, havekids, targets>>
    BY Zenon, Acting DEF wait_end, At, tvars, cvars
  <1>1. \A q \in Slots : q # p => pc[q] \notin Holding
    BY Zenon, <1>0, Holder DEF Holding, Waiting
  <1>2. PICK l \in {"sysret", "sleep"} :
          /\ pc' = [pc EXCEPT ![p] = l]
          /\ wait_lock' = IF l = "sysret" THEN Free ELSE wait_lock
          /\ l = "sleep" => havekids[p]
    BY Zenon, <1>0 DEF wait_end, Goto
  <1>3. l = "sleep" =>
          /\ \A s \in Slots : parent[s] = p => state[s] # "ZOMBIE"
          /\ \E s \in Slots : parent[s] = p
    <2>1. \A s \in Slots : parent[s] = p => s < idx[p]
      BY <1>0, Constants DEF wait_end, ChildrenLeft, Children, ProcInv, TypeOK
    <2>2. /\ \A s \in Slots : parent[s] = p /\ s < idx[p] => state[s] # "ZOMBIE"
          /\ havekids[p] => \E s \in Slots : parent[s] = p
      BY Zenon, <1>0 DEF ProcInv, WaitInv
    <2> QED BY Zenon, <1>2, <2>1, <2>2
  <1>4. TypeOK'
    BY Zenon, <1>0, <1>2 DEF ProcInv, TypeOK, PCs, Preemptible
  <1>5. CpuInv' /\ PidInv'
    BY Zenon, <1>0, CpuKept, PidKept
  <1>a. pc'[p] = l /\ \A q \in Slots : q # p => pc'[q] = pc[q]
    BY Zenon, <1>2 DEF ProcInv, TypeOK
  <1>6. PcInv'
    <2>1. ASSUME NEW q \in Slots
          PROVE  /\ state'[q] \in {"UNUSED", "ZOMBIE"} => pc'[q] \in {"user", "dead"}
                 /\ state'[q] = "USED" => pc'[q] = "user"
                 /\ state'[q] = "SLEEPING" => pc'[q] = "wait" /\ chan'[q] = q
                 /\ pc'[q] = "dead" => state'[q] \in {"UNUSED", "ZOMBIE"}
      <3>1. CASE q = p
        <4>1. state'[q] = "RUNNING" /\ pc'[q] \in {"sysret", "sleep"}
          BY Zenon, <1>0, <1>2, <1>a, <3>1
        <4> QED BY <4>1
      <3>2. CASE q # p
        <4>1. /\ state[q] \in {"UNUSED", "ZOMBIE"} => pc[q] \in {"user", "dead"}
              /\ state[q] = "USED" => pc[q] = "user"
              /\ state[q] = "SLEEPING" => pc[q] = "wait" /\ chan[q] = q
              /\ pc[q] = "dead" => state[q] \in {"UNUSED", "ZOMBIE"}
          BY Zenon DEF ProcInv, PcInv
        <4>2. pc'[q] = pc[q] /\ state'[q] = state[q] /\ chan'[q] = chan[q]
          BY Zenon, <1>0, <1>a, <3>2
        <4> QED BY Zenon, <4>1, <4>2
      <3> QED BY ZenonT(30), <3>1, <3>2
    <2>2. CASE l = "sleep"
      <3>1. \A q \in Slots : pc'[q] \in Holding <=> pc[q] \in Holding
        BY Zenon, <1>0, <1>a, <2>2 DEF Holding, Waiting
      <3>2. UNCHANGED <<wait_lock, cproc, ctx>>
        BY Zenon, <1>0, <1>2, <2>2
      <3> QED BY Zenon, <2>1, <3>1, <3>2, PcKept
    <2>3. CASE l = "sysret"
      <3>1. \A q \in Slots : pc'[q] \notin Holding
        BY <1>1, <1>a, <2>3 DEF Holding, Waiting, Exiting
      <3>2. ASSUME NEW d \in CPUS
            PROVE  ~(wait_lock' = d) /\ ~(ctx'[d] = "proc" /\ pc'[cproc'[d]] \in Holding)
        <4>1. ctx'[d] = "proc" => cproc'[d] \in Slots
          BY Zenon, <1>0 DEF ProcInv, CpuInv
        <4> QED BY Zenon, <1>2, <2>3, <3>1, <4>1, Constants
      <3> QED BY Zenon, <2>1, <3>1, <3>2 DEF PcInv
    <2> QED BY <2>2, <2>3
  <1>7. ForkInv' /\ TreeInv'
    <2>1. ForkInv'
      BY Zenon, <1>0, <1>a, ForkKept
    <2>2. \A q \in Slots : pc'[q] \notin Exiting
      BY <1>1, <1>a DEF Holding, Exiting
    <2>3. TreeInv'
      BY Zenon, <1>0, <2>2, TreeKept DEF Exiting
    <2> QED BY <2>1, <2>3
  <1>8. WaitInv'
    <2>1. ASSUME NEW q \in Slots
          PROVE  /\ pc'[q] \notin {"scan", "wake_init", "wake_parent", "zombie"}
                 /\ pc'[q] = "sleep" =>
                      /\ \A s \in Slots : parent[s] = q => state[s] # "ZOMBIE"
                      /\ \E s \in Slots : parent[s] = q
      <3>1. CASE q = p
        BY <1>2, <1>3, <1>a, <3>1
      <3>2. CASE q # p
        BY <1>1, <1>a, <3>2 DEF Holding, Waiting, Exiting
      <3> QED BY <3>1, <3>2
    <2>2. \A q \in Slots : pc[q] # "wake_init"
      BY <1>0, <1>1 DEF Holding, Exiting
    <2>3. ASSUME NEW r \in Slots, state[r] = "SLEEPING"
          PROVE  /\ \E s \in Slots : parent[s] = r
                 /\ \A s \in Slots : parent[s] = r => state[s] # "ZOMBIE"
      BY <2>2, <2>3 DEF ProcInv, WaitInv
    <2>4. parent' = parent /\ state' = state
      BY <1>0
    <2> QED BY ZenonT(30), <2>1, <2>3, <2>4 DEF WaitInv
  <1> QED BY <1>4, <1>5, <1>6, <1>7, <1>8 DEF ProcInv

\* sleep() in wait(): wait_lock is given up only once the process sleeps.
LEMMA KeepsSleep ==
  ASSUME ProcInv, NEW c \in CPUS, sleep(c)
  PROVE  ProcInv'
PROOF
  <1>0. PICK p \in Slots :
          /\ p = cproc[c]
          /\ state[p] = "RUNNING" /\ ctx[c] = "proc"
          /\ \A d \in CPUS : cproc[d] = p => d = c
          /\ pc[p] = "sleep"
    BY Zenon, Acting DEF sleep, At
  <1>1. /\ lock[p] = Free /\ lock' = [lock EXCEPT ![p] = c]
        /\ state' = [state EXCEPT ![p] = "SLEEPING"]
        /\ ctx' = [ctx EXCEPT ![c] = "sched"]
        /\ wait_lock' = Free
        /\ chan' = [chan EXCEPT ![p] = p]
        /\ pc' = [pc EXCEPT ![p] = "wait"]
        /\ UNCHANGED <<pid, parent, killed, nextpid, cproc, sidx, idx, arg,
                       havekids, targets>>
    BY Zenon, <1>0 DEF sleep, SwitchOut, Goto
  <1>2. \A q \in Slots : q # p => pc[q] \notin Holding
    BY Zenon, <1>0, Holder DEF Holding, Waiting
  <1>3. TypeOK'
    BY Zenon, <1>0, <1>1 DEF ProcInv, TypeOK, PCs, Preemptible
  <1>4. CpuInv'
    BY Zenon, <1>0, <1>1, SwitchedOut
  <1>a. /\ pc'[p] = "wait" /\ state'[p] = "SLEEPING" /\ chan'[p] = p
        /\ \A q \in Slots : q # p => /\ pc'[q] = pc[q] /\ state'[q] = state[q]
                                     /\ chan'[q] = chan[q]
    BY Zenon, <1>1 DEF ProcInv, TypeOK
  <1>b. \A q \in Slots : pc'[q] \notin Holding
    BY Zenon, <1>2, <1>a DEF Holding, Waiting, Exiting
  <1>5. PcInv'
    <2>1. ASSUME NEW d \in CPUS
          PROVE  ~(wait_lock' = d) /\ ~(ctx'[d] = "proc" /\ pc'[cproc'[d]] \in Holding)
      <3>1. ctx'[d] = "proc" => cproc'[d] \in Slots
        BY Zenon, <1>4 DEF CpuInv
      <3> QED BY Zenon, <1>1, <1>b, <3>1, Constants
    <2>2. ASSUME NEW q \in Slots
          PROVE  /\ state'[q] \in {"UNUSED", "ZOMBIE"} => pc'[q] \in {"user", "dead"}
                 /\ state'[q] = "USED" => pc'[q] = "user"
                 /\ state'[q] = "SLEEPING" => pc'[q] = "wait" /\ chan'[q] = q
                 /\ pc'[q] = "dead" => state'[q] \in {"UNUSED", "ZOMBIE"}
      <3>1. CASE q = p
        BY Zenon, <1>a, <3>1
      <3>2. CASE q # p
        <4>1. /\ state[q] \in {"UNUSED", "ZOMBIE"} => pc[q] \in {"user", "dead"}
              /\ state[q] = "USED" => pc[q] = "user"
              /\ state[q] = "SLEEPING" => pc[q] = "wait" /\ chan[q] = q
              /\ pc[q] = "dead" => state[q] \in {"UNUSED", "ZOMBIE"}
          BY Zenon DEF ProcInv, PcInv
        <4>2. pc'[q] = pc[q] /\ state'[q] = state[q] /\ chan'[q] = chan[q]
          BY Zenon, <1>a, <3>2
        <4> QED BY <4>1, <4>2
      <3> QED BY Zenon, <3>1, <3>2
    <2> QED BY Zenon, <1>b, <2>1, <2>2 DEF PcInv
  <1>6. ForkInv'
    BY Zenon, <1>0, <1>1, <1>a, ForkKept
  <1>7. TreeInv'
    <2>1. \A q \in Slots : pc'[q] \notin Exiting
      BY Zenon, <1>b DEF Holding
    <2>2. \A q \in Slots : \/ state'[q] = state[q]
                           \/ state[q] \in Live /\ state'[q] \in Live
      BY Zenon, <1>0, <1>a DEF Live
    <2>3. \A q \in Slots : pc'[q] \notin {"wake_parent", "zombie"}
      BY Zenon, <2>1 DEF Exiting
    <2> QED BY Zenon, <1>1, <2>1, <2>2, <2>3, TreeKept
  <1>8. WaitInv'
    <2>1. \A q \in Slots :
            pc'[q] \notin {"scan", "sleep", "wake_init", "wake_parent", "zombie"}
      BY Zenon, <1>b DEF Holding, Waiting, Exiting
    <2>2. \A q \in Slots : pc[q] # "wake_init"
      BY Zenon, <1>0, <1>2 DEF Holding, Exiting
    <2>3. ASSUME NEW r \in Slots, state'[r] = "SLEEPING"
          PROVE  /\ \E t \in Slots : parent'[t] = r
                 /\ \A t \in Slots : parent'[t] = r => state'[t] # "ZOMBIE"
      <3>1. /\ \E t \in Slots : parent[t] = r
            /\ \A t \in Slots : parent[t] = r => state[t] # "ZOMBIE"
        <4>1. CASE r = p
          BY Zenon, <1>0, <4>1 DEF ProcInv, WaitInv
        <4>2. CASE r # p
          BY Zenon, <1>a, <2>2, <2>3, <4>2 DEF ProcInv, WaitInv
        <4> QED BY Zenon, <4>1, <4>2
      <3>2. \A t \in Slots : state'[t] = "ZOMBIE" => state[t] = "ZOMBIE"
        BY Zenon, <1>a
      <3> QED BY Zenon, <1>1, <3>1, <3>2
    <2> QED BY Zenon, <2>1, <2>3 DEF WaitInv
  <1>9. PidInv'
    BY Zenon, <1>0, <1>1, <1>a, PidKept
  <1> QED BY <1>3, <1>4, <1>5, <1>6, <1>7, <1>8, <1>9 DEF ProcInv

\* kill() marks the process it finds, and makes it RUNNABLE if it sleeps.
LEMMA KeepsKill ==
  ASSUME ProcInv, NEW c \in CPUS, kill(c)
  PROVE  ProcInv'
PROOF
  <1>0. PICK p \in Slots :
          /\ p = cproc[c]
          /\ state[p] = "RUNNING" /\ ctx[c] = "proc"
          /\ \A d \in CPUS : cproc[d] = p => d = c
          /\ pc[p] = "kill"
          /\ UNCHANGED <<pid, parent, chan, nextpid, lvars, cvars, arg, havekids>>
    BY Zenon, Acting DEF kill, At, ProcInv, TypeOK
  <1>s. PICK s \in 0..NPROC : s = idx[p]
    BY DEF ProcInv, TypeOK
  <1>1. /\ pc[p] \in Preemptible
        /\ {"kill", "sysret"} \subseteq Preemptible \ {"fork_parent", "fork_run"}
    BY <1>0 DEF Preemptible
  <1>2. CASE s = NPROC
    <2>1. /\ pc' = [pc EXCEPT ![p] = "sysret"]
          /\ UNCHANGED <<killed, state, idx, targets>>
      BY Zenon, <1>s, <1>0, <1>2 DEF kill, Goto
    <2> QED BY Zenon, <1>0, <1>1, <2>1, Private DEF ProcInv, TypeOK
  <1>3. CASE s # NPROC /\ pid[s] # arg[p]
    <2>1. /\ pc' = [pc EXCEPT ![p] = "kill"]
          /\ idx' = [idx EXCEPT ![p] = s + 1]
          /\ UNCHANGED <<killed, state, targets>>
      BY <1>s, <1>0, <1>3 DEF kill, ProcInv, TypeOK
    <2>2. idx' \in [Slots -> 0..NPROC] /\ \A q \in Slots \ {p} : idx'[q] = idx[q]
      <3>1. s + 1 \in 0..NPROC
        <4>1. s # NPROC /\ NPROC \in Nat
          BY <1>3, Constants
        <4> QED BY <4>1
      <3> QED BY Zenon, <2>1, <3>1 DEF ProcInv, TypeOK
    <2> QED BY Zenon, <1>0, <1>1, <2>1, <2>2, Private DEF ProcInv, TypeOK
  <1>4. CASE s # NPROC /\ pid[s] = arg[p]
    <2>a. s \in Slots
      BY <1>4, Constants
    <2>1. /\ s \in Slots /\ lock[s] = Free
          /\ killed' = [killed EXCEPT ![s] = TRUE]
          /\ state' = [state EXCEPT ![s] =
                IF state[s] = "SLEEPING" THEN "RUNNABLE" ELSE state[s]]
          /\ targets' = targets \union {arg[p]}
          /\ pc' = [pc EXCEPT ![p] = "sysret"]
          /\ idx' = idx
          /\ UNCHANGED <<pid, parent, chan, nextpid, lock, wait_lock, cproc, ctx,
                         sidx, arg, havekids>>
      BY Zenon, <1>s, <1>0, <1>4, <2>a DEF kill, Goto, lvars, cvars
    <2>2. /\ \A q \in Slots : q # s => state'[q] = state[q]
          /\ state'[s] = IF state[s] = "SLEEPING" THEN "RUNNABLE" ELSE state[s]
          /\ pc'[p] = "sysret" /\ \A q \in Slots : q # p => pc'[q] = pc[q]
      BY Zenon, <1>0, <2>1 DEF ProcInv, TypeOK
    <2>3. TypeOK'
      <3>1. /\ killed \in [Slots -> BOOLEAN] /\ targets \subseteq Nat
            /\ arg[p] \in Nat
        BY DEF ProcInv, TypeOK
      <3>2. killed' \in [Slots -> BOOLEAN]
        BY Zenon, <2>1, <3>1
      <3>3. targets' \subseteq Nat
        BY Zenon, <2>1, <3>1
      <3>4. state' \in [Slots -> {"UNUSED", "USED", "SLEEPING", "RUNNABLE",
                                  "RUNNING", "ZOMBIE"}]
        BY Zenon, <2>1 DEF ProcInv, TypeOK
      <3>5. pc' \in [Slots -> PCs]
        BY Zenon, <2>1 DEF ProcInv, TypeOK, PCs, Preemptible
      <3> QED BY Zenon, <2>1, <3>2, <3>3, <3>4, <3>5 DEF ProcInv, TypeOK
    <2>4. CpuInv'
      <3>1. ASSUME NEW d \in CPUS, cproc[d] = s
            PROVE  state'[s] = state[s]
        <4>1. ctx[d] = "proc"
          <5>1. lock[s] = d <=> cproc[d] = s /\ ctx[d] # "proc"
            BY Zenon, <2>1 DEF ProcInv, CpuInv
          <5> QED BY Zenon, <2>1, <3>1, <5>1, Constants
        <4>2. state[s] = "RUNNING"
          BY Zenon, <2>1, <3>1, <4>1 DEF ProcInv, CpuInv
        <4> QED BY Zenon, <2>2, <4>2
      <3>2. \A d \in CPUS : cproc[d] \in Slots => state'[cproc[d]] = state[cproc[d]]
        BY Zenon, <2>2, <3>1
      <3>3. \A q \in Slots : state'[q] = "RUNNING" => state[q] = "RUNNING"
        BY Zenon, <2>2
      <3>4. UNCHANGED <<lock, cproc, ctx, sidx>>
        BY Zenon, <2>1
      <3> QED BY Zenon, <3>2, <3>3, <3>4, CpuStays
    <2>5. PcInv'
      <3>1. \A q \in Slots : pc'[q] \in Holding <=> pc[q] \in Holding
        BY Zenon, <1>0, <2>2 DEF Holding, Waiting, Exiting
      <3>2. ASSUME NEW q \in Slots
            PROVE  /\ state'[q] \in {"UNUSED", "ZOMBIE"} => pc'[q] \in {"user", "dead"}
                   /\ state'[q] = "USED" => pc'[q] = "user"
                   /\ state'[q] = "SLEEPING" => pc'[q] = "wait" /\ chan'[q] = q
                   /\ pc'[q] = "dead" => state'[q] \in {"UNUSED", "ZOMBIE"}
        <4>1. CASE q = p
          <5>1. pc'[q] = "sysret" /\ state'[q] = "RUNNING"
            BY ZenonT(30), <1>0, <2>2, <4>1
          <5> QED BY <5>1
        <4>2. CASE q # p
          <5>1. /\ state[q] \in {"UNUSED", "ZOMBIE"} => pc[q] \in {"user", "dead"}
                /\ state[q] = "USED" => pc[q] = "user"
                /\ state[q] = "SLEEPING" => pc[q] = "wait" /\ chan[q] = q
                /\ pc[q] = "dead" => state[q] \in {"UNUSED", "ZOMBIE"}
            BY Zenon DEF ProcInv, PcInv
          <5>2. /\ pc'[q] = pc[q] /\ chan' = chan
                /\ \/ state'[q] = state[q]
                   \/ state[q] = "SLEEPING" /\ state'[q] = "RUNNABLE"
            BY Zenon, <2>1, <2>2, <4>2
          <5> QED BY <5>1, <5>2
        <4> QED BY Zenon, <4>1, <4>2
      <3> QED BY Zenon, <2>1, <3>1, <3>2, PcKept
    <2>6. ForkInv'
      BY <2>1, <2>2, ForkKept
    <2>7. TreeInv'
      <3>1. \A q \in Slots : \/ state'[q] = state[q]
                             \/ state[q] \in Live /\ state'[q] \in Live
        BY <2>2 DEF Live
      <3>2. \A q \in Slots : pc'[q] \in Exiting => pc'[q] = pc[q]
        BY <2>2 DEF Exiting
      <3>3. \A q \in Slots :
              /\ pc'[q] \in Exiting => q # initproc
              /\ pc'[q] \in {"wake_parent", "zombie"} =>
                   \A t \in Slots : parent[t] # q
        BY <3>2 DEF ProcInv, TreeInv, Exiting
      <3> QED BY <2>1, <3>1, <3>3, TreeKept
    <2>8. WaitInv'
      <3>1. ASSUME NEW q \in Slots, pc[q] \in Holding \/ pc'[q] \in Holding
            PROVE  pc'[q] = pc[q]
        BY <1>0, <2>2, <3>1 DEF Holding, Waiting, Exiting
      <3>2. \A q \in Slots : state'[q] \in {"ZOMBIE", "SLEEPING"} =>
                              state'[q] = state[q]
        BY <2>2
      <3> QED BY <2>1, <3>1, <3>2, WaitKept
    <2>9. PidInv'
      BY <2>1, <2>2, PidKept
    <2> QED BY <2>3, <2>4, <2>5, <2>6, <2>7, <2>8, <2>9 DEF ProcInv
  <1> QED BY <1>2, <1>3, <1>4

\* A step that changes nothing.
LEMMA KeepsStutter ==
  ASSUME ProcInv, UNCHANGED vars
  PROVE  ProcInv'
PROOF
  <1>1. UNCHANGED <<state, pid, parent, chan, killed, nextpid, lock, wait_lock,
                    cproc, ctx, sidx, pc, idx, arg, havekids, targets>>
    BY DEF vars, tvars, lvars, cvars, pvars
  <1>2. TypeOK'
    BY Zenon, <1>1 DEF ProcInv, TypeOK
  <1>3. CpuInv' /\ PidInv'
    BY Zenon, <1>1, CpuKept, PidKept
  <1>4. PcInv'
    <2>1. \A q \in Slots :
            /\ state[q] \in {"UNUSED", "ZOMBIE"} => pc[q] \in {"user", "dead"}
            /\ state[q] = "USED" => pc[q] = "user"
            /\ state[q] = "SLEEPING" => pc[q] = "wait" /\ chan[q] = q
            /\ pc[q] = "dead" => state[q] \in {"UNUSED", "ZOMBIE"}
      BY Zenon DEF ProcInv, PcInv
    <2> QED BY Zenon, <1>1, <2>1, PcKept
  <1>5. ForkInv'
    BY Zenon, <1>1, ForkKept
  <1>6. TreeInv'
    <2>1. \A q \in Slots : /\ pc[q] \in Exiting => q # initproc
                           /\ pc[q] \in {"wake_parent", "zombie"} =>
                                \A t \in Slots : parent[t] # q
      BY Zenon DEF ProcInv, TreeInv
    <2> QED BY Zenon, <1>1, <2>1, TreeKept
  <1>7. WaitInv'
    BY Zenon, <1>1, WaitKept
  <1> QED BY Zenon, <1>2, <1>3, <1>4, <1>5, <1>6, <1>7 DEF ProcInv

-----------------------------------------------------------------------------
\* Every step of every CPU keeps the invariant.
LEMMA KeepsNext ==
  ASSUME ProcInv, [Next]_vars
  PROVE  ProcInv'
PROOF
  <1>1. CASE UNCHANGED vars
    BY <1>1, KeepsStutter
  <1>2. ASSUME NEW c \in CPUS, Step(c)
        PROVE  ProcInv'
    <2>1. CASE scheduler(c) \/ scheduler_back(c) \/ resume(c) \/ yield(c)
      BY <2>1, KeepsScheduler, KeepsSchedulerBack, KeepsResume, KeepsYield
    <2>2. CASE \/ timer(c) \/ fault(c) \/ usertrapret(c)
               \/ \E call \in Calls, a \in KillPids \union {0} :
                    syscall(c, call, a)
      BY <2>2, KeepsTraps
    <2>3. CASE allocproc(c) \/ fork_parent(c) \/ fork_run(c)
      BY <2>3, KeepsAllocproc, KeepsForkParent, KeepsForkRun
    <2>4. CASE exit(c) \/ reparent(c) \/ wakeup(c) \/ zombie(c)
      BY <2>4, KeepsExit, KeepsReparent, KeepsWakeup, KeepsZombie
    <2>5. CASE wait(c) \/ wait_child(c) \/ wait_end(c) \/ sleep(c)
      BY <2>5, KeepsWait, KeepsWaitChild, KeepsWaitEnd, KeepsSleep
    <2>6. CASE kill(c)
      BY <2>6, KeepsKill
    <2> QED BY Zenon, <1>2, <2>1, <2>2, <2>3, <2>4, <2>5, <2>6 DEF Step
  <1> QED BY <1>1, <1>2 DEF Next

\* The inductive invariant of the process table: types, the CPU of every
\* running process with its lock, the holder of wait_lock, the slots fork() is
\* filling in, the tree of parents, and what a process asleep in wait() relies
\* on.
THEOREM Invariant ==
  Spec => []ProcInv
PROOF
  <1>1. Init => ProcInv
    BY Initially
  <1>2. ProcInv /\ [Next]_vars => ProcInv'
    BY KeepsNext
  <1> QED BY <1>1, <1>2, PTL DEF Spec

\* A process and its kernel stack are on one CPU at most, and on one exactly
\* while RUNNING or while a CPU switches away from it under its lock: what
\* p->lock, handed over by swtch(), is for.
THEOREM StackExclusiveHolds ==
  Spec => []StackExclusive
PROOF
  <1>1. ProcInv => StackExclusive
    <2> SUFFICES ASSUME ProcInv PROVE StackExclusive
      OBVIOUS
    <2>1. \A c \in CPUS : cproc[c] \in Slots \/ cproc[c] = None
      BY DEF ProcInv, TypeOK
    <2> QED BY Zenon, <2>1, Constants DEF ProcInv, CpuInv, StackExclusive
  <1> QED BY <1>1, Invariant, PTL

\* A CPU in scheduler() holds the lock of the process it comes back from and no
\* other, so that sched() does not panic; wait_lock is held in exit() and
\* wait() alone.
THEOREM LockHandoffHolds ==
  Spec => []LockHandoff
PROOF
  <1>1. ProcInv => LockHandoff
    <2> SUFFICES ASSUME ProcInv, NEW c \in CPUS
                 PROVE  /\ {s \in Slots : lock[s] = c} =
                             IF ctx[c] = "proc" \/ cproc[c] = None THEN {}
                             ELSE {cproc[c]}
                        /\ wait_lock = c <=> /\ ctx[c] = "proc"
                                             /\ pc[cproc[c]] \notin Preemptible
      BY Zenon DEF LockHandoff
    <2>1. cproc[c] \in Slots \/ cproc[c] = None
      BY DEF ProcInv, TypeOK
    <2>2. \A s \in Slots : lock[s] = c <=> cproc[c] = s /\ ctx[c] # "proc"
      BY Zenon DEF ProcInv, CpuInv
    <2>3. ctx[c] = "proc" =>
            (pc[cproc[c]] \in Holding <=> pc[cproc[c]] \notin Preemptible)
      <3>1. ctx[c] = "proc" => pc[cproc[c]] \in PCs /\ state[cproc[c]] = "RUNNING"
        BY Zenon, Acting DEF ProcInv, TypeOK
      <3>2. ctx[c] = "proc" => pc[cproc[c]] # "dead"
        BY Zenon, Acting, <3>1 DEF ProcInv, PcInv
      <3> QED BY Zenon, <3>1, <3>2, Points
    <2>4. wait_lock = c <=> ctx[c] = "proc" /\ pc[cproc[c]] \in Holding
      BY Zenon DEF ProcInv, PcInv
    <2> QED BY Zenon, <2>1, <2>2, <2>3, <2>4, Constants
  <1> QED BY <1>1, Invariant, PTL

\* Every process but init has a parent that is alive, through every exit(),
\* reparent() and freeproc(): somebody can still reap it.
THEOREM ParentAliveHolds ==
  Spec => []ParentAlive
PROOF
  <1>1. ProcInv => ParentAlive
    BY Constants DEF ProcInv, TreeInv, ParentAlive, Live
  <1> QED BY <1>1, Invariant, PTL

\* No wakeup is lost between exit() and wait(): when wait_lock is free, a
\* process asleep in wait() has a child, and no child that is a zombie.
THEOREM NoLostExitHolds ==
  Spec => []NoLostExit
PROOF
  <1>1. ProcInv => NoLostExit
    <2> SUFFICES ASSUME ProcInv, wait_lock = Free, NEW p \in Slots,
                        state[p] = "SLEEPING"
                 PROVE  /\ Children(p) # {}
                        /\ \A s \in Children(p) : state[s] # "ZOMBIE"
      BY DEF NoLostExit
    <2>1. \A q \in Slots : pc[q] # "wake_init"
      BY Zenon, Holder, Constants DEF Holding, Exiting
    <2> QED BY <2>1 DEF ProcInv, WaitInv, Children
  <1> QED BY <1>1, Invariant, PTL

\* Pids below nextpid, and a different one for every process.
THEOREM PidsUniqueHolds ==
  Spec => []PidsUnique
PROOF
  <1>1. ProcInv => PidsUnique
    BY DEF ProcInv, TypeOK, PidInv, PidsUnique
  <1> QED BY <1>1, Invariant, PTL
-----------------------------------------------------------------------------
\* A step that neither kills, frees nor takes a slot, nor enters kill().
LEMMA KillKept ==
  ASSUME KillInv, UNCHANGED <<pid, killed, targets>>,
         \A s \in Slots : state'[s] = "UNUSED" <=> state[s] = "UNUSED",
         \A s \in Slots : pc'[s] = "kill" => pc[s] = "kill" /\ arg'[s] = arg[s]
  PROVE  KillInv'
  BY Zenon DEF KillInv

\* Every step keeps KillInv.
LEMMA KillNext ==
  ASSUME ProcInv, KillInv, 0 \notin KillPids, [Next]_vars
  PROVE  KillInv'
PROOF
  <1>1. CASE UNCHANGED vars
    BY Zenon, <1>1, KillKept DEF vars, tvars, lvars, cvars, pvars
  <1>2. ASSUME NEW c \in CPUS, Step(c)
        PROVE  KillInv'
    <2> DEFINE Quiet ==
          /\ UNCHANGED <<pid, killed, targets>>
          /\ \A s \in Slots : state'[s] = "UNUSED" <=> state[s] = "UNUSED"
          /\ \A s \in Slots :
               pc'[s] = "kill" => pc[s] = "kill" /\ arg'[s] = arg[s]
    <2>0. Quiet => KillInv'
      BY Zenon, KillKept
    <2>1. ctx[c] # "sched" => cproc[c] \in Slots /\ state[cproc[c]] = "RUNNING"
      BY Acting
    <2>2. /\ state \in [Slots -> {"UNUSED", "USED", "SLEEPING", "RUNNABLE",
                                  "RUNNING", "ZOMBIE"}]
          /\ pc \in [Slots -> PCs] /\ arg \in [Slots -> Nat]
          /\ sidx[c] \in Slots
      BY DEF ProcInv, TypeOK
    <2> HIDE DEF Quiet
    <2>3. CASE scheduler(c)
      BY <2>0, <2>2, <2>3 DEF Quiet, scheduler, pvars
    <2>4. CASE scheduler_back(c)
      <3>1. UNCHANGED <<state, pid, killed, targets, pc, arg>>
        BY Zenon, <2>4 DEF scheduler_back, tvars, pvars
      <3> QED BY <2>0, <3>1 DEF Quiet
    <2>5. CASE resume(c)
      BY <2>0, <2>5 DEF Quiet, resume, pvars
    <2>6. CASE yield(c)
      BY <2>0, <2>1, <2>2, <2>6 DEF Quiet, yield, At, SwitchOut, Goto
    <2>7. CASE timer(c) \/ wait(c) \/ exit(c) \/ wait_end(c)
      BY Zenon, <2>0, <2>1, <2>2, <2>7
         DEF Quiet, timer, wait, exit, wait_end, At, UnlessKilled, Goto, tvars
    <2>8. CASE usertrapret(c)
      BY Zenon, <2>0, <2>1, <2>2, <2>8 DEF Quiet, usertrapret, At, UnlessKilled, Goto, tvars
    <2>9. CASE fork_parent(c) \/ fork_run(c)
      <3>1. CASE fork_parent(c)
        BY Zenon, <2>0, <2>1, <2>2, <3>1 DEF Quiet, fork_parent, At, Goto
      <3>2. CASE fork_run(c)
        <4>1. PICK p \in Slots : p = cproc[c] /\ pc[p] = "fork_run"
          BY Zenon, <2>1, <3>2 DEF fork_run, At
        <4>2. PICK s \in Slots : s = arg[p] /\ state[s] = "USED"
          BY Zenon, <4>1 DEF ProcInv, ForkInv
        <4>3. /\ state' = [state EXCEPT ![s] = "RUNNABLE"]
              /\ pc' = [pc EXCEPT ![p] = "sysret"]
              /\ UNCHANGED <<pid, killed, targets, arg>>
          BY Zenon, <3>2, <4>1, <4>2 DEF fork_run, Goto
        <4> QED BY <2>0, <2>2, <4>2, <4>3 DEF Quiet
      <3> QED BY <2>9, <3>1, <3>2
    <2>10. CASE reparent(c)
      <3>1. PICK p \in Slots : p = cproc[c]
        BY Zenon, <2>1, <2>10 DEF reparent, At
      <3>2. PICK l \in {"wake_init", "wake_parent"} : pc' = [pc EXCEPT ![p] = l]
        BY <2>10, <3>1 DEF reparent, Goto
      <3>3. \A q \in Slots : q # p => arg'[q] = arg[q]
        BY Zenon, <2>2, <2>10, <3>1 DEF reparent
      <3>4. UNCHANGED <<state, pid, killed, targets>>
        BY <2>10 DEF reparent
      <3> QED BY <2>0, <2>2, <3>2, <3>3, <3>4 DEF Quiet
    <2>11. CASE wakeup(c)
      <3>1. PICK p \in Slots : p = cproc[c] /\ pc[p] # "kill"
        BY Zenon, <2>1, <2>11 DEF wakeup, At
      <3>2. UNCHANGED <<pid, killed, targets, arg>>
        BY Zenon, <2>11 DEF wakeup
      <3>3. \A s \in Slots : state'[s] = "UNUSED" <=> state[s] = "UNUSED"
        BY Zenon, <2>2, <2>11 DEF wakeup
      <3>4. \A s \in Slots : pc'[s] = "kill" => pc[s] = "kill"
        BY ZenonT(30), <2>2, <2>11, <3>1 DEF wakeup, Goto
      <3> QED BY Zenon, <2>0, <3>2, <3>3, <3>4 DEF Quiet
    <2>12. CASE zombie(c)
      BY <2>0, <2>1, <2>2, <2>12 DEF Quiet, zombie, At, SwitchOut, Goto
    <2>13. CASE sleep(c)
      BY <2>0, <2>1, <2>2, <2>13 DEF Quiet, sleep, At, SwitchOut, Goto
    <2>14. CASE wait_child(c)
      <3>1. PICK p \in Slots : p = cproc[c] /\ pc[p] = "scan"
        BY Zenon, <2>1, <2>14 DEF wait_child, At
      <3>2. UNCHANGED <<arg, targets>>
        BY <2>14 DEF wait_child
      <3>3. pc' = pc \/ pc' = [pc EXCEPT ![p] = "sysret"]
        BY <2>14, <3>1 DEF wait_child, Goto
      <3>4. \/ UNCHANGED <<pid, killed, state>>
            \/ \E s : freeproc(s)
        BY <2>14 DEF wait_child
      <3>5. CASE UNCHANGED <<pid, killed, state>>
        BY Zenon, <2>0, <2>2, <3>2, <3>3, <3>5 DEF Quiet
      <3>6. CASE \E s : freeproc(s)
        <4>1. PICK s : freeproc(s)
          BY <3>6
        <4> QED BY Zenon, <2>2, <3>2, <3>3, <4>1 DEF freeproc, KillInv, ProcInv, TypeOK
      <3> QED BY <3>4, <3>5, <3>6
    <2>15. CASE fault(c)
      <3>1. PICK p \in Slots : p = cproc[c] /\ state[p] = "RUNNING"
        BY Zenon, <2>1, <2>15 DEF fault, At
      <3>2. /\ killed' = [killed EXCEPT ![p] = TRUE]
            /\ targets' = targets \union {pid[p]}
            /\ pc' = [pc EXCEPT ![p] = "sysret"]
            /\ UNCHANGED <<state, pid, arg>>
        BY Zenon, <2>15, <3>1 DEF fault, Goto
      <3> QED BY <2>2, <3>1, <3>2 DEF KillInv, ProcInv, TypeOK
    <2>16. CASE \E call \in Calls, a \in KillPids \union {0} : syscall(c, call, a)
      <3>1. PICK call \in Calls, a \in KillPids \union {0} : syscall(c, call, a)
        BY <2>16
      <3>2. PICK p \in Slots : p = cproc[c]
        BY Zenon, <2>1, <3>1 DEF syscall, At
      <3>3. PICK l \in Calls : /\ pc' = [pc EXCEPT ![p] = l]
                               /\ l = "kill" => a \in KillPids
        BY Zenon, <3>1, <3>2 DEF syscall, UnlessKilled, Goto, Calls
      <3>4. /\ arg' = [arg EXCEPT ![p] = a]
            /\ UNCHANGED <<state, pid, killed, targets>>
        BY <3>1, <3>2 DEF syscall, tvars
      <3> QED BY Zenon, <2>2, <3>2, <3>3, <3>4 DEF KillInv
    <2>17. CASE allocproc(c)
      <3>1. PICK p \in Slots : p = cproc[c] /\ pc[p] = "fork" /\ state[p] = "RUNNING"
        BY <2>1, <2>17 DEF allocproc, At
      <3>2. PICK s \in 0..NPROC : s = idx[p]
        BY DEF ProcInv, TypeOK
      <3>3. CASE UNCHANGED tvars /\ arg' = arg
        <4>1. pc' = pc \/ pc' = [pc EXCEPT ![p] = "sysret"]
          BY <2>17, <3>1, <3>2, <3>3, Constants
             DEF allocproc, Goto, allocpid, tvars, ProcInv, TypeOK
        <4>2. UNCHANGED <<state, pid, killed, targets>>
          BY <2>17, <3>3 DEF allocproc, tvars
        <4> QED BY ZenonT(30), <2>0, <2>2, <3>3, <4>1, <4>2 DEF Quiet
      <3>4. CASE /\ s \in Slots /\ state[s] = "UNUSED" /\ targets' = targets
                 /\ pid' = [pid EXCEPT ![s] = nextpid]
                 /\ state' = [state EXCEPT ![s] = "USED"]
                 /\ pc' = [pc EXCEPT ![p] = "fork_parent", ![s] = "user"]
                 /\ arg' = [arg EXCEPT ![p] = s, ![s] = 0]
                 /\ killed' = killed
        <4>1. /\ pc'[p] # "kill" /\ pc'[s] # "kill"
              /\ \A q \in Slots : q # p /\ q # s => pc'[q] = pc[q] /\ arg'[q] = arg[q]
              /\ state'[s] = "USED" /\ ~killed'[s]
              /\ \A q \in Slots : q # s => state'[q] = state[q] /\ pid'[q] = pid[q]
          BY Zenon, <2>2, <3>1, <3>4 DEF ProcInv, TypeOK, KillInv
        <4>2. ASSUME NEW q \in Slots
              PROVE  /\ state'[q] = "UNUSED" => pid'[q] = 0 /\ ~killed'[q]
                     /\ state'[q] # "UNUSED" /\ killed'[q] => pid'[q] \in targets'
                     /\ pc'[q] = "kill" => arg'[q] \in KillPids
          <5>1. CASE q = s
            BY Zenon, <4>1, <5>1
          <5>2. CASE q # s
            <6>1. /\ state'[q] = state[q] /\ pid'[q] = pid[q] /\ killed' = killed
                  /\ targets' = targets
                  /\ pc'[q] = "kill" => pc[q] = "kill" /\ arg'[q] = arg[q]
              BY Zenon, <3>4, <4>1, <5>2
            <6> QED BY Zenon, <6>1 DEF KillInv
          <5> QED BY <5>1, <5>2
        <4> QED BY Zenon, <4>2 DEF KillInv
      <3>5. CASE /\ s \in Slots /\ targets' = targets
                 /\ freeproc(s) /\ Goto(p, "sysret") /\ arg' = arg
        BY <2>2, <3>1, <3>5 DEF freeproc, Goto, KillInv, ProcInv, TypeOK
      <3> QED
        BY <2>17, <3>1, <3>2, <3>3, <3>4, <3>5, Constants DEF allocproc
    <2>18. CASE kill(c)
      <3>1. PICK p \in Slots : p = cproc[c] /\ pc[p] = "kill" /\ arg[p] \in KillPids
        BY Zenon, <2>1, <2>18 DEF kill, At, KillInv
      <3>2. PICK s \in 0..NPROC : s = idx[p]
        BY DEF ProcInv, TypeOK
      <3>3. UNCHANGED <<pid, arg>>
        BY Zenon, <2>18 DEF kill
      <3>4. CASE /\ UNCHANGED <<killed, state, targets>>
                 /\ pc' = pc \/ Goto(p, "sysret")
        BY Zenon, <2>0, <2>2, <3>3, <3>4 DEF Quiet, Goto
      <3>5. CASE /\ s \in Slots /\ pid[s] = arg[p]
                 /\ killed' = [killed EXCEPT ![s] = TRUE]
                 /\ state' = [state EXCEPT ![s] =
                       IF state[s] = "SLEEPING" THEN "RUNNABLE" ELSE state[s]]
                 /\ targets' = targets \union {arg[p]}
                 /\ Goto(p, "sysret")
        <4>1. state[s] # "UNUSED" /\ state'[s] # "UNUSED"
          BY Zenon, <2>2, <3>1, <3>5, Constants DEF KillInv
        <4>2. /\ \A q \in Slots : q # s => state'[q] = state[q] /\ killed'[q] = killed[q]
              /\ \A q \in Slots : pc'[q] = "kill" => pc[q] = "kill"
          BY Zenon, <2>2, <3>5 DEF Goto, ProcInv, TypeOK
        <4>3. ASSUME NEW q \in Slots
              PROVE  /\ state'[q] = "UNUSED" => pid'[q] = 0 /\ ~killed'[q]
                     /\ state'[q] # "UNUSED" /\ killed'[q] => pid'[q] \in targets'
                     /\ pc'[q] = "kill" => arg'[q] \in KillPids
          <5>1. pc'[q] = "kill" => arg'[q] \in KillPids
            BY Zenon, <3>3, <4>2 DEF KillInv
          <5>2. CASE q = s
            BY Zenon, <3>3, <3>5, <4>1, <5>1, <5>2
          <5>3. CASE q # s
            BY Zenon, <3>3, <3>5, <4>2, <5>1, <5>3 DEF KillInv
          <5> QED BY <5>2, <5>3
        <4> QED BY Zenon, <4>3 DEF KillInv
      <3>6. s = NPROC \/ pid[s] # arg[p] =>
              UNCHANGED <<killed, state, targets>> /\ (pc' = pc \/ Goto(p, "sysret"))
        BY Zenon, <2>18, <3>1, <3>2 DEF kill
      <3>7. ~(s = NPROC \/ pid[s] # arg[p]) =>
              /\ pid[s] = arg[p]
              /\ killed' = [killed EXCEPT ![s] = TRUE]
              /\ state' = [state EXCEPT ![s] =
                    IF state[s] = "SLEEPING" THEN "RUNNABLE" ELSE state[s]]
              /\ targets' = targets \union {arg[p]}
              /\ Goto(p, "sysret")
        BY Zenon, <2>18, <3>1, <3>2 DEF kill
      <3>8. s # NPROC => s \in Slots
        BY <3>2, Constants
      <3> QED BY Zenon, <3>4, <3>5, <3>6, <3>7, <3>8
    <2> QED BY Zenon, <1>2, <2>3, <2>4, <2>5, <2>6, <2>7, <2>8, <2>9, <2>10, <2>11,
               <2>12, <2>13, <2>14, <2>15, <2>16, <2>17, <2>18 DEF Step
  <1> QED BY <1>1, <1>2 DEF Next

\* Only a process that kill() or a fault was aimed at is killed: freeproc()
\* leaves no mark for the next user of a slot.  kill(0) is excluded, since it
\* finds the pid of every slot that is not in use.
THEOREM KilledWasTargetedHolds ==
  ASSUME 0 \notin KillPids
  PROVE  Spec => []KilledWasTargeted
PROOF
  <1>1. Init => KillInv
    BY Constants DEF Init, KillInv
  <1>2. ProcInv /\ KillInv /\ [Next]_vars => KillInv'
    BY KillNext
  <1>3. KillInv => KilledWasTargeted
    BY DEF KillInv, KilledWasTargeted
  <1> QED BY <1>1, <1>2, <1>3, Invariant, PTL DEF Spec
=============================================================================
