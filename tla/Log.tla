-------------------------------- MODULE Log --------------------------------
(***************************************************************************)
(* The redo log of kernel/log.c: file-system calls bracketed by begin_op   *)
(* and end_op, group commit by the last one out, power failure at any      *)
(* point, and recovery at boot (itself interruptible).                     *)
(*                                                                         *)
(* Atomicity.  What runs under log.lock is one step.  commit(), which      *)
(* holds no lock, takes one step per disk write: bwrite() of one block.    *)
(* A crash during the write of a data block may leave that block torn; the *)
(* header (124 bytes, inside one disk sector) is written or not.           *)
(* The buffer cache is seen from the log's side only: a block is cached or *)
(* not, and a cached block whose pin count is zero may be recycled at any  *)
(* moment (kernel/bio.c), taking unwritten changes with it.                *)
(***************************************************************************)
EXTENDS Integers, Sequences, FiniteSets, Functions

CONSTANTS Procs,        \* processes that make file-system calls
          Blocks,       \* home blocks of the file system
          Val,          \* block contents
          Torn,         \* contents of a block whose write was cut short
          NotCached,    \* the block has no buffer
          MAXOPBLOCKS,  \* space begin_op() reserves for a call
          LOGSIZE,      \* entries of struct logheader
          NLOG,         \* log.size = sb.nlog, the header block included
          OPW           \* distinct blocks a call really writes, at most

ASSUME ValAssumption == /\ Torn \notin Val
                        /\ NotCached \notin Val
                        /\ Val # {}
ASSUME SizeAssumption == /\ MAXOPBLOCKS \in Nat \ {0}
                         /\ LOGSIZE \in Nat
                         /\ MAXOPBLOCKS <= LOGSIZE
                         /\ NLOG \in Nat \ {0}
                         /\ OPW \in 0..MAXOPBLOCKS
ASSUME FiniteAssumption == IsFiniteSet(Procs) /\ IsFiniteSet(Blocks)

VARIABLES
  disk,         \* home area on disk
  logdata,      \* data blocks of the on-disk log
  head,         \* header block of the on-disk log: block numbers
  lh,           \* log.lh in memory: block numbers
  outstanding,  \* log.outstanding
  committing,   \* log.committing
  cache,        \* data of the buffer of each block
  pin,          \* references bpin() holds on the buffer
  phase,        \* where commit() or recover_from_log() is
  tail,         \* its loop index: blocks already done
  pc,           \* where each process is in its file-system call
  wrote,        \* blocks the call of each process has written
  panicked      \* a CPU spins in panic() with log.lock held

vars == <<disk, logdata, head, lh, outstanding, committing, cache, pin,
          phase, tail, pc, wrote, panicked>>

Recovering == phase \in {"read_head", "rinstall", "rclear"}

(***************************************************************************)
(* Boot: main() -> fsinit() -> initlog() with empty memory.                *)
(***************************************************************************)
Init ==
  /\ disk \in [Blocks -> Val]
  /\ logdata \in [1..(NLOG - 1) -> Val]
  /\ head = <<>>
  /\ lh = <<>>
  /\ outstanding = 0
  /\ committing = FALSE
  /\ cache = [b \in Blocks |-> NotCached]
  /\ pin = [b \in Blocks |-> 0]
  /\ phase = "read_head"
  /\ tail = 0
  /\ pc = [p \in Procs |-> "idle"]
  /\ wrote = [p \in Procs |-> {}]
  /\ panicked = FALSE

\* Mutant: nobody is woken.
wakeup_lost(pcs) == pcs

wakeup(pcs) == [p \in Procs |-> IF pcs[p] = "asleep" THEN "woken" ELSE pcs[p]]

\* Mutant: the space test forgets the call that is being admitted.
begin_op_late(p) ==
  /\ ~Recovering /\ ~panicked
  /\ pc[p] \in {"idle", "woken"}
  /\ IF committing \/ Len(lh) + outstanding * MAXOPBLOCKS > LOGSIZE
     THEN /\ pc' = [pc EXCEPT ![p] = "asleep"]
          /\ UNCHANGED outstanding
     ELSE /\ pc' = [pc EXCEPT ![p] = "inop"]
          /\ outstanding' = outstanding + 1
  /\ UNCHANGED <<disk, logdata, head, lh, committing, cache, pin, phase,
                 tail, wrote, panicked>>

begin_op(p) ==
  /\ ~Recovering /\ ~panicked
  /\ pc[p] \in {"idle", "woken"}
  /\ IF committing \/ Len(lh) + (outstanding + 1) * MAXOPBLOCKS > LOGSIZE
     THEN /\ pc' = [pc EXCEPT ![p] = "asleep"]
          /\ UNCHANGED outstanding
     ELSE /\ pc' = [pc EXCEPT ![p] = "inop"]
          /\ outstanding' = outstanding + 1
  /\ UNCHANGED <<disk, logdata, head, lh, committing, cache, pin, phase,
                 tail, wrote, panicked>>

\* Mutant: an absorbed write pins the buffer again.
log_write_repin(p, b, v) ==
  /\ ~panicked
  /\ pc[p] = "inop"
  /\ Cardinality(wrote[p] \union {b}) <= OPW
  /\ wrote' = [wrote EXCEPT ![p] = @ \union {b}]
  /\ IF Len(lh) >= LOGSIZE \/ Len(lh) >= NLOG - 1 \/ outstanding < 1
     THEN panicked' = TRUE /\ UNCHANGED <<lh, pin, cache>>
     ELSE /\ cache' = [cache EXCEPT ![b] = v]
          /\ pin' = [pin EXCEPT ![b] = @ + 1]
          /\ lh' = IF b \in Range(lh) THEN lh ELSE Append(lh, b)
          /\ UNCHANGED panicked
  /\ UNCHANGED <<disk, logdata, head, outstanding, committing, phase, tail,
                 pc>>

(***************************************************************************)
(* A call's  bp = bread(b); modify bp->data; log_write(bp); brelse(bp).    *)
(* The buffer's sleep-lock is held throughout.  A call may write a block   *)
(* again, but never more than OPW distinct blocks.  On a panic the buffer  *)
(* stays locked for ever, so nobody sees what it holds.                    *)
(***************************************************************************)
log_write(p, b, v) ==
  /\ ~panicked
  /\ pc[p] = "inop"
  /\ Cardinality(wrote[p] \union {b}) <= OPW
  /\ wrote' = [wrote EXCEPT ![p] = @ \union {b}]
  /\ IF Len(lh) >= LOGSIZE \/ Len(lh) >= NLOG - 1 \/ outstanding < 1
     THEN panicked' = TRUE /\ UNCHANGED <<lh, pin, cache>>
     ELSE /\ cache' = [cache EXCEPT ![b] = v]
          /\ IF b \in Range(lh)
             THEN UNCHANGED <<lh, pin>>
             ELSE /\ lh' = Append(lh, b)
                  /\ pin' = [pin EXCEPT ![b] = @ + 1]
          /\ UNCHANGED panicked
  /\ UNCHANGED <<disk, logdata, head, outstanding, committing, phase, tail,
                 pc>>

end_op(p) ==
  /\ ~panicked
  /\ pc[p] = "inop"
  /\ outstanding' = outstanding - 1
  /\ wrote' = [wrote EXCEPT ![p] = {}]
  /\ IF committing
     THEN panicked' = TRUE /\ UNCHANGED <<pc, committing, phase, tail>>
     ELSE /\ UNCHANGED panicked
          /\ IF outstanding = 1
             THEN /\ pc' = [pc EXCEPT ![p] = "commit"]
                  /\ committing' = TRUE
                  /\ phase' = IF lh = <<>> THEN "finish" ELSE "write_log"
                  /\ tail' = 0
             ELSE /\ pc' = wakeup([pc EXCEPT ![p] = "idle"])
                  /\ UNCHANGED <<committing, phase, tail>>
  /\ UNCHANGED <<disk, logdata, head, lh, cache, pin>>

(***************************************************************************)
(* commit(), step by step.                                                 *)
(***************************************************************************)
\* Mutant: the copy loop stops one block early.
write_log_short ==
  /\ phase = "write_log"
  /\ logdata' = [logdata EXCEPT ![tail + 1] = cache[lh[tail + 1]]]
  /\ tail' = tail + 1
  /\ phase' = IF tail + 2 >= Len(lh) THEN "write_head" ELSE phase
  /\ UNCHANGED <<disk, head, lh, outstanding, committing, cache, pin, pc,
                 wrote, panicked>>

write_log ==
  /\ phase = "write_log"
  /\ logdata' = [logdata EXCEPT ![tail + 1] = cache[lh[tail + 1]]]
  /\ tail' = tail + 1
  /\ phase' = IF tail + 1 = Len(lh) THEN "write_head" ELSE phase
  /\ UNCHANGED <<disk, head, lh, outstanding, committing, cache, pin, pc,
                 wrote, panicked>>

\* Mutant: the real commit, the write of the header, is forgotten.
write_head_lost ==
  /\ phase = "write_head"
  /\ tail' = 0
  /\ phase' = "install"
  /\ UNCHANGED <<disk, logdata, head, lh, outstanding, committing, cache, pin,
                 pc, wrote, panicked>>

write_head ==
  /\ phase = "write_head"
  /\ head' = lh
  /\ tail' = 0
  /\ phase' = "install"
  /\ UNCHANGED <<disk, logdata, lh, outstanding, committing, cache, pin, pc,
                 wrote, panicked>>

\* Copies log block tail+1 to its home, through the home block's buffer.
InstallOne ==
  LET b == lh[tail + 1] IN
  /\ cache' = [cache EXCEPT ![b] = logdata[tail + 1]]
  /\ disk' = [disk EXCEPT ![b] = logdata[tail + 1]]
  /\ tail' = tail + 1

\* Mutant: the install loop stops one block early.
install_trans_short ==
  /\ phase = "install"
  /\ InstallOne
  /\ pin' = [pin EXCEPT ![lh[tail + 1]] = @ - 1]
  /\ phase' = IF tail + 2 >= Len(lh) THEN "clear" ELSE phase
  /\ UNCHANGED <<logdata, head, lh, outstanding, committing, pc, wrote,
                 panicked>>

install_trans ==
  /\ phase = "install"
  /\ InstallOne
  /\ pin' = [pin EXCEPT ![lh[tail + 1]] = @ - 1]
  /\ phase' = IF tail + 1 = Len(lh) THEN "clear" ELSE phase
  /\ UNCHANGED <<logdata, head, lh, outstanding, committing, pc, wrote,
                 panicked>>

\* log.lh.n = 0; write_head()
clear_head ==
  /\ phase = "clear"
  /\ lh' = <<>>
  /\ head' = <<>>
  /\ phase' = "finish"
  /\ UNCHANGED <<disk, logdata, outstanding, committing, cache, pin, tail,
                 pc, wrote, panicked>>

\* end_op() after commit() returns.
finish_commit(p) ==
  /\ phase = "finish" /\ pc[p] = "commit"
  /\ committing' = FALSE
  /\ phase' = "run"
  /\ pc' = wakeup([pc EXCEPT ![p] = "idle"])
  /\ UNCHANGED <<disk, logdata, head, lh, outstanding, cache, pin, tail,
                 wrote, panicked>>

(***************************************************************************)
(* recover_from_log(): no process runs a file-system call yet.             *)
(***************************************************************************)
read_head ==
  /\ phase = "read_head"
  /\ lh' = head
  /\ tail' = 0
  /\ phase' = IF head = <<>> THEN "rclear" ELSE "rinstall"
  /\ UNCHANGED <<disk, logdata, head, outstanding, committing, cache, pin,
                 pc, wrote, panicked>>

recover_install ==
  /\ phase = "rinstall"
  /\ InstallOne
  /\ phase' = IF tail + 1 = Len(lh) THEN "rclear" ELSE phase
  /\ UNCHANGED <<logdata, head, lh, outstanding, committing, pin, pc, wrote,
                 panicked>>

recover_clear ==
  /\ phase = "rclear"
  /\ lh' = <<>>
  /\ head' = <<>>
  /\ phase' = "run"
  /\ UNCHANGED <<disk, logdata, outstanding, committing, cache, pin, tail,
                 pc, wrote, panicked>>

(***************************************************************************)
(* The environment of the log.                                             *)
(***************************************************************************)
\* bread() of an uncached block by anyone.
bread(b) ==
  /\ ~Recovering
  /\ cache[b] = NotCached
  /\ cache' = [cache EXCEPT ![b] = disk[b]]
  /\ UNCHANGED <<disk, logdata, head, lh, outstanding, committing, pin,
                 phase, tail, pc, wrote, panicked>>

\* Mutant: the reference count is not looked at.
recycle_pinned(b) ==
  /\ cache[b] # NotCached
  /\ cache' = [cache EXCEPT ![b] = NotCached]
  /\ UNCHANGED <<disk, logdata, head, lh, outstanding, committing, pin,
                 phase, tail, pc, wrote, panicked>>

\* bget() recycles an unreferenced buffer for another block.
recycle(b) ==
  /\ cache[b] # NotCached
  /\ pin[b] = 0
  /\ cache' = [cache EXCEPT ![b] = NotCached]
  /\ UNCHANGED <<disk, logdata, head, lh, outstanding, committing, pin,
                 phase, tail, pc, wrote, panicked>>

\* kill() makes a sleeping process runnable; begin_op() looks again.
kill(p) ==
  /\ pc[p] = "asleep"
  /\ pc' = [pc EXCEPT ![p] = "woken"]
  /\ UNCHANGED <<disk, logdata, head, lh, outstanding, committing, cache,
                 pin, phase, tail, wrote, panicked>>

\* What a power failure during the write of new over old can leave.
Residue(old, new) == {old, new, Torn}

Crash ==
  /\ IF phase = "write_log"
     THEN \E x \in Residue(logdata[tail + 1], cache[lh[tail + 1]]) :
             logdata' = [logdata EXCEPT ![tail + 1] = x]
     ELSE UNCHANGED logdata
  /\ IF phase \in {"install", "rinstall"}
     THEN \E x \in Residue(disk[lh[tail + 1]], logdata[tail + 1]) :
             disk' = [disk EXCEPT ![lh[tail + 1]] = x]
     ELSE UNCHANGED disk
  /\ UNCHANGED head
  /\ lh' = <<>>
  /\ outstanding' = 0
  /\ committing' = FALSE
  /\ cache' = [b \in Blocks |-> NotCached]
  /\ pin' = [b \in Blocks |-> 0]
  /\ phase' = "read_head"
  /\ tail' = 0
  /\ pc' = [p \in Procs |-> "idle"]
  /\ wrote' = [p \in Procs |-> {}]
  /\ panicked' = FALSE

Commit == write_log \/ write_head \/ install_trans \/ clear_head
Recover == read_head \/ recover_install \/ recover_clear

Next ==
  \/ \E p \in Procs : begin_op(p) \/ end_op(p) \/ finish_commit(p) \/ kill(p)
  \/ \E p \in Procs, b \in Blocks, v \in Val : log_write(p, b, v)
  \/ \E b \in Blocks : bread(b) \/ recycle(b)
  \/ Commit \/ Recover \/ Crash

Spec == Init /\ [][Next]_vars

\* A call ends, a commit and a recovery go on: the kernel schedules every
\* runnable process, and no file-system call leaves begin_op..end_op open.
Fairness == /\ WF_vars(Commit) /\ WF_vars(Recover)
            /\ \A p \in Procs : WF_vars(end_op(p)) /\ WF_vars(finish_commit(p))

LiveSpec == Spec /\ Fairness
-----------------------------------------------------------------------------
(***************************************************************************)
(* Properties.                                                             *)
(***************************************************************************)
Entries == Val \union {Torn}

\* Type invariant; no torn block is ever in the cache, and a buffer is pinned
\* at most once.
TypeOK ==
  /\ disk \in [Blocks -> Entries]
  /\ logdata \in [1..(NLOG - 1) -> Entries]
  /\ head \in Seq(Blocks)
  /\ lh \in Seq(Blocks)
  /\ outstanding \in Nat
  /\ committing \in BOOLEAN
  /\ cache \in [Blocks -> Val \union {NotCached}]
  /\ pin \in [Blocks -> {0, 1}]
  /\ phase \in {"run", "write_log", "write_head", "install", "clear",
                "finish", "read_head", "rinstall", "rclear"}
  /\ tail \in Nat
  /\ pc \in [Procs -> {"idle", "woken", "asleep", "inop", "commit"}]
  /\ wrote \in [Procs -> SUBSET Blocks]
  /\ panicked \in BOOLEAN

\* What bread(b) returns now.
View == [b \in Blocks |-> IF cache[b] = NotCached THEN disk[b] ELSE cache[b]]

\* What recovery would leave on disk if the power failed now.
Recovered ==
  [b \in Blocks |-> IF b \in Range(head)
                    THEN logdata[CHOOSE i \in DOMAIN head : head[i] = b]
                    ELSE disk[b]]

AD == INSTANCE AtomicDisk WITH
        mem    <- IF Recovering THEN Recovered ELSE View,
        stable <- Recovered,
        nops   <- outstanding

\* The log implements the atomic disk: every update of every call reaches
\* stable storage together with the rest of its transaction, never while a
\* call is in progress, and a crash at any point, in commit(), recovery or
\* elsewhere, leaves the contents of the last commit.
AtomicDiskSpec == AD!ASpec

\* end_op() of the last call returns only once everything is durable: with
\* no call in progress and no commit running, memory and stable contents
\* agree and the log is empty.
QuiescentDurable ==
  phase = "run" /\ outstanding = 0 => View = Recovered /\ lh = <<>>

\* No panic of log.c fires: the reservation of begin_op() leaves room for
\* every block of every admitted call, no block is logged outside a
\* transaction, and no call ends during a commit.
NoPanic == ~panicked

\* A process sleeping in begin_op() has someone to wake it: a call still in
\* progress or a commit that is running.
SleeperHasWaker ==
  \A p \in Procs : pc[p] = "asleep" => outstanding > 0 \/ committing

\* Action property: the home area of the disk changes only while a header
\* that commits the new contents is on disk.
WriteAhead ==
  [][\A b \in Blocks : disk'[b] # disk[b] => b \in Range(head)]_vars

\* Every sleep in begin_op() ends: a call in progress ends, or the commit does,
\* and wakes all the sleepers.
SleepEnds == \A p \in Procs : pc[p] = "asleep" ~> pc[p] # "asleep"

(***************************************************************************)
(* The inductive invariant behind the properties above.                    *)
(***************************************************************************)
InOp == {p \in Procs : pc[p] = "inop"}

\* Who may be doing what: outstanding counts the open calls, one process
\* commits, and nothing else of the log runs during commit or recovery.
PhaseInv ==
  /\ committing <=> phase \in {"write_log", "write_head", "install", "clear",
                               "finish"}
  /\ phase # "run" => outstanding = 0
  /\ outstanding = Cardinality(InOp)
  /\ committing <=> \E p \in Procs : pc[p] = "commit"
  /\ \A p, q \in Procs : pc[p] = "commit" /\ pc[q] = "commit" => p = q

\* The two headers: no block twice, and the one on disk names committed
\* blocks only.
HeadInv ==
  /\ Len(lh) <= NLOG - 1 /\ Len(head) <= NLOG - 1
  /\ IsInjective(lh) /\ IsInjective(head)
  /\ phase \in {"run", "write_log", "write_head", "finish"} => head = <<>>
  /\ phase \in {"install", "clear", "rinstall", "rclear"} => head = lh
  /\ phase \in {"finish", "read_head"} => lh = <<>>
  /\ phase = "run" /\ outstanding = 0 => lh = <<>>
  /\ phase \in {"write_log", "install", "rinstall"} => tail < Len(lh)
  /\ phase = "write_head" => lh # <<>>

\* Blocks logged and not yet installed: the pinned ones.
Pending ==
  CASE phase \in {"run", "write_log", "write_head"} -> Range(lh)
    [] phase = "install" -> {lh[i] : i \in (tail + 1)..Len(lh)}
    [] OTHER -> {}

\* An unpinned buffer holds what the disk holds, so recycling it loses
\* nothing; a pinned one stays cached.
CacheInv ==
  \A b \in Blocks : /\ pin[b] = (IF b \in Pending THEN 1 ELSE 0)
                    /\ b \in Pending => cache[b] # NotCached
                    /\ b \notin Pending => cache[b] \in {NotCached, disk[b]}

\* The data blocks of the log against the cache and the home area.
DataInv ==
  /\ phase = "write_log" =>
       \A i \in 1..tail : logdata[i] = cache[lh[i]]
  /\ phase = "write_head" =>
       \A i \in 1..Len(lh) : logdata[i] = cache[lh[i]]
  /\ phase = "install" =>
       \A i \in (tail + 1)..Len(lh) : logdata[i] = cache[lh[i]]
  /\ phase \in {"install", "rinstall"} =>
       \A i \in 1..tail : disk[lh[i]] = logdata[i]
  /\ phase \in {"clear", "rclear"} =>
       \A i \in 1..Len(head) : disk[head[i]] = logdata[i]
  /\ \A i \in 1..Len(head) : logdata[i] \in Val
  /\ \A b \in Blocks : b \notin Range(head) => disk[b] \in Val

\* The inductive invariant: where commit() and recovery are, what the two
\* headers name, what the cache, the log blocks and the home area hold then.
LogInv == TypeOK /\ PhaseInv /\ HeadInv /\ CacheInv /\ DataInv

\* Charges(A) pairs the calls of A with the blocks they have
\* written; begin_op() has reserved MAXOPBLOCKS for each open call, of which
\* the charges are the part already turned into log entries.
Charges(A) == {x \in A \X Blocks : x[2] \in wrote[x[1]]}

\* The reservation of begin_op() against the blocks log_write() has recorded:
\* what the open calls may still add fits into the LOGSIZE entries.
SpaceInv ==
  /\ \A p \in Procs \ InOp : wrote[p] = {}
  /\ ~panicked => \A p \in Procs : wrote[p] \subseteq Range(lh)
  /\ \A A \in SUBSET Procs :
        Cardinality(Charges(A)) <= Cardinality(A \intersect InOp) * OPW
  /\ Len(lh) + outstanding * MAXOPBLOCKS
       <= LOGSIZE + Cardinality(Charges(Procs))
  /\ Len(head) <= LOGSIZE
=============================================================================
