------------------------------- MODULE Bcache -------------------------------
(***************************************************************************)
(* The buffer cache of kernel/bio.c with the sleep-locks of                *)
(* kernel/sleeplock.c.  What runs under bcache.lock, or under the spinlock *)
(* inside a sleep-lock, is one step; so is one transfer of the disk driver.*)
(*                                                                         *)
(* The callers keep the rules of the layers above: a modified buffer is    *)
(* written or pinned by log_write() before it is released, and unpinned    *)
(* only once it has been written (install_trans()).                        *)
(***************************************************************************)
EXTENDS Integers, FiniteSets, SequencesExt

CONSTANTS Procs,    \* processes that use the cache
          Blocks,   \* block numbers
          Val,      \* block contents
          NBUF,     \* buffers
          Nobody,   \* no process
          NoBlock   \* dev/blockno of a buffer that was never used

ASSUME BcacheAssumption == /\ NBUF \in Nat \ {0}
                           /\ Nobody \notin Procs
                           /\ NoBlock \notin Blocks
                           /\ Val # {}
                           /\ IsFiniteSet(Procs)

Bufs == 1..NBUF
NoBuf == 0

VARIABLES
  blockno, valid, refcnt, data,  \* fields of each buffer
  locked,     \* process that holds the sleep-lock of each buffer
  lru,        \* bcache.head's list, most recently used first
  disk,       \* blocks on disk
  pinned,     \* buffers bpin() has taken a reference on for the log
  pc, buf,    \* where each process is, and the buffer it is working with
  panicked    \* bget(): no buffers

vars == <<blockno, valid, refcnt, data, locked, lru, disk, pinned, pc, buf,
          panicked>>

\* binit(): the buffers are zeroed memory, all unused.
Init ==
  /\ blockno = [x \in Bufs |-> NoBlock]
  /\ valid = [x \in Bufs |-> FALSE]
  /\ refcnt = [x \in Bufs |-> 0]
  /\ data \in {[x \in Bufs |-> v] : v \in Val}
  /\ locked = [x \in Bufs |-> Nobody]
  /\ lru = [k \in Bufs |-> NBUF + 1 - k]
  /\ disk \in [Blocks -> Val]
  /\ pinned = {}
  /\ pc = [p \in Procs |-> "idle"]
  /\ buf = [p \in Procs |-> NoBuf]
  /\ panicked = FALSE

(***************************************************************************)
(* bread()                                                                 *)
(***************************************************************************)
\* Mutant: only buffers in use are found.
Cached_busy(b) == {x \in Bufs : blockno[x] = b /\ refcnt[x] > 0}

Cached(b) == {x \in Bufs : blockno[x] = b}

\* Mutant: buffers in use are recycled too.
Unused_any == Bufs

\* Positions in the list of the buffers that may be recycled.
Unused == {k \in Bufs : refcnt[lru[k]] = 0}

\* Take a reference on buffer x and go on to its sleep-lock.
Reference(p, x) ==
  /\ buf' = [buf EXCEPT ![p] = x]
  /\ pc' = [pc EXCEPT ![p] = "acquiresleep"]

\* bget(), up to the release of bcache.lock.
bget(p, b) ==
  /\ pc[p] = "idle" /\ ~panicked
  /\ IF Cached(b) # {}
     THEN LET x == CHOOSE y \in Cached(b) : TRUE IN
          /\ refcnt' = [refcnt EXCEPT ![x] = @ + 1]
          /\ Reference(p, x)
          /\ UNCHANGED <<blockno, valid, panicked>>
     ELSE IF Unused # {}
     THEN LET x == lru[Max(Unused)] IN
          /\ blockno' = [blockno EXCEPT ![x] = b]
          /\ valid' = [valid EXCEPT ![x] = FALSE]
          /\ refcnt' = [refcnt EXCEPT ![x] = 1]
          /\ Reference(p, x)
          /\ UNCHANGED panicked
     ELSE panicked' = TRUE /\ UNCHANGED <<blockno, valid, refcnt, buf, pc>>
  /\ UNCHANGED <<data, locked, lru, disk, pinned>>

\* acquiresleep(): one look at lk->locked.
acquiresleep(p) ==
  LET x == buf[p] IN
  /\ pc[p] = "acquiresleep"
  /\ IF locked[x] # Nobody
     THEN pc' = [pc EXCEPT ![p] = "asleep"] /\ UNCHANGED locked
     ELSE /\ locked' = [locked EXCEPT ![x] = p]
          /\ pc' = [pc EXCEPT ![p] = "bread"]
  /\ UNCHANGED <<blockno, valid, refcnt, data, lru, disk, pinned, buf,
                 panicked>>

\* bread() after bget(): read the block unless the buffer is valid.
bread(p) ==
  LET x == buf[p] IN
  /\ pc[p] = "bread"
  /\ data' = [data EXCEPT ![x] = IF valid[x] THEN @ ELSE disk[blockno[x]]]
  /\ valid' = [valid EXCEPT ![x] = TRUE]
  /\ pc' = [pc EXCEPT ![p] = "using"]
  /\ UNCHANGED <<blockno, refcnt, locked, lru, disk, pinned, buf, panicked>>

(***************************************************************************)
(* What the holder of a buffer does with it.                               *)
(***************************************************************************)
Clean(x) == data[x] = disk[blockno[x]]

modify(p, v) ==
  /\ pc[p] = "using"
  /\ data' = [data EXCEPT ![buf[p]] = v]
  /\ UNCHANGED <<blockno, valid, refcnt, locked, lru, disk, pinned, pc, buf,
                 panicked>>

bwrite(p) ==
  LET x == buf[p] IN
  /\ pc[p] = "using"
  /\ disk' = [disk EXCEPT ![blockno[x]] = data[x]]
  /\ UNCHANGED <<blockno, valid, refcnt, data, locked, lru, pinned, pc, buf,
                 panicked>>

bpin(p) ==
  LET x == buf[p] IN
  /\ pc[p] = "using" /\ x \notin pinned /\ ~panicked
  /\ refcnt' = [refcnt EXCEPT ![x] = @ + 1]
  /\ pinned' = pinned \union {x}
  /\ UNCHANGED <<blockno, valid, data, locked, lru, disk, pc, buf, panicked>>

\* Mutant: the reference is not given back.
bunpin_leak(p) ==
  LET x == buf[p] IN
  /\ pc[p] = "using" /\ x \in pinned /\ Clean(x) /\ ~panicked
  /\ pinned' = pinned \ {x}
  /\ UNCHANGED <<blockno, valid, refcnt, data, locked, lru, disk, pc, buf,
                 panicked>>

bunpin(p) ==
  LET x == buf[p] IN
  /\ pc[p] = "using" /\ x \in pinned /\ Clean(x) /\ ~panicked
  /\ refcnt' = [refcnt EXCEPT ![x] = @ - 1]
  /\ pinned' = pinned \ {x}
  /\ UNCHANGED <<blockno, valid, data, locked, lru, disk, pc, buf, panicked>>

(***************************************************************************)
(* brelse(): first the sleep-lock, then, under bcache.lock, the reference. *)
(***************************************************************************)
\* Mutant: nobody is woken up.
releasesleep_quiet(p) ==
  LET x == buf[p] IN
  /\ pc[p] = "using"
  /\ Clean(x) \/ x \in pinned
  /\ locked' = [locked EXCEPT ![x] = Nobody]
  /\ pc' = [pc EXCEPT ![p] = "brelse"]
  /\ UNCHANGED <<blockno, valid, refcnt, data, lru, disk, pinned, buf,
                 panicked>>

\* releasesleep(): everyone who sleeps on the lock is woken up.
releasesleep(p) ==
  LET x == buf[p] IN
  /\ pc[p] = "using"
  /\ Clean(x) \/ x \in pinned
  /\ locked' = [locked EXCEPT ![x] = Nobody]
  /\ pc' = [q \in Procs |->
              IF q = p THEN "brelse"
              ELSE IF pc[q] = "asleep" /\ buf[q] = x THEN "acquiresleep"
              ELSE pc[q]]
  /\ UNCHANGED <<blockno, valid, refcnt, data, lru, disk, pinned, buf,
                 panicked>>

\* b->next->prev = b->prev and b->prev->next = b->next.
Unlinked(x) == RemoveAt(lru, CHOOSE k \in Bufs : lru[k] = x)

\* Mutant: the buffer is put in front without being unlinked first.
brelse_twice(p) ==
  LET x == buf[p] IN
  /\ pc[p] = "brelse" /\ ~panicked
  /\ refcnt' = [refcnt EXCEPT ![x] = @ - 1]
  /\ lru' = IF refcnt[x] = 1 THEN <<x>> \o lru ELSE lru
  /\ pc' = [pc EXCEPT ![p] = "idle"]
  /\ buf' = [buf EXCEPT ![p] = NoBuf]
  /\ UNCHANGED <<blockno, valid, data, locked, disk, pinned, panicked>>

brelse(p) ==
  LET x == buf[p] IN
  /\ pc[p] = "brelse" /\ ~panicked
  /\ refcnt' = [refcnt EXCEPT ![x] = @ - 1]
  /\ lru' = IF refcnt[x] = 1 THEN <<x>> \o Unlinked(x) ELSE lru
  /\ pc' = [pc EXCEPT ![p] = "idle"]
  /\ buf' = [buf EXCEPT ![p] = NoBuf]
  /\ UNCHANGED <<blockno, valid, data, locked, disk, pinned, panicked>>

\* kill() makes a sleeper runnable; acquiresleep() looks again.
kill(p) ==
  /\ pc[p] = "asleep"
  /\ pc' = [pc EXCEPT ![p] = "acquiresleep"]
  /\ UNCHANGED <<blockno, valid, refcnt, data, locked, lru, disk, pinned, buf,
                 panicked>>

Release(p) == releasesleep(p) \/ brelse(p)

\* A CPU spins in panic() with bcache.lock held.
Halted == panicked /\ UNCHANGED vars

Next ==
  \/ Halted
  \/ \E p \in Procs :
    \/ \E b \in Blocks : bget(p, b)
    \/ acquiresleep(p) \/ bread(p)
    \/ \E v \in Val : modify(p, v)
    \/ bwrite(p) \/ bpin(p) \/ bunpin(p)
    \/ Release(p) \/ kill(p)

Spec == Init /\ [][Next]_vars

\* A holder gets on and lets go of its buffer; a process woken up in
\* acquiresleep() is not passed over for ever.
Fairness ==
  \A p \in Procs : /\ WF_vars(bread(p)) /\ WF_vars(bwrite(p))
                   /\ WF_vars(brelse(p))
                   /\ SF_vars(releasesleep(p))
                   /\ WF_vars(acquiresleep(p))
                   /\ SF_vars(acquiresleep(p) /\ locked[buf[p]] = Nobody)

LiveSpec == Spec /\ Fairness
-----------------------------------------------------------------------------
(***************************************************************************)
(* Properties.                                                             *)
(***************************************************************************)
\* Type invariant; the list of bcache.head holds every buffer once.
TypeOK ==
  /\ blockno \in [Bufs -> Blocks \union {NoBlock}]
  /\ valid \in [Bufs -> BOOLEAN]
  /\ refcnt \in [Bufs -> Nat]
  /\ data \in [Bufs -> Val]
  /\ locked \in [Bufs -> Procs \union {Nobody}]
  /\ lru \in Seq(Bufs) /\ Len(lru) = NBUF /\ Range(lru) = Bufs
  /\ disk \in [Blocks -> Val]
  /\ pinned \subseteq Bufs
  /\ pc \in [Procs -> {"idle", "acquiresleep", "asleep", "bread", "using",
                       "brelse"}]
  /\ buf \in [Procs -> Bufs \union {NoBuf}]
  /\ panicked \in BOOLEAN

Copies(b) == {x \in Bufs : blockno[x] = b}
Users(x) == {p \in Procs : buf[p] = x}

\* Two buffers never cache the same block, however the two scans of bget()
\* in several processes interleave with releases.
OneCopy == \A b \in Blocks : Cardinality(Copies(b)) <= 1

\* The reference count of a buffer is the number of processes between bget()
\* and the end of brelse(), plus the log's pin: a buffer somebody still
\* means to use, or whose changes are not on disk, is never recycled.
RefcntExact ==
  /\ \A x \in Bufs : refcnt[x] = Cardinality(Users(x))
                                 + (IF x \in pinned THEN 1 ELSE 0)
  /\ \A x \in Bufs : valid[x] /\ ~Clean(x) => refcnt[x] > 0

\* No lost wakeup in a sleep-lock: whoever sleeps on it waits for a holder
\* that has yet to call releasesleep().
SleeperHasHolder ==
  \A p \in Procs : pc[p] = "asleep" =>
    /\ locked[buf[p]] \notin {Nobody, p}
    /\ pc[locked[buf[p]]] \in {"bread", "using"}

Contents ==
  [b \in Blocks |->
     IF \E x \in Copies(b) : valid[x]
     THEN data[CHOOSE x \in Copies(b) : valid[x]]
     ELSE disk[b]]
Owner ==
  [b \in Blocks |->
     IF \E x \in Copies(b) : locked[x] # Nobody
     THEN locked[CHOOSE x \in Copies(b) : locked[x] # Nobody]
     ELSE Nobody]
BS == INSTANCE BlockStore WITH content <- Contents, owner <- Owner

\* The cache implements a store with one copy of every block, a lock per
\* block, and the contents the last holder left: bread() never returns a
\* stale block or one that another process is using.
BlockStoreSpec == BS!SSpec

\* Every bread() that has a reference on its buffer gets the buffer's lock in
\* the end: acquiresleep() does not sleep for ever while holders let go.
BreadReturns == \A p \in Procs : pc[p] = "acquiresleep" ~> pc[p] = "using"
=============================================================================
