------------------------------- MODULE Itable -------------------------------
(***************************************************************************)
(* The table of in-memory inodes of kernel/fs.c: iget(), ilock(),          *)
(* iunlock(), iput() and ialloc(), used by processes that look a name up,  *)
(* create, link and unlink files.  What runs under itable.lock is one step;*)
(* so is what a process does to an inode while it has its sleep-lock, where*)
(* no other inode is involved.  The log makes each call atomic on disk     *)
(* (module Log), so disk inodes are the logged ones.                       *)
(***************************************************************************)
EXTENDS Integers, FiniteSets, FiniteSetsExt

CONSTANTS Procs, Nobody,
          Inums,    \* inode numbers, a set of positive numbers
          NINODE,   \* slots of the table
          MAXLINK   \* bound on the links to a file

ItableAssumption == /\ Inums \subseteq Nat \ {0} /\ IsFiniteSet(Inums)
                           /\ NINODE \in Nat \ {0} /\ MAXLINK \in Nat
                           /\ Nobody \notin Procs /\ IsFiniteSet(Procs)

Slots == 1..NINODE
NoSlot == 0

VARIABLES
  dinode,   \* on disk: whether an inode is in use (type # 0), and its nlink
  entries,  \* directory entries that a lookup can find, for each inode; the
            \* directory an unlink() or create() works in is locked
  itable,   \* the slots
  lock,     \* holder of the sleep-lock of each slot
  pc, ip,   \* where each process is, and the slot it refers to (in ialloc()
            \* the inode number)
  panicked  \* "iget: no inodes", "ilock: no type"

vars == <<dinode, entries, itable, lock, pc, ip, panicked>>

Free == [used |-> FALSE, nlink |-> 0]

\* One file with one name; iinit() leaves the table empty.
Init ==
  /\ \E i \in Inums : dinode = [[j \in Inums |-> Free] EXCEPT
                                  ![i] = [used |-> TRUE, nlink |-> 1]]
  /\ entries = [i \in Inums |-> dinode[i].nlink]
  /\ itable = [s \in Slots |-> [inum |-> 0, ref |-> 0, valid |-> FALSE,
                                copy |-> Free]]
  /\ lock = [s \in Slots |-> Nobody]
  /\ pc = [p \in Procs |-> "idle"]
  /\ ip = [p \in Procs |-> NoSlot]
  /\ panicked = FALSE

At(p, where) == pc[p] = where /\ ~panicked
Goto(p, where) == pc' = [pc EXCEPT ![p] = where]

(***************************************************************************)
(* References.                                                             *)
(***************************************************************************)
\* Mutant: a slot whose copy is not valid is not found.
Cached_valid(i) == {s \in Slots : itable[s].ref > 0 /\ itable[s].inum = i
                                  /\ itable[s].valid}

Cached(i) == {s \in Slots : itable[s].ref > 0 /\ itable[s].inum = i}

\* Mutant: a slot is free once its copy is invalid.
Empty_invalid == {s \in Slots : ~itable[s].valid}

Empty == {s \in Slots : itable[s].ref = 0}

\* iget(): the slot that has the inode, or the first empty one.
iget(p, i, where) ==
  IF Cached(i) # {}
  THEN LET s == Min(Cached(i)) IN
       /\ itable' = [itable EXCEPT ![s].ref = @ + 1]
       /\ ip' = [ip EXCEPT ![p] = s]
       /\ Goto(p, where) /\ UNCHANGED panicked
  ELSE IF Empty # {}
  THEN LET s == Min(Empty) IN
       /\ itable' = [itable EXCEPT ![s] = [inum |-> i, ref |-> 1,
                                           valid |-> FALSE, copy |-> @.copy]]
       /\ ip' = [ip EXCEPT ![p] = s]
       /\ Goto(p, where) /\ UNCHANGED panicked
  ELSE panicked' = TRUE /\ UNCHANGED <<itable, ip, pc>>

\* dirlookup() finds an entry, its directory being locked.
lookup(p, i) ==
  /\ At(p, "idle") /\ entries[i] > 0
  /\ iget(p, i, "ref")
  /\ UNCHANGED <<dinode, entries, lock>>

\* idup(): for a fork, a process that holds no inode copies q's reference.
idup(p, q) ==
  /\ At(p, "idle") /\ pc[q] = "ref"
  /\ itable' = [itable EXCEPT ![ip[q]].ref = @ + 1]
  /\ ip' = [ip EXCEPT ![p] = ip[q]]
  /\ Goto(p, "ref")
  /\ UNCHANGED <<dinode, entries, lock, panicked>>

\* ialloc(): the first inode of type 0 is claimed in its disk block.
ialloc(p) ==
  LET free == {i \in Inums : ~dinode[i].used} IN
  /\ At(p, "idle") /\ free # {}
  /\ dinode' = [dinode EXCEPT ![Min(free)] = [used |-> TRUE, nlink |-> 0]]
  /\ Goto(p, "ialloc")
  /\ ip' = [ip EXCEPT ![p] = Min(free)]
  /\ UNCHANGED <<entries, itable, lock, panicked>>

\* "ialloc: no inodes": the call fails.
ialloc_none(p) ==
  /\ At(p, "idle") /\ \A i \in Inums : dinode[i].used
  /\ UNCHANGED vars

\* The iget() at the end of ialloc().
ialloc_iget(p) ==
  /\ At(p, "ialloc")
  /\ iget(p, ip[p], "new")
  /\ UNCHANGED <<dinode, entries, lock>>

(***************************************************************************)
(* The sleep-lock.                                                         *)
(***************************************************************************)
\* Mutant: a valid copy is not needed.
Loaded_stale(s) == itable[s].copy

\* The copy after ilock() has read the inode unless it is valid.
Loaded(s) == IF itable[s].valid THEN itable[s].copy
             ELSE dinode[itable[s].inum]

\* "ilock: no type" is a panic.
ilock(p, from, to) ==
  LET s == ip[p] IN
  /\ At(p, from) /\ lock[s] = Nobody
  /\ lock' = [lock EXCEPT ![s] = p]
  /\ itable' = [itable EXCEPT ![s].copy = Loaded(s), ![s].valid = TRUE]
  /\ panicked' = ~Loaded(s).used
  /\ Goto(p, to)
  /\ UNCHANGED <<dinode, entries, ip>>

\* iupdate() of a new nlink, by the holder of the lock, then iunlock().
Update(p, n, to) ==
  LET s == ip[p]
      new == [used |-> TRUE, nlink |-> n] IN
  /\ itable' = [itable EXCEPT ![s].copy = new]
  /\ dinode' = [dinode EXCEPT ![itable[s].inum] = new]
  /\ lock' = [lock EXCEPT ![s] = Nobody]
  /\ Goto(p, to)
  /\ UNCHANGED <<ip, panicked>>

Entries(p, n) == entries' = [entries EXCEPT ![itable[ip[p]].inum] = @ + n]
Links(p) == itable[ip[p]].copy.nlink

\* A process that only looks: stat, read, write.
iunlock(p) ==
  /\ At(p, "locked")
  /\ Update(p, Links(p), "ref") /\ Entries(p, 0)

\* create(): nlink = 1 and the entry, or, if dirlink() fails, nlink = 0.
create(p) ==
  /\ At(p, "create")
  /\ \/ Update(p, 1, "ref") /\ Entries(p, 1)
     \/ Update(p, 0, "ref") /\ Entries(p, 0)

\* sys_link(): nlink is raised first; then dirlink() adds the entry, or fails
\* and nlink is lowered again under a second ilock().
link(p) ==
  /\ At(p, "locked") /\ Links(p) < MAXLINK
  /\ Update(p, Links(p) + 1, "link") /\ Entries(p, 0)

link_entry(p) ==
  /\ At(p, "link")
  /\ \/ Goto(p, "ref") /\ Entries(p, 1)
     \/ Goto(p, "linkbad") /\ UNCHANGED entries
  /\ UNCHANGED <<dinode, itable, lock, ip, panicked>>

link_bad(p) ==
  /\ At(p, "unlink")
  /\ Update(p, Links(p) - 1, "ref") /\ Entries(p, 0)

\* sys_unlink(): the entry is found and, once the inode is locked, removed.
unlink_lookup(p, i) ==
  /\ At(p, "idle") /\ entries[i] > 0
  /\ iget(p, i, "unlinking")
  /\ entries' = IF panicked' THEN entries ELSE [entries EXCEPT ![i] = @ - 1]
  /\ UNCHANGED <<dinode, lock>>

\* Mutant: the link count is left alone.
Lowered_not(n) == n

Lowered(n) == n - 1

unlink(p) ==
  /\ At(p, "unlinked")
  /\ \/ Update(p, Lowered(Links(p)), "ref") /\ Entries(p, 0)
     \/ Update(p, Links(p), "ref") /\ Entries(p, 1)  \* a directory, not empty

(***************************************************************************)
(* iput()                                                                  *)
(***************************************************************************)
\* Mutant: a file without links is freed under those who still refer to it.
LastRef_any(s) == itable[s].valid /\ itable[s].copy.nlink = 0

LastRef(s) == itable[s].ref = 1 /\ itable[s].valid /\ itable[s].copy.nlink = 0

\* Mutant: the reference is not given back.
Dropped_not(n) == n

Dropped(n) == n - 1

\* Up to the release of itable.lock, or to the end.
iput(p) ==
  LET s == ip[p] IN
  /\ At(p, "ref")
  /\ IF LastRef(s)
     THEN /\ Goto(p, "iput") /\ UNCHANGED <<itable, ip>>
     ELSE /\ itable' = [itable EXCEPT ![s].ref = Dropped(@)]
          /\ ip' = [ip EXCEPT ![p] = NoSlot]
          /\ Goto(p, "idle")
  /\ UNCHANGED <<dinode, entries, lock, panicked>>

\* acquiresleep() in iput(), which must not have to wait.
iput_lock(p) ==
  /\ At(p, "iput") /\ lock[ip[p]] = Nobody
  /\ lock' = [lock EXCEPT ![ip[p]] = p]
  /\ Goto(p, "free")
  /\ UNCHANGED <<dinode, entries, itable, ip, panicked>>

\* Mutant: the copy stays valid.
Invalidated_not(s) == itable[s].valid

Invalidated(s) == FALSE

\* itrunc(), type = 0, iupdate(), valid = 0, releasesleep().
iput_free(p) ==
  LET s == ip[p] IN
  /\ At(p, "free")
  /\ dinode' = [dinode EXCEPT ![itable[s].inum] = Free]
  /\ itable' = [itable EXCEPT ![s].valid = Invalidated(s)]
  /\ lock' = [lock EXCEPT ![s] = Nobody]
  /\ Goto(p, "unref")
  /\ UNCHANGED <<entries, ip, panicked>>

\* ref--, under itable.lock again.
iput_end(p) ==
  /\ At(p, "unref")
  /\ itable' = [itable EXCEPT ![ip[p]].ref = Dropped(@)]
  /\ ip' = [ip EXCEPT ![p] = NoSlot]
  /\ Goto(p, "idle")
  /\ UNCHANGED <<dinode, entries, lock, panicked>>

Halted == panicked /\ UNCHANGED vars

Next ==
  \/ Halted
  \/ \E p \in Procs :
     \/ \E i \in Inums : lookup(p, i) \/ unlink_lookup(p, i)
     \/ \E q \in Procs : idup(p, q)
     \/ ialloc(p) \/ ialloc_none(p) \/ ialloc_iget(p)
     \/ ilock(p, "ref", "locked") \/ ilock(p, "new", "create")
     \/ ilock(p, "unlinking", "unlinked") \/ ilock(p, "linkbad", "unlink")
     \/ iunlock(p) \/ create(p) \/ link(p) \/ link_entry(p) \/ link_bad(p)
     \/ unlink(p) \/ iput(p) \/ iput_lock(p) \/ iput_free(p) \/ iput_end(p)

Spec == Init /\ [][Next]_vars
-----------------------------------------------------------------------------
(***************************************************************************)
(* Properties.                                                             *)
(***************************************************************************)
\* Type invariant.
TypeOK ==
  /\ dinode \in [Inums -> [used : BOOLEAN, nlink : 0..MAXLINK]]
  /\ entries \in [Inums -> 0..MAXLINK]
  /\ itable \in [Slots -> [inum : Inums \union {0}, ref : 0..Cardinality(Procs),
                           valid : BOOLEAN,
                           copy : [used : BOOLEAN, nlink : 0..MAXLINK]]]
  /\ lock \in [Slots -> Procs \union {Nobody}]
  /\ pc \in [Procs -> {"idle", "ialloc", "ref", "new", "locked", "create",
                       "link", "linkbad", "unlink", "unlinking", "unlinked",
                       "iput", "free", "unref"}]
  /\ ip \in [Procs -> Slots \union Inums \union {NoSlot}]
  /\ panicked \in BOOLEAN

Users(s) == {p \in Procs : ip[p] = s /\ pc[p] \notin {"idle", "ialloc"}}

\* ip->ref "tracks the number of in-memory pointers to the entry", so a slot
\* somebody uses is never given to another inode; and no inode has two slots,
\* which would have two locks.
RefExact ==
  /\ \A s \in Slots : itable[s].ref = Cardinality(Users(s))
  /\ \A s, t \in Slots : s # t /\ itable[s].ref > 0 /\ itable[t].ref > 0
                           => itable[s].inum # itable[t].inum

\* ilock() never finds an inode of type 0, and a process that uses an inode
\* finds it allocated: iput() frees no inode that somebody refers to or that
\* has a name, and an inode that ialloc() hands out again is read afresh.
NoTypePanic ==
  \A p \in Procs : pc[p] \in {"locked", "create", "unlink", "unlinked"} =>
    itable[ip[p]].copy.used

\* A valid copy that nobody is changing agrees with the disk.
CopyCoherent ==
  \A s \in Slots : itable[s].ref > 0 /\ itable[s].valid
    => itable[s].copy = dinode[itable[s].inum]

\* "ip->ref == 1 means no other process can have ip locked, so this
\* acquiresleep() won't block (or deadlock)", although iput() has released
\* itable.lock by then and others may have come by.
IputDoesNotBlock == \A p \in Procs : pc[p] = "iput" => lock[ip[p]] = Nobody

Pending(i, where) ==
  Cardinality({p \in Procs : /\ pc[p] \in where
                             /\ itable[ip[p]].inum = i})

\* nlink counts the entries of an inode, and the calls that are about to add
\* or to remove one.
LinksCounted ==
  \A i \in Inums :
    dinode[i].nlink = entries[i] + Pending(i, {"link", "linkbad", "unlink",
                                               "unlinking", "unlinked"})

\* "iput() frees if the reference and link counts have fallen to zero": an
\* inode that is in use on disk has a link or is referred to.
FreedWhenUnused ==
  \A i \in Inums : dinode[i].used /\ dinode[i].nlink = 0 =>
    \/ \E s \in Slots : itable[s].ref > 0 /\ itable[s].inum = i
    \/ \E p \in Procs : pc[p] = "ialloc" /\ ip[p] = i
=============================================================================
