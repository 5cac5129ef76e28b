------------------------------ MODULE Content ------------------------------
(***************************************************************************)
(* The blocks and the content of inodes: balloc(), bfree(), bmap(),         *)
(* itrunc(), readi(), writei() (kernel/fs.c) and the loops of fileread()    *)
(* and filewrite() (kernel/file.c) above them, run by processes that may    *)
(* have the same file open.                                                 *)
(*                                                                         *)
(* A step is one round of writei's loop, one bfree of itrunc, or the part   *)
(* of a call between two of these; the inode's sleep-lock is held across    *)
(* them.  A block is a sequence of BSIZE numbers, bytes of a file or, in an *)
(* indirect block, block numbers, as in the code.  The bitmap is one block  *)
(* (FSSIZE is less than BPB), "used" is its content.  A transaction is      *)
(* atomic (Log), so crashes add nothing to the moments between calls.       *)
(***************************************************************************)
EXTENDS Naturals, Sequences, FiniteSets, FiniteSetsExt

CONSTANTS Procs,       \* processes
          Files,       \* inode numbers of the files, 1..k
          NBLOCKS,     \* data blocks on the disk, 1..NBLOCKS
          BSIZE,       \* bytes, or block numbers, in a block
          NDIRECT,     \* direct block numbers in an inode
          MAXOPBLOCKS, \* blocks that one transaction may write
          WORD,        \* 2^32, the range of a uint
          Counts,      \* the byte counts that calls ask for
          Values,      \* 1..k, values of the bytes that a call writes
          NoProc       \* the owner of a free lock

ContentAssumption ==
  /\ {NBLOCKS, BSIZE, NDIRECT, MAXOPBLOCKS, WORD} \cup Counts \subseteq Nat \ {0}
  /\ WORD > (NDIRECT + BSIZE) * BSIZE + Max(Counts)
  /\ MAXOPBLOCKS >= 6

NINDIRECT == BSIZE
MAXFILE   == NDIRECT + NINDIRECT
Data      == 1..NBLOCKS
BITMAP    == 0              \* stands for the number of the bitmap block
Zeros     == [i \in 1..BSIZE |-> 0]

VARIABLES
  used,     \* data blocks marked in the bitmap
  blk,      \* content of the data blocks, as cached
  ino,      \* per file: addrs, size and the owner of its lock
  pr,       \* per process: the open file and the call in progress
  unlogged, \* blocks whose cached content changed and that no log_write of the
            \* transaction, before or after, took
  panicked  \* a panic of the code was reached

vars == <<used, blk, ino, pr, unlogged, panicked>>

\* A process between calls, with f->ip = file and f->off = off.  "logs" is what
\* its current transaction has written.
Idle(file, off) == [pc |-> "idle", file |-> file, off |-> off, left |-> 0, n |-> 0,
                    tot |-> 0, k |-> 0, x |-> 0, logs |-> {}]

Init ==
  /\ used = {}
  /\ blk = [b \in Data |-> Zeros]
  /\ ino = [f \in Files |-> [addrs |-> [j \in 1..(NDIRECT + 1) |-> 0],
                             size |-> 0, lock |-> NoProc]]
  /\ pr \in [Procs -> {Idle(f, 0) : f \in Files}]
  /\ unlogged = {}
  /\ panicked = FALSE

-----------------------------------------------------------------------------
(***************************************************************************)
(* Blocks.  S collects what an operation changes: the block number it       *)
(* returns, the bitmap, the blocks, the inode's addrs and the blocks logged. *)
(***************************************************************************)

\* balloc(): the lowest free block, marked and zeroed; 0 if there is none.
balloc(S) ==
  LET free == Data \ S.used
      b == Min(free)
  IN IF free = {} THEN [S EXCEPT !.addr = 0]
     ELSE [S EXCEPT !.addr = b, !.used = @ \cup {b}, !.blk[b] = Zeros,
                    !.logs = @ \cup {BITMAP, b}]

\* Mutant: the block number is not entered in the indirect block.
IndirectEntry_unset(S, a, j) ==
  IF S.blk[a][j] # 0 THEN [S EXCEPT !.addr = S.blk[a][j]] ELSE balloc(S)

\* The entry j of the indirect block a, allocated if necessary.
IndirectEntry(S, a, j) ==
  IF S.blk[a][j] # 0 THEN [S EXCEPT !.addr = S.blk[a][j]]
  ELSE LET T == balloc(S) IN
       IF T.addr = 0 THEN T
       ELSE [T EXCEPT !.blk[a][j] = T.addr, !.logs = @ \cup {a}]

\* The address j of the inode, allocated if necessary.
InodeEntry(S, j) ==
  IF S.addrs[j] # 0 THEN [S EXCEPT !.addr = S.addrs[j]]
  ELSE LET T == balloc(S) IN [T EXCEPT !.addrs[j] = T.addr]

\* bmap(): the disk block of the inode's block bn.
bmap(S, bn) ==
  IF bn < NDIRECT THEN InodeEntry(S, bn + 1)
  ELSE LET T == InodeEntry(S, NDIRECT + 1) IN
       IF T.addr = 0 THEN T ELSE IndirectEntry(T, T.addr, bn - NDIRECT + 1)

State(p) == [addr |-> 0, used |-> used, blk |-> blk,
             addrs |-> ino[pr[p].file].addrs, logs |-> pr[p].logs]

-----------------------------------------------------------------------------
(***************************************************************************)
(* filewrite() and writei().                                                *)
(***************************************************************************)

\* Mutant: as much as a transaction's blocks could hold.
WriteMax_all == MAXOPBLOCKS * BSIZE

\* The bytes one transaction of filewrite writes at most.
WriteMax == ((MAXOPBLOCKS - 1 - 1 - 2) \div 2) * BSIZE

\* Mutant: the end is not compared with the largest file.
TooLarge_never(off, n) == FALSE

TooLarge(off, n) == (off + n) % WORD > MAXFILE * BSIZE

\* Mutant: a write may start past the end.
PastEnd_never(f, off) == FALSE

PastEnd(f, off) == off > ino[f].size

\* sys_write: n bytes are to be written.
filewrite(p, n, x) ==
  /\ pr[p].pc = "idle"
  /\ pr' = [pr EXCEPT ![p].pc = "chunk", ![p].left = n, ![p].x = x]
  /\ UNCHANGED <<used, blk, ino, unlogged, panicked>>

\* A round of filewrite's loop: begin_op, ilock and the checks of writei.
filewrite_chunk(p) ==
  LET v == pr[p]
      n1 == Min({v.left, WriteMax})
  IN
  /\ v.pc = "chunk"
  /\ ino[v.file].lock = NoProc
  /\ \/ /\ PastEnd(v.file, v.off) \/ (v.off + n1) % WORD < v.off \/ TooLarge(v.off, n1)
        /\ pr' = [pr EXCEPT ![p] = Idle(v.file, v.off)]
        /\ UNCHANGED ino
     \/ /\ ~(PastEnd(v.file, v.off) \/ (v.off + n1) % WORD < v.off \/ TooLarge(v.off, n1))
        /\ pr' = [pr EXCEPT ![p].pc = "loop", ![p].n = n1, ![p].left = @ - n1]
        /\ ino' = [ino EXCEPT ![v.file].lock = p]
  /\ UNCHANGED <<used, blk, unlogged, panicked>>

\* The user's bytes: calls on different files are given different bytes, and a
\* call one of the values for all of its bytes.
Byte(v) == (v.file - 1) * Cardinality(Values) + v.x

\* Mutant: the copy goes to the start of the block.
Put_start(c, o, m, x) == [i \in 1..BSIZE |-> IF i <= m THEN x ELSE c[i]]

\* The content c of a block with m bytes x from position o on.
Put(c, o, m, x) == [i \in 1..BSIZE |-> IF i > o /\ i <= o + m THEN x ELSE c[i]]

\* A round of writei's loop: bmap, and the copy of m bytes from the user, of
\* which c arrive; the copy fails if c < m, and the loop is left.
writei(p) ==
  LET v == pr[p]
      f == v.file
      off == v.off + v.tot
      m == Min({v.n - v.tot, BSIZE - (off % BSIZE)})
      S == bmap(State(p), off \div BSIZE)
  IN
  /\ v.pc = "loop" /\ v.tot < v.n
  /\ off \div BSIZE < MAXFILE
  /\ used' = S.used
  /\ ino' = [ino EXCEPT ![f].addrs = S.addrs]
  /\ UNCHANGED panicked
  /\ \/ /\ S.addr = 0
        /\ blk' = S.blk
        /\ pr' = [pr EXCEPT ![p].pc = "end", ![p].logs = S.logs]
        /\ UNCHANGED unlogged
     \/ /\ S.addr # 0
        /\ \E c \in 0..m :
             /\ blk' = [S.blk EXCEPT ![S.addr] = Put(@, off % BSIZE, c, Byte(v))]
             /\ \/ /\ c = m
                   /\ pr' = [pr EXCEPT ![p].tot = @ + m, ![p].logs = S.logs \cup {S.addr}]
                   /\ unlogged' = unlogged \ {S.addr}
                \/ /\ c < m
                   /\ pr' = [pr EXCEPT ![p].pc = "end", ![p].logs = S.logs]
                   /\ unlogged' = IF blk'[S.addr] # S.blk[S.addr] /\ S.addr \notin S.logs
                                  THEN unlogged \cup {S.addr} ELSE unlogged

\* Mutant: the file grows to the end of what was asked for.
NewSize_asked(f, v) == Max({ino[f].size, v.off + v.n})

\* The size once writei's loop is over.
NewSize(f, v) == Max({ino[f].size, v.off + v.tot})

\* The end of writei (size, iupdate), iunlock, end_op; and filewrite's next
\* round, unless this one fell short.
writei_end(p) ==
  LET v == pr[p]
      f == v.file
  IN
  /\ v.pc = "end" \/ (v.pc = "loop" /\ v.tot = v.n)
  /\ ino' = [ino EXCEPT ![f].size = NewSize(f, v), ![f].lock = NoProc]
  /\ pr' = [pr EXCEPT ![p] =
              IF v.tot = v.n /\ v.left > 0
              THEN [Idle(f, v.off + v.tot) EXCEPT !.pc = "chunk", !.left = v.left, !.x = v.x]
              ELSE Idle(f, v.off + v.tot)]
  /\ UNCHANGED <<used, blk, unlogged, panicked>>

\* bmap() of a block past the largest: panic.
bmap_panic(p) ==
  /\ pr[p].pc = "loop" /\ pr[p].tot < pr[p].n
  /\ (pr[p].off + pr[p].tot) \div BSIZE >= MAXFILE
  /\ panicked' = TRUE
  /\ UNCHANGED <<used, blk, ino, pr, unlogged>>

-----------------------------------------------------------------------------
(***************************************************************************)
(* fileread() and readi(), in no transaction.                               *)
(***************************************************************************)

\* Mutant: the count is not cut down to the file's end.
ReadCount_full(f, off, n) == IF off > ino[f].size \/ (off + n) % WORD < off THEN 0 ELSE n

\* The bytes readi delivers: none if off + n wraps, else up to the end.
ReadCount(f, off, n) ==
  IF off > ino[f].size \/ (off + n) % WORD < off THEN 0
  ELSE Min({n, ino[f].size - off})

\* ilock, readi, f->off += r, iunlock.  The copy to the user may fail, then the
\* offset stays.  A block that is not there would be allocated, outside of a
\* transaction: log_write panics.
fileread(p, n) ==
  LET v == pr[p]
      r == ReadCount(v.file, v.off, n)
      missing == \E o \in v.off..(v.off + r - 1) :
                   bmap([State(p) EXCEPT !.logs = {}], o \div BSIZE).logs # {}
  IN
  /\ v.pc = "idle"
  /\ ino[v.file].lock = NoProc
  /\ panicked' = missing
  /\ pr' \in {pr, [pr EXCEPT ![p].off = @ + r]}
  /\ UNCHANGED <<used, blk, ino, unlogged>>

-----------------------------------------------------------------------------
(***************************************************************************)
(* sys_open, with O_TRUNC or without, and itrunc().                         *)
(***************************************************************************)

sys_open(p, f) ==
  /\ pr[p].pc = "idle"
  /\ pr' = [pr EXCEPT ![p] = Idle(f, 0)]
  /\ UNCHANGED <<used, blk, ino, unlogged, panicked>>

\* sys_open with O_TRUNC; iput() of the last reference does the same.
sys_open_trunc(p, f) ==
  /\ pr[p].pc = "idle"
  /\ ino[f].lock = NoProc
  /\ ino' = [ino EXCEPT ![f].lock = p]
  /\ pr' = [pr EXCEPT ![p] = [Idle(f, 0) EXCEPT !.pc = "trunc", !.k = 1]]
  /\ UNCHANGED <<used, blk, unlogged, panicked>>

\* bfree() of b; what a free block holds is dead (balloc zeroes), shown as zeros.
bfree(b) ==
  /\ used' = used \ {b}
  /\ blk' = [blk EXCEPT ![b] = Zeros]
  /\ unlogged' = unlogged \ {b}
  /\ panicked' = (b \notin used)

Cleared(addrs, j) == [addrs EXCEPT ![j] = 0]

\* The next entry to free: k counts the direct entries, then the indirect ones.
itrunc(p) ==
  LET v == pr[p]
      f == v.file
      ind == ino[f].addrs[NDIRECT + 1]
      b == IF v.k <= NDIRECT THEN ino[f].addrs[v.k]
           ELSE IF ind = 0 THEN 0 ELSE blk[ind][v.k - NDIRECT]
  IN
  /\ v.pc = "trunc" /\ v.k <= MAXFILE
  /\ IF b # 0 THEN bfree(b) ELSE UNCHANGED <<used, blk, unlogged, panicked>>
  /\ ino' = IF b # 0 /\ v.k <= NDIRECT
            THEN [ino EXCEPT ![f].addrs = Cleared(@, v.k)] ELSE ino
  /\ pr' = [pr EXCEPT ![p].k = @ + 1,
                      ![p].logs = IF b # 0 THEN @ \cup {BITMAP} ELSE @]

\* Then the indirect block itself, the size and the inode.
itrunc_end(p) ==
  LET f == pr[p].file
      ind == ino[f].addrs[NDIRECT + 1]
  IN
  /\ pr[p].pc = "trunc" /\ pr[p].k > MAXFILE
  /\ IF ind # 0 THEN bfree(ind) ELSE UNCHANGED <<used, blk, unlogged, panicked>>
  /\ ino' = [ino EXCEPT ![f].addrs[NDIRECT + 1] = 0, ![f].size = 0, ![f].lock = NoProc]
  /\ pr' = [pr EXCEPT ![p] = Idle(f, 0)]

-----------------------------------------------------------------------------
Next ==
  /\ ~panicked
  /\ \E p \in Procs :
       \/ \E n \in Counts, x \in Values : filewrite(p, n, x)
       \/ \E n \in Counts \cup {WORD - 1} : fileread(p, n)
       \/ \E f \in Files : sys_open(p, f) \/ sys_open_trunc(p, f)
       \/ filewrite_chunk(p) \/ writei(p) \/ writei_end(p) \/ bmap_panic(p)
       \/ itrunc(p) \/ itrunc_end(p)

Spec == Init /\ [][Next]_vars

-----------------------------------------------------------------------------
(***************************************************************************)
(* Properties.                                                              *)
(***************************************************************************)

\* The shape of the state.
TypeOK ==
  /\ used \subseteq Data /\ unlogged \subseteq Data
  /\ \A b \in Data : DOMAIN blk[b] = 1..BSIZE
  /\ \A f \in Files : /\ ino[f].size \in 0..(MAXFILE * BSIZE)
                      /\ ino[f].addrs \in [1..(NDIRECT + 1) -> 0..NBLOCKS]
                      /\ ino[f].lock \in Procs \cup {NoProc}
  /\ \A p \in Procs : pr[p].off \in 0..(MAXFILE * BSIZE)

\* The places, <<"direct", f, j>> or <<"indirect", f, j>>, that hold block b.
Places(b) ==
  {<<"direct", f, j>> : f \in Files, j \in 1..(NDIRECT + 1)} \cup
  {<<"indirect", f, j>> : f \in Files, j \in 1..NINDIRECT}

Holds(pl, b) ==
  LET f == pl[2] IN
  IF pl[1] = "direct" THEN ino[f].addrs[pl[3]] = b
  ELSE ino[f].addrs[NDIRECT + 1] # 0 /\ blk[ino[f].addrs[NDIRECT + 1]][pl[3]] = b

\* A block is marked in the bitmap exactly if one inode uses it, in one place:
\* writes that run out of blocks, writes whose copy fails and truncations of
\* several files at once neither lose a block nor give one to two files.
BlocksOwned ==
  (\A p \in Procs : pr[p].pc # "trunc") =>
  \A b \in Data : Cardinality({pl \in Places(b) : Holds(pl, b)})
                    = IF b \in used THEN 1 ELSE 0

\* No read finds a block below the file's size missing (it would allocate one
\* outside of a transaction), no block is freed twice, no block number exceeds
\* the largest file.
NoPanic == ~panicked

\* A transaction of filewrite, or a truncation, writes at most MAXOPBLOCKS
\* distinct blocks, the inode's included: what begin_op reserved for it.
TransactionFits ==
  \A p \in Procs : Cardinality(pr[p].logs) + 1 <= MAXOPBLOCKS

\* Byte o of file f, 0 if its block is missing.
ByteAt(f, o) ==
  LET bn == (o - 1) \div BSIZE
      ind == ino[f].addrs[NDIRECT + 1]
      b == IF bn < NDIRECT THEN ino[f].addrs[bn + 1]
           ELSE IF ind = 0 THEN 0 ELSE blk[ind][bn - NDIRECT + 1]
  IN IF b = 0 THEN 0 ELSE blk[b][((o - 1) % BSIZE) + 1]

\* The size of f, with what the writer in the loop has appended so far; a file
\* being truncated is empty.
SizeNow(f) ==
  LET p == ino[f].lock IN
  IF p = NoProc THEN ino[f].size
  ELSE IF pr[p].pc = "trunc" THEN 0 ELSE Max({ino[f].size, pr[p].off + pr[p].tot})

Bytes == 1..(Cardinality(Files) * Cardinality(Values))

Abstract == INSTANCE ByteFile WITH
  MaxRun <- BSIZE,
  content <- [f \in Files |-> [o \in 1..SizeNow(f) |-> ByteAt(f, o)]]

\* What the blocks of a file spell is a sequence of bytes that only changes by
\* runs written at an offset in it and by truncation: no write, failed or not,
\* touches another file or another part of the file, and none leaves a gap.
ByteFileSpec == Abstract!Spec

\* "After changing buffer data, call bwrite to write it to disk" (kernel/bio.c):
\* between two calls every block whose content changed was given to log_write.
ChangesLogged ==
  (\A p \in Procs : pr[p].pc = "idle") => unlogged = {}
=============================================================================
