-------------------------------- MODULE Mkfs --------------------------------
(***************************************************************************)
(* mkfs (mkfs/mkfs.c): the image of a file system is built from host files. *)
(*                                                                         *)
(* The program is sequential; what varies are the files and the sizes of    *)
(* the pieces that read() returns.  A block holds BSIZE numbers: bytes, or  *)
(* block numbers in an indirect block.  A directory entry takes two bytes,  *)
(* the inode number and the name, which is a number too.  xshort and xint,  *)
(* the byte order of the image, and printf are left out.                    *)
(***************************************************************************)
EXTENDS Naturals, Sequences, FiniteSets, FiniteSetsExt

CONSTANTS FSSIZE,    \* blocks in the image
          NINODES,   \* inodes
          LOGSIZE,   \* blocks of the log
          BSIZE,     \* bytes in a block
          IPB,       \* inodes in a block
          BPB,       \* bits in a block of the bitmap
          NDIRECT,   \* direct blocks of a file
          MaxFiles,  \* bound: files given to mkfs
          Lengths    \* the lengths that files may have

NINDIRECT == BSIZE
MAXFILE == NDIRECT + NINDIRECT
ROOTINO == 1

\* Mutant: no block for the inodes past the last full block.
InodeBlocks_full(n) == n \div IPB

\* ninodeblocks.
InodeBlocks(n) == (n \div IPB) + 1

nbitmap == (FSSIZE \div BPB) + 1
inodestart == 2 + LOGSIZE
bmapstart == inodestart + InodeBlocks(NINODES)
nmeta == bmapstart + nbitmap

MkfsAssumption ==
  /\ {FSSIZE, NINODES, LOGSIZE, BSIZE, IPB, BPB, NDIRECT} \subseteq Nat \ {0}
  /\ MaxFiles \in Nat /\ Lengths \subseteq Nat
  /\ BSIZE % 4 = 0 /\ nmeta < FSSIZE /\ MaxFiles + 2 <= NINODES

VARIABLES src,   \* the content of each host file: a sequence of bytes
          at,    \* the program: "file" (next argument), "read", "done", "failed"
          cur,   \* the current file and the bytes of it read so far
          img    \* the image: inodes by place, blocks, bitmap; next free inode and block

vars == <<src, at, cur, img>>

Zeros == [j \in 0..(BSIZE - 1) |-> 0]
NoInode == [type |-> "free", nlink |-> 0, size |-> 0, addrs |-> [j \in 0..NDIRECT |-> 0]]

\* IBLOCK and the slot in it.
Place(inum) == <<(inum \div IPB) + inodestart, inum % IPB>>

rinode(I, inum) == I.dino[Place(inum)]

winode(I, inum, din) == [I EXCEPT !.dino = [q \in DOMAIN @ \cup {Place(inum)} |-> IF q = Place(inum) THEN din ELSE @[q]]]

wsect(I, sec, b) == [I EXCEPT !.blk[sec] = b]
rsect(I, sec) == I.blk[sec]

ialloc(I, type) ==
  winode([I EXCEPT !.freeinode = @ + 1], I.freeinode, [NoInode EXCEPT !.type = type, !.nlink = 1])

\* A new entry of the indirect block.
IndirectEntry(I, a, j) == wsect([I EXCEPT !.freeblock = @ + 1], a, [rsect(I, a) EXCEPT ![j] = I.freeblock])

\* The inode din with a block x for fbn; the image changes when the block is new.
\* A block that is past the end of the image cannot be read.
WithBlock(I, din, fbn) ==
  LET slot == IF fbn < NDIRECT THEN fbn ELSE NDIRECT
      fresh == din.addrs[slot] = 0
      d == IF fresh THEN [din EXCEPT !.addrs[slot] = I.freeblock] ELSE din
      J == IF fresh THEN [I EXCEPT !.freeblock = @ + 1] ELSE I
      a == d.addrs[NDIRECT]
  IN  IF fbn < NDIRECT THEN [img |-> J, din |-> d, x |-> d.addrs[fbn]]
      ELSE IF a >= FSSIZE THEN [img |-> J, din |-> d, x |-> a]
      ELSE LET j == fbn - NDIRECT
               K == IF rsect(J, a)[j] = 0 THEN IndirectEntry(J, a, j) ELSE J
           IN  [img |-> K, din |-> d, x |-> rsect(K, a)[j]]

\* Mutant: a piece that crosses a block boundary goes to the first block only.
Piece_one(n, fbn, off) == n

\* n1, the bytes that go to this block.
Piece(n, fbn, off) == IF n < ((fbn + 1) * BSIZE) - off THEN n ELSE ((fbn + 1) * BSIZE) - off

\* The loop of iappend.  mkfs dies at the end of the image, and when a file is longer
\* than MAXFILE blocks.
RECURSIVE AppendFrom(_, _, _, _)
AppendFrom(I, din, off, p) ==
  IF p = << >> THEN [img |-> I, din |-> [din EXCEPT !.size = off]]
  ELSE IF off \div BSIZE >= MAXFILE THEN [img |-> [I EXCEPT !.ok = FALSE], din |-> din]
  ELSE LET fbn == off \div BSIZE
           w == WithBlock(I, din, fbn)
           n1 == Piece(Len(p), fbn, off)
           start == off - (fbn * BSIZE)
           b == [j \in 0..(BSIZE - 1) |-> IF j \in start..(start + n1 - 1) THEN p[j - start + 1] ELSE rsect(w.img, w.x)[j]]
       IN  IF w.x >= FSSIZE THEN [img |-> [w.img EXCEPT !.ok = FALSE], din |-> din]
           ELSE AppendFrom(wsect(w.img, w.x, b), w.din, off + n1, SubSeq(p, n1 + 1, Len(p)))

iappend(I, inum, p) ==
  LET r == AppendFrom(I, rinode(I, inum), rinode(I, inum).size, p)
  IN  IF r.img.ok THEN winode(r.img, inum, r.din) ELSE r.img

-----------------------------------------------------------------------------
\* The names of "." and ".."; a file has the number of its argument, from 3.
Dot == 1
DotDot == 2
Name(f) == f + 2

\* The byte at place j of file f.
ByteOf(f, j) == (f * 100) + j

\* main() up to the loop over the files: all blocks zero, the super block, the root.
Init ==
  /\ src \in UNION {[1..n -> Lengths] : n \in 0..MaxFiles}
  /\ at = "file" /\ cur = [f |-> 1, off |-> 0]
  /\ LET zero == [dino |-> [q \in (inodestart..(bmapstart - 1)) \X (0..(IPB - 1)) |-> NoInode],
                  blk |-> [s \in nmeta..(FSSIZE - 1) |-> Zeros], bitmap |-> {},
                  freeinode |-> 1, freeblock |-> nmeta, ok |-> TRUE]
         root == ialloc(zero, "dir")
     IN  img = iappend(iappend(root, ROOTINO, <<ROOTINO, Dot>>), ROOTINO, <<ROOTINO, DotDot>>)

\* The next argument: an inode and its entry in the root.
file ==
  /\ at = "file" /\ cur.f <= Len(src)
  /\ img' = iappend(ialloc(img, "file"), ROOTINO, <<img.freeinode, Name(cur.f)>>)
  /\ at' = IF img'.ok THEN "read" ELSE "failed"
  /\ UNCHANGED <<src, cur>>

\* A name with a slash, one that is too long, or a file that cannot be opened.
fails ==
  /\ at = "file" /\ cur.f <= Len(src)
  /\ at' = "failed"
  /\ UNCHANGED <<src, cur, img>>

\* read() returns up to BSIZE bytes.
read ==
  /\ at = "read" /\ cur.off < src[cur.f]
  /\ \E cc \in 1..BSIZE :
       /\ cur.off + cc <= src[cur.f]
       /\ img' = iappend(img, cur.f + 1, [j \in 1..cc |-> ByteOf(cur.f, cur.off + j)])
       /\ cur' = [cur EXCEPT !.off = @ + cc]
  /\ at' = IF img'.ok THEN "read" ELSE "failed"
  /\ UNCHANGED src

\* read() returns 0.
eof ==
  /\ at = "read" /\ cur.off = src[cur.f]
  /\ at' = "file" /\ cur' = [f |-> cur.f + 1, off |-> 0]
  /\ UNCHANGED <<src, img>>

\* Mutant: a size that is a multiple of BSIZE already is kept, one that is not too.
RootSize_asis(off) == off

\* The size of the root is rounded.
RootSize(off) == ((off \div BSIZE) + 1) * BSIZE

\* Mutant: the bit of the last block is not set.
balloc_short(I, n) == [I EXCEPT !.bitmap = 0..(n - 2)]

\* balloc(): assert(used < BPB) is in finish.
balloc(I, n) == [I EXCEPT !.bitmap = 0..(n - 1)]

\* The end of main().
finish ==
  /\ at = "file" /\ cur.f > Len(src)
  /\ LET din == rinode(img, ROOTINO)
         I == winode(img, ROOTINO, [din EXCEPT !.size = RootSize(@)])
     IN  IF I.freeblock < BPB THEN at' = "done" /\ img' = balloc(I, I.freeblock)
         ELSE at' = "failed" /\ img' = I
  /\ UNCHANGED <<src, cur>>

\* exit().
Exited == at \in {"done", "failed"} /\ UNCHANGED vars

Next == file \/ fails \/ read \/ eof \/ finish \/ Exited

Spec == Init /\ [][Next]_vars

-----------------------------------------------------------------------------
\* What the kernel reads: the block of a byte of an inode, and the inode's content.
BlockOf(din, fbn) ==
  IF fbn < NDIRECT THEN din.addrs[fbn]
  ELSE IF din.addrs[NDIRECT] = 0 THEN 0 ELSE img.blk[din.addrs[NDIRECT]][fbn - NDIRECT]
Content(inum) ==
  LET din == rinode(img, inum) IN
  [o \in 1..din.size |-> LET b == BlockOf(din, (o - 1) \div BSIZE) IN IF b = 0 THEN 0 ELSE img.blk[b][(o - 1) % BSIZE]]

\* The file system that mkfs leaves has, in the root, an entry for each file, and
\* in the inode the entry names exactly the bytes of the file, however the host
\* cut them up in reads.
ContentsKept ==
  at = "done" =>
    LET root == Content(ROOTINO)
        entries == [e \in 1..(Len(root) \div 2) |-> <<root[(2 * e) - 1], root[2 * e]>>]
    IN  /\ entries[1] = <<ROOTINO, Dot>> /\ entries[2] = <<ROOTINO, DotDot>>
        /\ \A f \in 1..Len(src) :
             /\ entries[f + 2] = <<f + 1, Name(f)>>
             /\ rinode(img, f + 1).nlink = 1
             /\ Content(f + 1) = [j \in 1..src[f] |-> ByteOf(f, j)]
        /\ \A e \in (Len(src) + 3)..Len(entries) : entries[e][1] = 0

\* The blocks that hang off an inode.
Owned(inum) ==
  LET din == rinode(img, inum)
      ind == din.addrs[NDIRECT]
  IN  ({din.addrs[j] : j \in 0..NDIRECT} \cup (IF ind = 0 THEN {} ELSE {img.blk[ind][j] : j \in 0..(NINDIRECT - 1)})) \ {0}

\* The bitmap marks the blocks in front of the data and the blocks of the inodes, no
\* other; no two inodes share one.
BitmapExact ==
  at = "done" =>
    LET inodes == 1..(Len(src) + 1) IN
    /\ img.bitmap = (0..(nmeta - 1)) \cup UNION {Owned(i) : i \in inodes}
    /\ \A i, j \in inodes : i # j => Owned(i) \cap Owned(j) = {}

\* Inodes stay in the inode blocks, also the last ones, and never reach the bitmap
\* block behind them.
InodesInPlace == \A q \in DOMAIN img.dino : q[1] \in inodestart..(bmapstart - 1)

\* The size of the root is in whole blocks and its blocks exist, except that a root
\* whose entries fill their blocks exactly gets a last block that is not there.
RootBacked ==
  at = "done" =>
    LET din == rinode(img, ROOTINO)
        bytes == 2 * (Len(src) + 2)
    IN  /\ din.size % BSIZE = 0 /\ din.size > bytes
        /\ \A fbn \in 0..((din.size \div BSIZE) - 1) : BlockOf(din, fbn) = 0 => fbn * BSIZE = bytes
=============================================================================
