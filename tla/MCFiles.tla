------------------------------ MODULE MCFiles ------------------------------
(***************************************************************************)
(* Files, for TLC: the blocks that hold their content, the table of open    *)
(* files, and the image that mkfs writes.                                   *)
(*                                                                         *)
(* They share no variable: Content takes a process's open file as given,    *)
(* Ftable the content of a file, and mkfs runs before the kernel.  One of   *)
(* them moves in a behaviour, the others stay in an initial state.          *)
(***************************************************************************)
EXTENDS Naturals, TLC

CONSTANTS Procs, NoProc,
          Files, NBLOCKS, BSIZE, NDIRECT, MAXOPBLOCKS, WORD, Counts, Values,  \* of Content
          Sharers, First, NFILE, NOFILE, Pages, NoPage,                         \* of Ftable
          FSSIZE, NINODES, LOGSIZE, ImgBSIZE, IPB, BPB, ImgNDIRECT, MaxFiles, Lengths  \* of Mkfs

VARIABLES
  part,
  used, blk, ino, pr, unlogged, panicked,
  file, pipe, iref, fpr, fpanicked,
  src, at, cur, img

C == INSTANCE Content
T == INSTANCE Ftable WITH Procs <- Sharers, pr <- fpr, panicked <- fpanicked
M == INSTANCE Mkfs WITH BSIZE <- ImgBSIZE, NDIRECT <- ImgNDIRECT

ASSUME FilesAssumption == C!ContentAssumption /\ T!FtableAssumption /\ M!MkfsAssumption

blocks == <<used, blk, ino, pr, unlogged, panicked>>
ftable == <<file, pipe, iref, fpr, fpanicked>>
image == <<src, at, cur, img>>

Init ==
  /\ part \in {"content", "ftable", "mkfs"}
  /\ C!Init /\ T!Init
  /\ part # "content" => \A p, q \in Procs : pr[p] = pr[q] /\ pr[p].file = 1
  /\ part # "mkfs" => src = << >>
  /\ M!Init

Next ==
  /\ UNCHANGED part
  /\ \/ part = "content" /\ C!Next /\ UNCHANGED <<ftable, image>>
     \/ part = "ftable" /\ T!Next /\ UNCHANGED <<blocks, image>>
     \/ part = "mkfs" /\ M!Next /\ UNCHANGED <<blocks, ftable>>

Spec == Init /\ [][Next]_<<part, blocks, ftable, image>>

Symmetry == Permutations(Procs) \cup Permutations(Pages)

-----------------------------------------------------------------------------
\* The content of a file changes only by runs of bytes and by truncation (see
\* Content).
ByteFileSpec ==
  /\ C!Abstract!Init
  /\ [][part = "content" => [C!Abstract!Next]_([f \in Files |-> [o \in 1..C!SizeNow(f) |-> C!ByteAt(f, o)]])]_blocks

\* A slot's reference count is the number of descriptors and calls that lead to
\* it, and an end of a pipe is open exactly while a slot is that end (see Ftable).
DescriptorsExact == T!RefExact /\ T!PipeEnds

\* mkfs keeps the bytes of every file, and its bitmap marks what is in use and no
\* more (see Mkfs).
ImageRight == M!ContentsKept /\ M!BitmapExact
=============================================================================
