\* Two processes write, read and truncate two files on three data blocks; two
\* processes share a table of three open files; mkfs copies up to three files.
CONSTANTS
  Procs = {p1, p2}
  NoProc = NoProc
  Files = {1, 2}
  NBLOCKS = 3
  BSIZE = 2
  NDIRECT = 1
  MAXOPBLOCKS = 6
  WORD = 16
  Counts = {1, 3}
  Values = {1}
  Sharers = {q1, q2}
  First = q1
  NFILE = 3
  NOFILE = 2
  Pages = {g1, g2}
  NoPage = NoPage
  FSSIZE = 18
  NINODES = 5
  LOGSIZE = 1
  ImgBSIZE = 4
  IPB = 2
  BPB = 24
  ImgNDIRECT = 2
  MaxFiles = 3
  Lengths = {0, 1, 4, 7, 13, 26}
SPECIFICATION Spec
SYMMETRY Symmetry
INVARIANTS
  DescriptorsExact
  ImageRight
 
