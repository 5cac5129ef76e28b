\* Two processes and three inodes, once with current directories and once with
\* links and plain open(); three processes on a table of two slots; paths of
\* four characters with names that are cut at two.
CONSTANTS
  Procs = {p1, p2}
  NoProc = NoProc
  NINODES = 3
  Names = {"x", "y"}
  OpenMax = 1
  MaxLinks = 2
  CallPaths <- MCPaths
  Calls = {"mkdir", "creat", "unlink", "chdir", "close"}
  LinkPaths <- DownPaths
  LinkCalls = {"open", "creat", "mkdir", "link", "unlink", "close"}
  Lookers = {q1, q2, q3}
  InodeNumbers = {1, 2}
  NINODE = 2
  MAXLINK = 2
  DIRSIZ = 2
  Letters = {"a", "."}
  MaxInodes = 4
  MaxCreate = 3
  MaxLookup = 4
  MaxOps = 3
  Parts = {"names", "links", "itable", "path"}
SPECIFICATION Spec
SYMMETRY Symmetry
INVARIANTS
  LinksExact
  NoLockCycle
  RefExact
  PathRight
