\* A directory and its parent are removed while a process is inside.
CONSTANTS
  Procs = {p1, p2}
  NoProc = NoProc
  NINODES = 3
  Names = {"x", "y"}
  OpenMax = 0
  MaxLinks = 2
  CallPaths <- UpPaths
  Calls = {"mkdir", "unlink", "chdir"}
  LinkPaths <- DownPaths
  LinkCalls = {"open", "creat", "mkdir", "link", "unlink", "close"}
  Lookers = {q1, q2, q3}
  InodeNumbers = {1, 2}
  NINODE = 2
  MAXLINK = 2
  DIRSIZ = 2
  Letters = {"a", "."}
  MaxInodes = 4
  MaxCreate = 3
  MaxLookup = 4
  MaxOps = 3
  Parts = {"names"}
SPECIFICATION Spec
INVARIANT NoTypePanic
