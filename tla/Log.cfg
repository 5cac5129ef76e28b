SPECIFICATION LiveSpec
CONSTANTS
  Procs = {p1, p2}
  Blocks = {b1, b2}
  Val = {v0, v1}
  Torn = Torn
  NotCached = NotCached
  MAXOPBLOCKS = 2
  LOGSIZE = 4
  NLOG = 4
  OPW = 2
INVARIANTS
  SleeperHasWaker
PROPERTIES
  AtomicDiskSpec
  WriteAhead
  SleepEnds
