\* Sleep with a counter that wraps at eight; two CPUs and three slots of the
\* table; a listing of four slots.
CONSTANTS
  Procs = {p1, p2}
  WORD = 8
  Counts <- MCCounts
  Latency = 2
  NPROC = 3
  CPUS = {c1, c2}
  KillPids = {2}
  MaxPid = 3
  PsSlots = 4
  PsPids = 4
  Filters <- MCFilters
  Parts = {"clock", "proc", "ps"}
SPECIFICATION MCSpec
SYMMETRY Symmetry
INVARIANTS
  SleepsLongEnough
  StackExclusive
  NoLostExit
  
