\* One CPU and three slots.
CONSTANTS
  Procs = {p1, p2}
  WORD = 8
  Counts <- MCCounts
  Latency = 2
  NPROC = 3
  CPUS = {c1}
  KillPids = {}
  MaxPid = 3
  PsSlots = 2
  PsPids = 2
  Filters <- MCFilters
  Parts = {"proc"}
SPECIFICATION MCLiveSpec
PROPERTIES
  WaitReturns
