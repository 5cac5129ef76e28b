\* Two CPUs, two kernel threads and one lock besides their p->locks; two harts
\* with two user threads.
CONSTANTS
  CPUs = {c1, c2}
  Threads = {t1, t2}
  Locks = {tickslock}
  NoCpu = NoCpu
  NoLock = NoLock
  Harts = {1, 2}
  UserThreads = {1, 2}
  Kernel = 0
SPECIFICATION MCSpec
SYMMETRY Symmetry
INVARIANTS
  MutualExclusion
  NoPanic
  UserStateKept
PROPERTIES
  RestoresInterrupts
