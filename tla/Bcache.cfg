SPECIFICATION LiveSpec
CONSTANTS
  Procs = {p1, p2}
  Blocks = {b1, b2, b3}
  Val = {v0, v1}
  NBUF = 2
  Nobody = Nobody
  NoBlock = NoBlock
INVARIANTS RefcntExact
PROPERTIES BlockStoreSpec BreadReturns
