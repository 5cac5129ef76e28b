SPECIFICATION LiveSpec
CONSTANTS
  Readers = {r1}
  Writers = {w1, w2}
  Byte = {0, 1}
  PIPESIZE = 2
  UINT = 4
  MaxN = 2
  Nobody = Nobody
INVARIANTS SleepJustified
PROPERTIES FifoSpec EofReachesReaders
CHECK_DEADLOCK FALSE
