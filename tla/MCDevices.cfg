\* Console: a buffer of three characters whose indices wrap at six.  UART: two
\* writers, a printing CPU, a ring and a FIFO of two.  Disk: two requests in
\* flight and a spare descriptor, or one and a spare one; the ring indices wrap
\* at the number of descriptors.
CONSTANTS
  Procs = {p1, p2}
  NoProc = NoProc
  Chars = {a}
  NL = NL
  EOF = EOF
  INPUT_BUF_SIZE = 3
  WORD = 6
  MaxN = 2
  Writers = {w1, w2}
  Printers = {c1}
  Handler = h
  UART_TX_BUF_SIZE = 2
  FIFO = 2
  MaxChars = 3
  NoOne = NoOne
  Blocks = {b1, b2}
  Val = {v0, v1}
  NUM = 7
  IDX = 7
  FEW = 4
SPECIFICATION MCSpec
SYMMETRY Symmetry
INVARIANTS
  ReaderSleepJustified
  OutputRight
  CompletionsNoticed
PROPERTIES
  LineInputSpec
  
  DeviceSpec
