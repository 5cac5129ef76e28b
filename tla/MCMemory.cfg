\* Two processes with thirteen pages; one with sixteen; user memory of
\* three pages of two bytes below a word of twelve; a heap of twelve units.
CONSTANTS
  Procs = {1, 2}
  Pages = {1, 2, 3, 4, 5, 6, 7, 8, 9, 10, 11, 12, 13}
  NoPage = 0
  Levels = 2
  FAN = 4
  Unit = 2
  USERSTACK = 1
  MAXARG = 2
  MaxSize = 10
  MaxCalls = 5
  PGSIZE = 2
  NPAGES = 3
  WORD = 12
  IPSIZE = 2
  MaxLen = 5
  HEADER = 2
  CHUNK = 4
  TOP = 12
  Sizes = {0, 2, 3, 9}
SPECIFICATION Spec
INVARIANTS
  PagesConserved
  CopiesRight
  NoOverlap
