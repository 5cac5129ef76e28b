\* Two command lines run by six processes with three pipes; lines of five
\* characters; lists of six characters and command lines of four arguments for
\* ps; files of three bytes read two at a time by wc; paths of three names.
CONSTANTS
  Procs = {1, 2, 3, 4, 5, 6}
  Pipes = {1, 2, 3}
  Items = 2
  PIPESIZE = 1
  MaxLines = 2
  MAXARGS = 3
  LineChars = {"a", " ", "|", "&", ";", "<", ">", "(", ")"}
  MaxLine = 5
  Digits = {0, 1}
  WIDTH = 3
  MaxList = 6
  MaxArgs = 4
  SIZE = 2
  MaxFd = 3
  NFD = 3
  MaxDirs = 6
SPECIFICATION Spec
INVARIANTS
  ParsesGrammar
  
  CountsRight
  
PROPERTY LineEnds
\* The programs end, and the shell waits for a line.
CHECK_DEADLOCK FALSE
