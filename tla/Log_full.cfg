SPECIFICATION Spec
CONSTANTS
  Procs = {p1, p2, p3}
  Blocks = {b1, b2, b3}
  Vals = {0}
  InitVal = 0
  NoVal = 99
  MAXOPBLOCKS = 1
  LOGSIZE = 3
  size = 3
INVARIANTS
  LogFits
