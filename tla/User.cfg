SPECIFICATION UserSpec
CONSTANTS
  Writers = {w1, w2}
  Readers = {r1, r2}
  NoProc = NoProc
  Bytes = {0, 1}
  PIPESIZE = 2
  UINT = 4
  MaxCall = 2
  Killable = {r1}
INVARIANTS
  ShParses
  ShPlumbs
  HeapExact
  FreedLast
PROPERTIES
  ImplementsFifo
CHECK_DEADLOCK FALSE
