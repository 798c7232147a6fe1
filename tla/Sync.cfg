SPECIFICATION SyncSpec
CONSTANTS
  Writers = {w1}
  Readers = {r1, r2}
  NoProc = NoProc
  Bytes = {0}
  PIPESIZE = 2
  UINT = 4
  MaxCall = 3
  Killable = {w1}
  Lockers = {p1, p2, p3}
  LineReaders = {p1, p2}
  KillableReaders = {p1}
  INPUT_BUF = 2
  W = 4
  MaxRead = 2
  MaxTyped = 5
INVARIANTS
  NoLostWakeup
  InputExact
PROPERTIES
  WriteReturns
  ReaderWoken
CHECK_DEADLOCK FALSE
