SPECIFICATION FilesSpec
CONSTANTS
  Procs = {p1, p2}
  Blocks = {b1, b2}
  Vals = {0, 1}
  InitVal = 0
  NoVal = 99
  MAXOPBLOCKS = 2
  LOGSIZE = 4
  size = 4
INVARIANTS
  RefsExact
  LinksCounted
  InUseAllocated
  FileRefs
  HeldByFiles
  SleeperHasWaker
PROPERTIES
  ImplementsAtomicDisk
CHECK_DEADLOCK FALSE
SYMMETRY Symmetry
