SPECIFICATION MemorySpec
CONSTANTS
  Procs = {p1, p2}
  NoProc = NoProc
  Init0 = p1
  NFRAMES = 12
  PGSIZE = 8
  NPTENTRIES = 2
  KERNBASE = 32
  KTABS = 1
  Increments <- MCIncrements
  Arguments <- MCArguments
  Images <- MCImages
  Users = {u1, u2}
INVARIANTS
  FramesExact
  
  StackGuarded
  BlocksExact
  ContentOnDisk
  ReadExact
  OpFits
SYMMETRY Symmetry
CHECK_DEADLOCK FALSE
