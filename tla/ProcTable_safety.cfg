SPECIFICATION Spec
CONSTANTS
  NPROC = 3
  NCPU = 2
  NCHAN = 1
  MaxPid = 3
  KillPids = {0, 2}
INVARIANTS
  LockHandoff
  OneCpuPerStack
  NoMissedExit
  NothingLeaks
