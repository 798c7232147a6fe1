SPECIFICATION FairSpec
CONSTANTS
  NPROC = 2
  NCPU = 2
  NCHAN = 1
  MaxPid = 3
  KillPids = {2, 3}
PROPERTIES
  WaitReturns
  KilledExits
