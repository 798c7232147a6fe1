SPECIFICATION SchedSpec
CONSTANTS
  Cpus = {c1, c2}
  NoCpu = NoCpu
  Locks = {1, 2}
  OrderCpus = {c1, c2, c3}
INVARIANTS
  MutualExclusion
  FlagRestored
  NoDeadlock
  
  RoundPicks
  Share
  
