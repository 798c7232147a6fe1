SPECIFICATION Spec
CONSTANTS
  Cpus = {c1, c2}
  NoCpu = NoCpu
  SCHEDULER = "PRIORITY"
INVARIANTS
  NoDeadlock
