SPECIFICATION Spec
CONSTANTS
  Procs = {p1, p2}
  NoProc = NoProc
  Inums = {1, 2, 3, 4}
  NINODE = 4
  NOFILE = 1
  Names = {"a", "b", "c"}
  Calls <- AllCalls
  MaxCalls = 2
INVARIANTS NoDeadlock
CHECK_DEADLOCK FALSE
SYMMETRY Symmetry
