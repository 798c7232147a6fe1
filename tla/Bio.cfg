SPECIFICATION FairSpec
CONSTANTS
  Procs = {p1, p2}
  NoProc = NoProc
  Bufs = {x1, x2, x3}
  NoBuf = NoBuf
  Blocks = {k1, k2, k3, k4}
  NoBlock = NoBlock
  Data = {v1}
  NoData = NoData
  LOGSIZE = 1
  Written = {k1}
 
PROPERTIES IoReturns ImplementsBlockStore
CHECK_DEADLOCK TRUE
