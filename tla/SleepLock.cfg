SPECIFICATION FairSpec
CONSTANTS
  Procs = {p1, p2, p3, p4}
  NoProc = NoProc
PROPERTIES
  ImplementsFairMutex
