CONSTANTS
  Procs = {p1, p2, p3}
  Ids = {g1, g2}
  Locks = {l1, l2, l3}
  NoLock = NoLock
  NoProc = NoProc
SPECIFICATION MCSpec
INVARIANTS
  TypeOK
  NoLeak
  MutualExclusion
PROPERTIES
  Served
  ImplementsMutex
