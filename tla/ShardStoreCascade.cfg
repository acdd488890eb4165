SPECIFICATION Spec
CONSTANTS
  Threads = {t1}
  RcIds = {i1, i2}
  MaxKeys = 2
  MaxCalls = 1
  MaxWork = 3
  Local = Local
  Queued = Queued
  Flight = Flight
  Detaching = Detaching
  Detached = Detached
  Nobody = Nobody
SYMMETRY Symmetry
INVARIANTS
  InUseIsStored
  NoneForgotten
  EndIsComplete
PROPERTIES
  DetachedNewestFirst
CHECK_DEADLOCK FALSE
