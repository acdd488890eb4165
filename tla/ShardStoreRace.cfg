SPECIFICATION Spec
CONSTANTS
  Threads = {t1, t2}
  RcIds = {i1, i2}
  MaxKeys = 1
  MaxCalls = 2
  MaxWork = 3
  Local = Local
  Queued = Queued
  Flight = Flight
  Detaching = Detaching
  Detached = Detached
  Nobody = Nobody
SYMMETRY Symmetry
INVARIANTS
  TokensCounted
  OrphansInUse
  NoLostWakeup
  AsleepMeansClean
CHECK_DEADLOCK FALSE
