SPECIFICATION FairSpec
CONSTANTS
  Threads = {t1}
  RcIds = {i1, i2}
  MaxKeys = 2
  MaxCalls = 1
  MaxWork = 2
  Local = Local
  Queued = Queued
  Flight = Flight
  Detaching = Detaching
  Detached = Detached
  Nobody = Nobody
PROPERTIES
  KeepsLifetime
  ShutdownEmptiesStore
CHECK_DEADLOCK FALSE
