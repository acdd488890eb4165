SPECIFICATION PatientSpec
CONSTANTS
  c1 = c1
  c2 = c2
  c3 = c3
  k1 = k1
  k2 = k2
  Calls <- ThreeCalls
  Tasks <- TwoTasks
  Main = c1
  External = External
  Nothing = Nothing
INVARIANTS
  HonestReply
  NothingLeftBehind
PROPERTIES
  EveryWorkSettles
  KeepsPromise
  TasksDoNotHoldDrain
CHECK_DEADLOCK FALSE
