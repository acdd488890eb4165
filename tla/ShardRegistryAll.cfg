SPECIFICATION Spec
CONSTANTS
  s1 = s1
  s2 = s2
  Shards = {s1, s2}
  Outside = {j1, j2}
  MayJoin <- NoneJoin
  Free = Free
INVARIANT AllJoinedMeansStopped
CHECK_DEADLOCK FALSE
