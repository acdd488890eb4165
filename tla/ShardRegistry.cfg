SPECIFICATION FairSpec
CONSTANTS
  s1 = s1
  s2 = s2
  Shards = {s1, s2}
  Outside = {j1, j2}
  MayJoin <- OneWay
  Free = Free
INVARIANTS
  NoShardLost
  JoinedLeavesRegistry
  JoinedMeansStopped
PROPERTIES
  JoinsReturn
CHECK_DEADLOCK FALSE
