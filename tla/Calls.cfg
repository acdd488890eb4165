SPECIFICATION FairSpec
CONSTANTS
  s1 = s1
  s2 = s2
  v1 = v1
  v2 = v2
  v3 = v3
  c1 = c1
  c2 = c2
  Shards <- TwoShards
  Values <- ThreeValues
  Owner <- OwnerOf
  MayEnd <- JustOne
  CallIds <- TwoCalls
  Nowhere = Nowhere
INVARIANTS
  RunsOnOwner
  TargetsStored
  HonestMiss
  AnswerAfterRelease
PROPERTIES
  CallsComplete
CHECK_DEADLOCK FALSE
