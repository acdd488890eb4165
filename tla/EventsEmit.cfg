\* An emission, tracked or not, races subscriptions and disconnects of two threads.
SPECIFICATION Spec
CONSTANTS
  owner = owner
  other = other
  third = third
  e1 = e1
  g1 = g1
  g2 = g2
  Threads = {owner, other}
  Owner = owner
  Groups = {g1}
  Emissions = {e1}
  MaxId = 3
  MaxSize = 4
  Errors = {"gone"}
  NoGroup = NoGroup
INVARIANTS ReachesSubscribers SilentAfterDisconnect InConnectionOrder TrackedResult
CHECK_DEADLOCK FALSE
