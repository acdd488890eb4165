\* Three threads connect, prune and disconnect groups; the source value dies.
SPECIFICATION Spec
CONSTANTS
  owner = owner
  other = other
  third = third
  e1 = e1
  g1 = g1
  g2 = g2
  Threads = {owner, other, third}
  Owner = owner
  Groups = {g1, g2}
  Emissions = {}
  MaxId = 3
  MaxSize = 2
  Errors = {}
  NoGroup = NoGroup
SYMMETRY SubscriberSymmetry
INVARIANTS GoneIsUnlisted DestroyedIsSilent
CHECK_DEADLOCK FALSE
