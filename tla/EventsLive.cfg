\* Every tracked emission is answered.
SPECIFICATION LiveSpec
CONSTANTS
  owner = owner
  other = other
  third = third
  e1 = e1
  g1 = g1
  g2 = g2
  Threads = {owner}
  Owner = owner
  Groups = {g1}
  Emissions = {e1}
  MaxId = 2
  MaxSize = 2
  Errors = {"gone"}
  NoGroup = NoGroup
PROPERTIES TrackedCompletes
CHECK_DEADLOCK FALSE
