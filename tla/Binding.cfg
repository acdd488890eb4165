SPECIFICATION FairSpec
CONSTANTS
  w = w
  m = m
  h = h
  o = o
  Background = {w}
  Mains = {m}
  Outside = {h, o}
  Host <- HostOfMain
  Binds = {b1, b2, b3}
  Misfits = {b3}
  MayWait <- Upwards
  None = None
INVARIANTS
  NothingAfterEnd
  BoundStaysStored
  HonestBind
  ShutdownHonest
PROPERTIES
  BindsAreAnswered
CHECK_DEADLOCK FALSE
