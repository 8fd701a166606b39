\* A worker waiting on its queue when the dispatcher stops it.
CONSTANTS
  p1 = p1
  p2 = p2
  c1 = c1
  None = None
  Producers = {p1, p2}
  Consumers = {c1}
  Pollers = {}
  MaxPush = 2
  SizeMod = 8
SPECIFICATION FairSpec
PROPERTIES
  StopReleasesConsumers
CHECK_DEADLOCK FALSE
