\* Two producers, one consumer in pop() and one in pop_for().
CONSTANTS
  p1 = p1
  p2 = p2
  c1 = c1
  c2 = c2
  None = None
  Producers = {p1, p2}
  Consumers = {c1, c2}
  Pollers = {c2}
  MaxPush = 2
  SizeMod = 8
SPECIFICATION FairSpec
INVARIANTS
  TypeOK
  NoLostPush
  SizeAccounting
  OwnSizeExact
  ZeroHidesOnlyUncounted
  PerProducerOrder
PROPERTIES
  ChannelSpec
  Delivery
  StopHeard
\* Every task may be taken and every consumer stopped.
CHECK_DEADLOCK FALSE
