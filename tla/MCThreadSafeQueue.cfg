CONSTANTS
  Producers = {p1, p2}
  Consumers = {c1, c2}
  Closers = {k1}
  Capacity = 2
  PushLimit = 2
SPECIFICATION FairSpec
INVARIANTS
  TypeOK
  NeverExceedsItsBound
  LosesNothing
  NoConsumerLeftAsleep
  NoProducerLeftAsleep
  ExitsOnlyWhenDrained
PROPERTIES
  ImplementsChannel
  ClosingDrainsTheBacklog
  AcceptedIsDelivered
