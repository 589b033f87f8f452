\* Two producers and three consumers on a queue of two places.
CONSTANTS
  Producers = {p1, p2}
  Consumers = {c1, c2, c3}
  MaxItems = 2
  Cap = 2
SPECIFICATION FairSpec
INVARIANTS
  TypeOK
  FifoBounded
  NoLostWakeup
  EndOfStream
PROPERTIES
  ImplementsChannel
  CloseReleases
