SPECIFICATION FairSpec
CONSTANTS
  txu = txu
  other = other
  Txu01 = txu
  Peers = {txu}
  SequenceNumbers = {1, 2}
  Contents <- MCContents
  RouteOf <- MCRouteOf
  Offered <- Varied
  CacheSize = 1
  Lifetime = 0
  CounterModulus = 2
  QueueDepth = 1
  MaxArrivals = 3
  MaxTime = 1
  MaxRestarts = 1
  MaxCalls = 3
PROPERTIES
  ImplementsWindow
  EveryPacketSettled
CHECK_DEADLOCK FALSE
