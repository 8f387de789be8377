SPECIFICATION Spec
CONSTANTS
  txu = txu
  other = other
  Txu01 = txu
  Peers <- MCPeers
  SequenceNumbers = {1, 2, 3}
  Contents <- MCContents
  RouteOf <- MCRouteOf
  Offered <- Assorted
  CacheSize = 2
  Lifetime = 1
  CounterModulus = 2
  QueueDepth = 2
  MaxArrivals = 3
  MaxTime = 2
  MaxRestarts = 1
  MaxCalls = 3
INVARIANTS
  CanTransmittedIsTrue
  OncePerPacketInOrder
  QueueConserved
  StatisticsConserved
CHECK_DEADLOCK FALSE
