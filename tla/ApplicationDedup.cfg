SPECIFICATION Spec
CONSTANTS
  txu = txu
  other = other
  Txu01 = txu
  Peers = {txu}
  SequenceNumbers = {1, 2, 3}
  Contents <- RefusedContents
  RouteOf <- RefusedRouteOf
  Offered <- Requests
  CacheSize = 2
  Lifetime = 1
  CounterModulus = 2
  QueueDepth = 1
  MaxArrivals = 4
  MaxTime = 3
  MaxRestarts = 0
  MaxCalls = 4
INVARIANTS
  TypeOK
  DuplicateSuppression
  AcknowledgesLatestOutcome
CHECK_DEADLOCK FALSE
