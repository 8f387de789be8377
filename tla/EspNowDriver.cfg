SPECIFICATION DriverSpec
CONSTANTS
  Macs = {txu, other}
  Depth = 1
  MaxPeers = 1
  MaxCallbacks = 3
  MaxInFlight = 2
INVARIANTS
  DriverTypeOK
  CallbacksUseLiveQueues
  AllOrNothing
  LossesCounted
CHECK_DEADLOCK FALSE
