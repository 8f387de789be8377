SPECIFICATION McpSpec
CONSTANTS
  NumBuffers = 3
  TimeoutTicks = 2
  MaxCalls = 3
  MaxFaults = 0
INVARIANTS
  BusKeepsCallOrder
  NothingRequestedWhenIdle
  FailureIsOwn
PROPERTIES
  ImplementsCanTransmit
CHECK_DEADLOCK FALSE
