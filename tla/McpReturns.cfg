SPECIFICATION McpFairSpec
CONSTANTS
  NumBuffers = 2
  TimeoutTicks = 1
  MaxCalls = 3
  MaxFaults = 2
INVARIANTS
  McpTypeOK
PROPERTIES
  SendReturns
CHECK_DEADLOCK FALSE
