SPECIFICATION McpSpec
CONSTANTS
  NumBuffers = 3
  TimeoutTicks = 2
  MaxCalls = 2
  MaxFaults = 1
INVARIANTS
  OkMeansTransmitted
CHECK_DEADLOCK FALSE
