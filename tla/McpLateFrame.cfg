SPECIFICATION McpSpec
CONSTANTS
  NumBuffers = 3
  TimeoutTicks = 2
  MaxCalls = 2
  MaxFaults = 0
PROPERTIES
  NoLateTransmission
CHECK_DEADLOCK FALSE
