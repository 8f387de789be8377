SPECIFICATION FairBootSpec
CONSTANTS
  Channels = {6, 14}
  MacKinds = {"default", "valid", "invalid"}
  ModePolls = 10
  ModeLatency = 2
  Trials <- MCTrials
INVARIANTS
  BootTypeOK
  BeginTellsTheTruth
  BitTimeAsConfigured
  RunningMeansEverythingUp
PROPERTIES
  BootCompletes
CHECK_DEADLOCK FALSE
