SPECIFICATION WifiSpec
CONSTANTS
  Channels = {0, 1, 6, 13, 14}
  MacKinds = {"default", "valid", "invalid"}
INVARIANT InitSetsTheChannel
