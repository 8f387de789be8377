SPECIFICATION PathSpec
CONSTANTS
  Validators <- PayloadValidators
  Accepts <- ValidatePayload
  Configs <- SmallConfigs
  Messages <- MCMessages
  OldFrame <- LeftOver
  Cases <- MCCases
INVARIANTS
  FrameFitsTheBus
  NamespaceSelectsEcu
  AcceptedConfigurationHolds
  CarCommandsAreTranslated
  MessageSurvivesOrIsRefused
  OnlyEncodingsAreAccepted
  FrameSurvivesRegisters
  AcknowledgementNamesItsRequest
CHECK_DEADLOCK FALSE
