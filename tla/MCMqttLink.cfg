SPECIFICATION Spec
CONSTANTS
  Name <- MCName
  Fields <- MCFields
  Output = "attribute"
  Capacity = 1
  Unacked = 1
  MaxVersion = 2
  MaxBreaks = 1
  MaxCommands = 1
INVARIANTS
  TypeOK
  QueuedOrRepublished
  CommandsAsAsked
PROPERTIES
  RetainedCatchesUp
  SubscribedAgain
  BridgeReturns
CHECK_DEADLOCK FALSE
