SPECIFICATION TimelySpec
CONSTANTS
  a = a
  b = b
  IEEE <- MCIEEE
  NWK = {11, 12}
  Name <- MCIEEE
  NoDevice = NoDevice
  Unassigned = 0
  Hex <- MCHex
  Configured = {}
  CanonicalKey = {}
  FriendlyName <- MCHex
  EP = {1, 2}
  Has <- MCHas
  NotTracked = NotTracked
  NotPublished = NotPublished
  MaxAir = 4
  MaxMoves = 2
  MaxLoss = 2
PROPERTIES
  EventuallyInterviewed
  TrackerDrains
CHECK_DEADLOCK FALSE
