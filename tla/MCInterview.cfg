SPECIFICATION Spec
CONSTANTS
  a = a
  b = b
  IEEE <- MCIEEE
  NWK = {11}
  Name <- MCIEEE
  NoDevice = NoDevice
  Unassigned = 0
  Hex <- MCHex
  Configured = {}
  CanonicalKey = {}
  FriendlyName <- MCHex
  EP = {1, 2}
  Has <- MCHas
  NotTracked = NotTracked
  NotPublished = NotPublished
  MaxAir = 2
  MaxMoves = 3
  MaxLoss = 1
SYMMETRY Symmetric
INVARIANTS
  TypeOK
  PartialNeedsDisturbance
  CompleteIsPublished
CHECK_DEADLOCK FALSE
