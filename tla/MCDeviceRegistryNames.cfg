SPECIFICATION Spec
CONSTANTS
  a = a
  b = b
  c = c
  IEEE <- MCIEEE
  NWK = {1, 2}
  Name <- MCName
  NoDevice = NoDevice
  Unassigned = 0
  Hex <- MCHex
  Configured = {a, b, c}
  CanonicalKey = {b, c}
  FriendlyName <- MCFriendlyName
INVARIANT ConfiguredNameKept
