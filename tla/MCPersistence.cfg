SPECIFICATION FairSpec
CONSTANTS
  d1 = d1
  d2 = d2
  Device = {d1, d2}
  Preseeded = {d1}
  NoDevice = NoDevice
  Absent = Absent
  Unknown = Unknown
  Databases <- MCDatabases
  SystemDb <- MCSystemDb
  MaxTime = 4
  MaxFailures = 1
  MaxStarts = 2
INVARIANTS
  TypeOK
  KeptUnlessLeft
PROPERTIES
  MergeKeepsOthers
  SavedAtExit
  EventuallySaved
CHECK_DEADLOCK FALSE
