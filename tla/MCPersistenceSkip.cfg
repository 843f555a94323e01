SPECIFICATION Spec
CONSTANTS
  d1 = d1
  d2 = d2
  Device = {d1, d2}
  Preseeded = {d1}
  NoDevice = NoDevice
  Absent = Absent
  Unknown = Unknown
  Databases <- MCDatabases
  SystemDb <- MCSystemDb
  MaxTime = 3
  MaxFailures = 1
  MaxStarts = 1
PROPERTY RemovedOnlyIfLeft
CHECK_DEADLOCK FALSE
