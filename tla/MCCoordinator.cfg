SPECIFICATION Spec
CONSTANTS
  t1 = t1
  Main = Main
  Task = {t1}
  TaskRequests = 1
  NvItems = 1
  EventCap = 1
  OutCap = 1
  Content <- MCContent
  PermitJoin = TRUE
  MaxMessages = 2
  MaxResets = 1
INVARIANTS
  TypeOK
  OwnResetHarmless
  UnregisteredNoticed
  NothingLost
PROPERTIES
  StartEnds
  ResetEndsLoop
  LoopReturns
CHECK_DEADLOCK FALSE
