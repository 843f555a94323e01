SPECIFICATION Spec
CONSTANTS
  Shape = {"af_data", "zdo_active_ep", "sys_ping"}
  MaxRequests = 4
  MaxSpurious = 1
INVARIANTS
  TypeOK
  MispairedOnlyAfterTimeout
  GivesUpWhenSilent
  InOrder
PROPERTY EveryCallReturns
CHECK_DEADLOCK FALSE
