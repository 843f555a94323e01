SPECIFICATION Spec
CONSTANTS
  Shape = {"af_data", "zdo_active_ep"}
  MaxRequests = 3
  MaxSpurious = 0
INVARIANT OwnAnswer
CHECK_DEADLOCK FALSE
