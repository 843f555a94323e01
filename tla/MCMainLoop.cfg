SPECIFICATION MainSpec
CONSTANTS
  ConfigPermit = {TRUE, FALSE}
  Max = 5
  Margin = 3
  Period = 1
  Timeout = 1
  Asked = {0, 2, 4, Forever}
  Forever = Forever
  None = None
  MaxAsked = 2
  MaxFailures = 2
  Kinds = {"lamp", "silent lamp", "sensor", "remote", "none"}
  Payloads <- MCPayloads
  Presses <- MCPresses
  ZoneType = {"contact", "motion", "smoke"}
  NoType = NoType
  NoValue = NoValue
  NoPress = NoPress
  MaxSets = 2
  MaxActs = 2
  MaxLost = 1
CONSTRAINTS OneAtATime FewEvents
INVARIANTS TypeOK OpenIsShown KeptOpen LampShown ActionShownOnce AlarmReachesHA
PROPERTY StaysClosed
CHECK_DEADLOCK FALSE
