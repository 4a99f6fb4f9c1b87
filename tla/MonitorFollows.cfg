SPECIFICATION FairSpec
CHECK_DEADLOCK FALSE
CONSTANTS
  Main = "main"
  Standby = "standby"
  Edge = "edge"
  Hints = {"", "standby"}
  MAX_EVENTS = 1
  MaxTables = 2
  MaxDrops = 1
  MaxTyped = 0
  MaxEvents = 0
  MaxRepeats = 0
  MaxBacklog = 0
PROPERTY FollowsActive
