SPECIFICATION FairSpec
CHECK_DEADLOCK FALSE
CONSTANTS
  Main = "main"
  Standby = "standby"
  Edge = "edge"
  Hints = {"", "standby"}
  MAX_EVENTS = 1
  MaxTables = 2
  MaxDrops = 1
  MaxTyped = 1
  MaxEvents = 2
  MaxRepeats = 1
  MaxBacklog = 2
INVARIANTS
  TypeOK
  OneRollbackPerFailover
PROPERTIES
  GoneStaysGone
  ShowsActive
