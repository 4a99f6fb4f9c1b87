SPECIFICATION FairSpec
CHECK_DEADLOCK FALSE
CONSTANTS
  HasBackup = TRUE
  HasRelay = TRUE
  Faults = {"break", "will", "switch", "hostLoss"}
  MaxEvents = 2
  MaxFaults = 2
INVARIANTS
  TypeOK
PROPERTIES
  ForwardsInOrder
  ReachesACore
