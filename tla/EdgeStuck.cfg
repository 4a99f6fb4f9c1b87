SPECIFICATION FairSpec
CHECK_DEADLOCK FALSE
CONSTANTS
  HasBackup = FALSE
  HasRelay = FALSE
  Faults = {"will"}
  MaxEvents = 1
  MaxFaults = 1
PROPERTIES
  UpLinkDrains
