SPECIFICATION FairSpec
CHECK_DEADLOCK FALSE
CONSTANTS
  Edges = {"primary", "edge"}
  Cores = {"core"}
  Typed = {"primary"}
  MAX_QUEUE = 2
  Listings <- MCListings
  Links <- MCLinks
  ActiveCore = "core"
  BackupCore = ""
  MaxEvents = 3
  MaxTables = 2
  MaxDisturbances = 3
INVARIANTS
  TypeOK
  NothingForgotten
  HeldOnce
  NotStranded
  OpenMeansFlushed
PROPERTIES
  Delivered
