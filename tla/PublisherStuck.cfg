SPECIFICATION FairSpec
CHECK_DEADLOCK FALSE
CONSTANTS
  Edges = {"primary", "edge"}
  Cores = {"core"}
  Typed = {"primary"}
  MAX_QUEUE = 2
  Listings <- MCListings
  Links <- MCLinks
  ActiveCore = "core"
  BackupCore = ""
  MaxEvents = 0
  MaxTables = 1
  MaxDisturbances = 3
PROPERTIES
  FailoverSucceeds
