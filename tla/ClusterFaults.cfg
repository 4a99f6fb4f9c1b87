SPECIFICATION FairSpec
CHECK_DEADLOCK FALSE
CONSTANTS
  CoreA = CoreA
  CoreB = CoreB
  Cores = {CoreA, CoreB}
  NoId = NoId
  Edges = {e1}
  Renamed = {}
  Endpoint <- Endpoints
  Attach <- ActiveOnlyAttach
  MaxNodes = 4
  Faults = {"stopA", "stopB", "crashA", "crashB", "hostLoss", "peerDrop"}
  MaxInputs = 3
  MaxClock = 1
  MaxVersion = 9
INVARIANTS
  TwoActivesOnlyAtShutdown
  PromotedNamesItself
PROPERTIES
  Failover
  BackupAdvertised
