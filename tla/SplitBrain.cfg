SPECIFICATION FairSpec
CHECK_DEADLOCK FALSE
CONSTANTS
  CoreA = CoreA
  CoreB = CoreB
  Cores = {CoreA, CoreB}
  NoId = NoId
  Edges = {e1}
  Renamed = {}
  Endpoint <- Endpoints
  Attach <- EverywhereAttach
  MaxNodes = 4
  Faults = {"selfDrop"}
  MaxInputs = 1
  MaxClock = 1
  MaxVersion = 14
PROPERTIES
  RecoveredActiveStepsDown
