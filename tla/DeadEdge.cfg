SPECIFICATION Spec
CHECK_DEADLOCK FALSE
CONSTANTS
  CoreA = CoreA
  CoreB = CoreB
  Cores = {CoreA, CoreB}
  NoId = NoId
  Edges = {e1}
  Renamed = {}
  Endpoint <- Endpoints
  Attach <- ActiveOnlyAttach
  MaxNodes = 4
  Faults = {}
  MaxInputs = 4
  MaxClock = 1
  MaxVersion = 14
INVARIANTS
  DeadEdgesOffline
