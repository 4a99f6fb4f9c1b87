SPECIFICATION Spec
CHECK_DEADLOCK FALSE
CONSTANTS
  CoreA = CoreA
  CoreB = CoreB
  Cores = {CoreA, CoreB}
  NoId = NoId
  Edges = {e1, e2, e3}
  Renamed = {e1, e2}
  Endpoint <- Endpoints
  Attach <- RenamedAttach
  MaxNodes = 4
  Faults = {}
  MaxInputs = 3
  MaxClock = 2
  MaxVersion = 14
INVARIANTS
  TypeOK
  AttachedEdgesOnline
  ActiveViewPublished
  RegistrationComplete
  LinkEndsKnown
PROPERTIES
  VersionCountsChanges
