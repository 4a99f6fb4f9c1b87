SPECIFICATION FairSpec
CHECK_DEADLOCK FALSE
CONSTANTS
  CoreA = CoreA
  CoreB = CoreB
  Cores = {CoreA, CoreB}
  NoId = NoId
  Edges = {e1}
  Renamed = {}
  Endpoint <- Endpoints
  Attach <- BackupOnlyAttach
  MaxNodes = 4
  Faults = {"request", "outsideVote", "selfDrop"}
  MaxInputs = 2
  MaxClock = 1
  MaxVersion = 12
PROPERTIES
  PromotionAnnounced
