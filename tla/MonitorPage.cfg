SPECIFICATION Spec
CONSTANTS
  Listings <- MCListings
  Order <- MCOrder
  EdgeIds = {"e1", "e3"}
  Names = {"Gate"}
  Places = {"Hall"}
  WINDOW = 2
  MAX_EVENTS = 1
  MaxEvents = 2
  MaxTables = 2
  MaxTime = 4
  MaxSaves = 2
CHECK_DEADLOCK FALSE
INVARIANTS
  TypeOK
  SavedNameShown
  EndpointsShown
  LinksDrawnOnce
  RecoveryEnds
PROPERTIES
  ViewsFrozen
  AbsentNamesKept
  DraftsKept
