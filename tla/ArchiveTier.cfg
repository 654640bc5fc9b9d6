\* Strict mode, crashes of archiver and node, a busy catalog; no trip of an archived day is open.
SPECIFICATION Spec
CONSTANTS
  LastDay = 2
  MaxTrips = 2
  MaxChunks = 2
  Strict = TRUE
  Careful = TRUE
  Faults <- AllFaults
INVARIANTS
  NothingLost
  FoundInATier
  StrictRemovesAfterSync
PROPERTIES
  ImplementsTierStore
CHECK_DEADLOCK FALSE
