\* The node of an archived trip was killed and not started again before.
SPECIFICATION Spec
CONSTANTS
  LastDay = 2
  MaxTrips = 1
  MaxChunks = 1
  Strict = FALSE
  Careful = TRUE
  Faults <- IngestDies
INVARIANTS
  ArchivedIsQueryable
CHECK_DEADLOCK FALSE
