\* Default mode, without faults.
SPECIFICATION Spec
CONSTANTS
  LastDay = 3
  MaxTrips = 1
  MaxChunks = 1
  Strict = FALSE
  Careful = TRUE
  Faults <- NoFaults
INVARIANTS
  RemovedOnlyWhenDurable
CHECK_DEADLOCK FALSE
