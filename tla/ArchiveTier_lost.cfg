\* A day whose trip is still being written is archived; no fault.
SPECIFICATION Spec
CONSTANTS
  LastDay = 2
  MaxTrips = 1
  MaxChunks = 2
  Strict = FALSE
  Careful = FALSE
  Faults <- NoFaults
INVARIANTS
  NothingLost
CHECK_DEADLOCK FALSE
