\* Liveness: the program is run again and again, and may be killed.
SPECIFICATION FairSpec
CONSTANTS
  LastDay = 3
  MaxTrips = 1
  MaxChunks = 1
  Strict = FALSE
  Careful = FALSE
  Faults <- ArchiveDies
PROPERTIES
  ArchivesEveryCompletedDay
CHECK_DEADLOCK FALSE
