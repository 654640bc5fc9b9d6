\* Liveness: the program is run again and again and never killed.
SPECIFICATION FairSpec
CONSTANTS
  LastDay = 3
  MaxTrips = 1
  MaxChunks = 1
  Strict = FALSE
  Careful = FALSE
  Faults <- IngestDies
INVARIANTS
  TarIndexWithinLog
PROPERTIES
  ArchivesEveryCompletedDay
CHECK_DEADLOCK FALSE
