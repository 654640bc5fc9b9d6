\* Failing writes, crashes and a clock that may be set back.
SPECIFICATION FairSpec
CONSTANTS
  d1 = d1
  NoDay = NoDay
  MaxTime = 2
  Days <- MCOneDay
  DayOf <- MCDayOfOne
  MaxTrips = 2
  MaxRecords = 3
  Sizes = {1}
  ChunkBytes = 3
  ChunkNs = 1
  Faults <- AllButBusy
INVARIANTS
  StoredIsPrefix
  DamageIsASuffix
  RunningMeansRecovered
  LossIsOneChunk
  MissedAreOutOfOrder
PROPERTIES
  ShutdownSeals
CHECK_DEADLOCK FALSE
