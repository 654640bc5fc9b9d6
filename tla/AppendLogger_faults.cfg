\* Crashes and a busy catalog: three trips of a day.
SPECIFICATION Spec
CONSTANTS
  d1 = d1
  NoDay = NoDay
  MaxTime = 3
  Days <- MCOneDay
  DayOf <- MCDayOfOne
  MaxTrips = 3
  MaxRecords = 3
  Sizes = {1}
  ChunkBytes = 2
  ChunkNs = 2
  Faults <- CrashBusy
INVARIANTS
  TypeOK
  IndexPointsAtChunk
  RowMatchesIndex
  TripNeverReused
  RowCoversRecords
  ScansFindAll
PROPERTIES
  StoreSpec
CHECK_DEADLOCK FALSE
