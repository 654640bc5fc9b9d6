\* Two processes of a node: kills, a busy catalog, errors of RocksDB.
SPECIFICATION FairSpec
CONSTANTS
  p1 = p1
  p2 = p2
  Procs <- MCProcs
  MaxTime = 3
  MaxRuns = 2
  MaxPuts = 2
  MaxThrows = 1
  Sensors <- AllSensors
  Views = {0, 1, 2}
  Threshold = 1
  Frequency = 2
  Faults <- AllFaults
INVARIANTS
  TypeOK
  AcceptedIsStored
  ClosedRowCountsItsRun
  EveryImageIsRepresented
PROPERTIES
  ShutdownClosesRow
CHECK_DEADLOCK FALSE
