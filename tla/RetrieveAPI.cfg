\* Queries while trips grow, crash, are recovered and archived.
SPECIFICATION Spec
CONSTANTS
  MaxTime = 3
  DayOf <- MCDayOf
  MaxTrips = 2
  MaxFiles = 2
  MaxRecords = 2
  Faults <- Both
INVARIANTS
  TypeOK
  QueryIsComplete
  LoadsItsRecord
  TripsAreReadFromTheStart
PROPERTIES
  ImplementsRecordStore
CHECK_DEADLOCK FALSE
