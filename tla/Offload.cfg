\* Two runs over one query: lost connections, failing sends, files archived meanwhile.
SPECIFICATION FairSpec
CONSTANTS
  MaxRefs = 3
  Sizes = {0, 2, 9}
  Limits = {0, 2}
  Runs = 2
  EntryBytes = 1
  TooLarge = 5
  MaxTarget = 4
  Targets = {3, 4}
  MaxIov = 5
  Faults <- AllFaults
INVARIANTS
  TypeOK
  StreamInOrder
  EndTellsTheStream
  FrameFits
PROPERTIES
  CountedRunIsComplete
  EndsOrWaitsForLostEnd
CHECK_DEADLOCK FALSE
