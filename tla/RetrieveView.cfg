\* The three viewers while the archiver removes files.
SPECIFICATION FairSpec
CONSTANTS
  MaxRefs = 3
  MaxKeys = 4
INVARIANTS
  ViewTypeOK
  ScreenFollowsCursor
  OneMovePerKey
  HoverNamesItsRecord
PROPERTIES
  HoverIsDrawn
CHECK_DEADLOCK FALSE
