SPECIFICATION FairSpec
CONSTANTS
  Path = {1, 2}
  a = a
  b = b
  Bytes = {a, b}
  Missing = Missing
  MaxEdits = 1
  MaxCrashes = 1
  MaxFaults = 1
INVARIANTS
  NothingLeftBehind
PROPERTIES
  Implements
  ForeignBytesKept
  JournalsGoAway
