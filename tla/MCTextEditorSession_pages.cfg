SPECIFICATION EditorSpec
CONSTANTS
  PageEdit = {1}
  HostEdit = {2}
  FileEdit = {3}
  NoEdit = 0
  MaxEpoch = 3
  MaxMessages = 2
  MaxStates = 1
  RetryLimit = 2
INVARIANTS
  ExternalSeen
  OnlyThisPage
PROPERTIES
  NoLostUpdate
  PageCatchesUp
CHECK_DEADLOCK FALSE
