SPECIFICATION ProviderSpec
CONSTANTS
  c1 = c1
  c2 = c2
  Call = {c1, c2}
  Closing = Closing
  Hello = Hello
  MaxRestarts = 1
  MaxGeneration = 2
  MaxFaults = 1
INVARIANTS
  NothingAwaited
PROPERTIES
  QuarantineLasts
  EveryCallEnds
CHECK_DEADLOCK FALSE
