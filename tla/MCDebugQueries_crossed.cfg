SPECIFICATION DebugSafety
CONSTANTS
  OnFirst = 1
  OnSecond = 1
  Request <- MCRequest
  ConnOf <- MCConn
  SeqOf <- MCSeq
  InstOf <- MCInst
  Instance = {i}
  MaxConn = 2
  MaxQueued = 1
  MaxConcurrent = 1
  MaxInvalidated = 1
  NoRequest = 0
  MaxPending = 2
  MaxRetired = 1
  MaxFrames = 1
INVARIANTS
  NotCrossed
CHECK_DEADLOCK FALSE
