SPECIFICATION FairSpec
CONSTANTS
  t1 = t1
  t2 = t2
  t3 = t3
  t4 = t4
  p1 = p1
  p2 = p2
  p3 = p3
  p4 = p4
  NoTxn = NoTxn
  Txn = {t1, t2, t3, t4}
  Proc = {p1, p2, p3}
  Host <- MCHost
  MaxGeneration = 3
  MaxTries = 2
  Serialised = TRUE
  Faulty <- MCFaulty
CHECK_DEADLOCK FALSE
VIEW MCView
INVARIANTS
  OneWriterUnlessSlipped
  OneRecovererUnlessSlipped
PROPERTIES
  LiveLockKept
  ScanSparesLiveStaging
  RefusalJustified
  CallsEnd
