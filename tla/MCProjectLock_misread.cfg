SPECIFICATION Spec
CONSTANTS
  t1 = t1
  t2 = t2
  t3 = t3
  t4 = t4
  p1 = p1
  p2 = p2
  p3 = p3
  p4 = p4
  NoTxn = NoTxn
  Txn = {t1, t2, t3, t4}
  Proc = {p1, p2, p3, p4}
  Host <- MCHostApart
  MaxGeneration = 2
  MaxTries = 2
  Serialised = TRUE
  Faulty = {}
CHECK_DEADLOCK FALSE
INVARIANT MutualExclusion
VIEW MCView
