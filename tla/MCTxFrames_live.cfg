SPECIFICATION FairSpec
CONSTANTS
  Task = {t1, t2}
  Conn = {c1}
  MaxOps = 2
  MaxDepth = 2
  SharedCell = SharedCell
  NoCell = NoCell
  NoTx = NoTx
  Free = Free
  Disciplined = TRUE
  Panics <- ErrorPanics
  Hasty = {t1}
INVARIANT NoHoldAndWait
PROPERTIES WaitersServed TxsEnd DbPanicNeverCommits
