SPECIFICATION Spec
CONSTANTS
  Task = {t1, t2}
  Conn = {c1}
  MaxOps = 3
  MaxDepth = 2
  SharedCell = SharedCell
  NoCell = NoCell
  NoTx = NoTx
  Free = Free
  Disciplined = FALSE
  Panics <- AllPanics
  Hasty = {}
SYMMETRY Symmetry
INVARIANTS TypeOK ConnAccounting NoOrphanTx NilMeansCommitted
