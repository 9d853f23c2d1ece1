SPECIFICATION Spec
CONSTANTS
  Wallets = {w1, w2}
  Tasks = {t1, t2}
  MaxStarts = 2
  MaxNow = 1
  Life = 2
  None = None
  Failed = Failed
SYMMETRY Symmetry
INVARIANTS
  ShownIsOwn
CHECK_DEADLOCK FALSE
