SPECIFICATION Spec
CONSTANTS
  Ops = {o1, o2}
  Names = {n1, n2}
  Values = {v1, v2}
  MaxStarts = 2
  MaxObj = 1
  MaxLost = 1
  None = None
  Failed = Failed
SYMMETRY Symmetry
INVARIANTS
  TypeOK
  CacheMirrorsServer
  NoLostAlert
CHECK_DEADLOCK FALSE
