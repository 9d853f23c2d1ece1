SPECIFICATION Spec
CONSTANTS
  Wallets = {w1, w2}
  Tasks = {t1, t2}
  MaxStarts = 3
  MaxNow = 2
  Life = 2
  None = None
  Failed = Failed
SYMMETRY Symmetry
INVARIANTS
  TypeOK
  StoredTokenIsOwn
  AuthenticatedByStoredToken
  LoadConcludes
PROPERTIES
  TokenKept
CHECK_DEADLOCK FALSE
