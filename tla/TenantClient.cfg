SPECIFICATION Spec
CONSTANTS
  Calls = {c1, c2}
  Tokens = {tA, tB}
  Names = {n1}
  Headers = {h1, h2}
  Environment = {"sid", "secret"}
  MaxStarts = 3
  MaxFailures = 1
  None = None
SYMMETRY Symmetry
CHECK_DEADLOCK FALSE
INVARIANTS
  TypeOK
  
  BalanceAlertDelivers
