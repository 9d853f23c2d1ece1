SPECIFICATION Spec
CONSTANTS
  Tasks = {t1}
  MaxStarts = 2
  MaxNow = 2
  Life = 2
  None = None
CHECK_DEADLOCK FALSE
INVARIANTS
  AuthenticatedAfterLogIn
