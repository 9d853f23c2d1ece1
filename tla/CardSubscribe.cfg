SPECIFICATION Spec
CONSTANTS
  n1 = n1
  n2 = n2
  Order <- MCOrder
  Cards <- MCCards
  Wallets = {w1}
  Emails = {e1, e2}
  Flows = {f1, f2}
  MaxClicks = 2
  MaxFailures = 1
  None = None
SYMMETRY Symmetry
CHECK_DEADLOCK FALSE
INVARIANTS
  TypeOK
  LossIsBounded
  SubscriptionComplete
  CardTellsTruth
