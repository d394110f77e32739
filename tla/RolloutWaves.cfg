SPECIFICATION Spec
CONSTANTS
  a = a
  b = b
  c = c
  Objects = {a, b, c}
  Blocks <- UpToFour
  Strategies <- AllStrategies
  StartMayFail = TRUE
INVARIANT IsTiling
INVARIANT HonestAccount
INVARIANT CanaryFirst
INVARIANT StopsAtOnce
CHECK_DEADLOCK FALSE
