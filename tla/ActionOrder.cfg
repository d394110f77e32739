SPECIFICATION Spec
CONSTANTS
  N = 3
  Depends <- UpToTwo
  Roles <- TwoRoles
INVARIANT RefusedIffCyclic
INVARIANT EarliestRole
CHECK_DEADLOCK FALSE
