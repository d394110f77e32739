SPECIFICATION Spec
CONSTANTS
  s1 = s1
  s2 = s2
  r1 = r1
  r2 = r2
  p1 = p1
  p2 = p2
  NoShell = NoShell
  Shell = {s1, s2}
  Run = {r1, r2}
  ShellOf <- OneEach
  N = 2
  Prot = {p1}
  Idempotency <- OnceThenAgain
  Required = {p1}
  DomainOf <- OneDomain
  Promised = {"data"}
  GateAfter = 0
  Recovery = FALSE
  Crashing = {s1, s2}
  Slow = {s1}
  StoreMayFail = FALSE
  Commands = {}
INVARIANT NonIdempotentOnce
