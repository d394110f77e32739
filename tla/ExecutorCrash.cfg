SPECIFICATION Spec
CONSTANTS
  s1 = s1
  s2 = s2
  r1 = r1
  r2 = r2
  p1 = p1
  p2 = p2
  NoShell = NoShell
  Shell = {s1, s2}
  Run = {r1, r2}
  ShellOf <- OneEach
  N = 3
  Prot = {p1, p2}
  Idempotency <- AgainOnceAgain
  Required = {p1}
  DomainOf <- TwoDomains
  Promised = {"data"}
  GateAfter = 0
  Recovery = FALSE
  Crashing = {s1, s2}
  Slow = {}
  StoreMayFail = FALSE
  Commands = {"protect", "verify"}
INVARIANT ExclusiveApply
INVARIANT HonestState
INVARIANT DurableProtection
SYMMETRY Swap
