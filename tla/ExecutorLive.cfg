SPECIFICATION FairSpec
CONSTANTS
  s1 = s1
  s2 = s2
  r1 = r1
  r2 = r2
  p1 = p1
  p2 = p2
  NoShell = NoShell
  Shell = {s1, s2}
  Run = {r1, r2}
  ShellOf <- OneEach
  N = 1
  Prot = {}
  Idempotency <- OneAgain
  Required = {}
  DomainOf <- OneDomain
  Promised = {}
  GateAfter = 1
  Recovery = FALSE
  Crashing = {s1}
  Slow = {s1}
  StoreMayFail = FALSE
  Commands = {"protection-lost"}
PROPERTY EveryRunEnds
PROPERTY ClaimReturned
