SPECIFICATION Spec
CONSTANTS
  s1 = s1
  s2 = s2
  Stream = {s1, s2}
  Acts = {s2}
  Oversized = {s2}
  Window = 1
  MaxCredit = 2
  MaxStreams = 1
  Items = 2
  Droppers = {s1, s2}
  MayCut = TRUE
  MayHangup = TRUE
  Lifetimes = {TRUE, FALSE}
INVARIANT NeverOverrun
INVARIANT CompleteMeansAll
INVARIANT ClosedIsTold
CHECK_DEADLOCK FALSE
