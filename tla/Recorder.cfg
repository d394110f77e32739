SPECIFICATION Spec
CONSTANTS
  MaxSeq = 3
  MaxTime = 5
  MaxBoot = 1
  Capacity = 1
  MaxAge = 2
  Batch = 2
  MayResend = TRUE
  MayPurge = TRUE
INVARIANT NoSilentLoss
INVARIANT SequenceHonest
PROPERTY GapsStay
PROPERTY SweepKeepsBase
CHECK_DEADLOCK FALSE
