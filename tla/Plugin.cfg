SPECIFICATION FairSpec
CONSTANTS
  e1 = e1
  v1 = v1
  Emitters = {e1}
  Viewers = {v1}
  Depth = 2
  Plans <- EachAndBoth
INVARIANT CreditIsKept
INVARIANT EndsAreHonest
INVARIANT ViewsAreOwned
PROPERTY InvocationsEnd
PROPERTY NoOrphan
PROPERTY CancelledViewCloses
CHECK_DEADLOCK FALSE
