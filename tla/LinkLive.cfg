SPECIFICATION FairSpec
CONSTANTS
  s1 = s1
  s2 = s2
  Stream = {s1}
  Acts = {}
  Oversized = {}
  Window = 4
  MaxCredit = 8
  MaxStreams = 1
  Items = 5
  Droppers = {s1}
  MayCut = TRUE
  MayHangup = TRUE
  Lifetimes = {TRUE, FALSE}
PROPERTY StreamsEnd
PROPERTY DropStopsProducer
CHECK_DEADLOCK FALSE
