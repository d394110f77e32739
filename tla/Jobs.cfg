SPECIFICATION FairSpec
CONSTANTS
  g1 = g1
  g2 = g2
  None = none
  Pipe = {g1, g2}
  Shapes <- OneOrTwo
  Commands = {"run", "run_bg", "fg", "bg", "kill", "poll", "wait"}
  Traps = {g1}
  MayStop = TRUE
  MayRefuse = TRUE
INVARIANT CellsAreExact
INVARIANT SurvivorsHadMoved
INVARIANT PromptOwnsTerminal
PROPERTY NobodyWaitsForever
CHECK_DEADLOCK FALSE
