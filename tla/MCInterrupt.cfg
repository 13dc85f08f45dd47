SPECIFICATION FairSpec
CONSTANTS
  Lines = {d1, d2}
  MaxTraps = 1
  Loaders = {}
  Savers = {}
  GivenAges = {0, 3}
  Program = {"plain", "branch", "cli", "sei", "brk"}
INVARIANTS LinesCounted IrqLevelSeen NmiTakesNmiVector
PROPERTIES NmiEdgeLatched NmiServed
