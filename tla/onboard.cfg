SPECIFICATION HarnessSpec
CONSTANTS
  Main = Main
  Tree = Tree
  MainAgent = m
  TreeAgent = t
  Named = b
  Workspace = {w1, w2}
  None = None
  MaxRuns = 2
  MaxKeys = 2
  MaxEvents = 1
SYMMETRY Symmetry
INVARIANTS
  FinishedSetupWorks
  SilentAfterTeardown
  SetupConverges
PROPERTIES
  LiveKeyKept
  DeclarationIsDeliberate
CHECK_DEADLOCK FALSE
