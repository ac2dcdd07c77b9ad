SPECIFICATION MCSpec
CONSTANTS
  InitialGraphs <- MCInitialGraphs
  MaxEdges = 6
  MaxSteps = 3
VIEW MCView
INVARIANTS
  ComponentsAreConnected
  EarlyPlansAreKept
PROPERTY MultigraphSpec
