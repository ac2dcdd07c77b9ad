\* Calls end at their bound.
SPECIFICATION MCSpec
CONSTANTS
  InitialGraphs <- MCInitialGraphs
  MaxEdges = 5
  MaxCalls = 2
CHECK_DEADLOCK FALSE
INVARIANTS
  ReadsAreCurrent
  OnlyLiveVerticesAreFound
