SPECIFICATION PullsSpec
CONSTANTS
  InitialGraphs <- Graphs
  MaxEdges = 9
  MaxInput = 3
  MaxSteps = 4
  MaxPulls = 1
  Straight = FALSE
INVARIANT ChecksHold
CHECK_DEADLOCK FALSE
