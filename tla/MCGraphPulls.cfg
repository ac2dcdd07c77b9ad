\* Pulls end at their bound.
SPECIFICATION PullsSpec
CONSTANTS
  InitialGraphs <- Graphs
  MaxEdges = 9
  MaxInput = 3
  MaxSteps = 3
  MaxPulls = 2
  Straight = TRUE
INVARIANTS
  GraphAndPathAreSound
  PathKeepsItsVertices
  BranchesAreWherePlanned
CHECK_DEADLOCK FALSE
