\* Nothing more can be joined in the end.
SPECIFICATION MCSpec
CONSTANTS
  InitialGraphs <- MCInitialGraphs
  MaxEdges = 4
VIEW View
CHECK_DEADLOCK FALSE
INVARIANTS
  EdgePlansAreKept
  EdgeSplitsCanBeUndone
PROPERTY MergersCanBeUndone
