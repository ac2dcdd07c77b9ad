SPECIFICATION MCSpec
CONSTANTS
  InitialGraphs <- MCInitialGraphs
  MaxEdges = 3
VIEW View
INVARIANTS
  TypeOK
  RecordsAgree
  DescriptorsAgree
  NeighboursShareVertex
  ChainsAreMaximal
  ChecksHold
PROPERTIES
  MultigraphSpec
  SplitsCanBeUndone
