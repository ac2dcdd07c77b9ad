\* Calls end at their bound.
SPECIFICATION MCSpec
CONSTANTS
  InitialGraphs = {}
  MaxEdges = 6
  Inputs <- ConsistentLists
  MaxInput = 3
  MaxCalls = 2
VIEW FilesView
INVARIANTS
  LookupsAgree
  QueriesAgree
  SelfChecksPass
  VertexFormsActAtFirst
PROPERTY ReadsBackWhatWasWritten
CHECK_DEADLOCK FALSE
