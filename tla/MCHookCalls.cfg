\* A graph that was left half changed is not used any more.
SPECIFICATION Spec
CONSTANTS
  capacity = 3
  MaxPullSteps = 2
CHECK_DEADLOCK FALSE
INVARIANTS
  ContextIsWhatEncloses
  HooksAreNested
  ReadsAreOfTheChangedGraph
PROPERTY RequestsEndWithCalls
