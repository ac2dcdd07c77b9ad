SPECIFICATION Spec
CONSTANTS
  Links <- MCLinks
  EpochMod = 3
INVARIANTS
  MarksAreOfThisSearch
  ResultIsReach
PROPERTY SearchEnds
