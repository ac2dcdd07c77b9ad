SPECIFICATION Spec
CONSTANTS
  Networks <- MCNetworks
  Inf = 1000
INVARIANTS
  JunctionsAgree
  PathIsShortest
  ClassesAreByReach
PROPERTY SearchEnds
