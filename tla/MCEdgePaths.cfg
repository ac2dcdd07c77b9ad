SPECIFICATION Spec
CONSTANTS
  Components <- MCComponents
  Inf = 100
INVARIANTS
  SettledUnlessPending
  DistancesSolveEquations
  PathIsShortest
PROPERTY CallsReturn
