SPECIFICATION MCSpec
CONSTANTS
  Edge = {e1, e2, e3}
  Vertex = {v1, v2, v3}
  MaxDegree = 2
INVARIANT EveryEdgeHasItsEnds
