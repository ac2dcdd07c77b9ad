----------------------------- MODULE MCEdgePaths -----------------------------
(***************************************************************************)
(* Searches in the components of small graphs with cycles and branches,    *)
(* some of their edges heavy and some without weight, so that the way over *)
(* fewer edges is not always the shorter one.                              *)
(***************************************************************************)
EXTENDS EdgePaths, GraphFactory, Adjacency

\* Edges from each vertex to the next one given.
Joined(pairs) == Assemble([i \in DOMAIN pairs |-> [A |-> pairs[i][1], B |-> pairs[i][2], fwd |-> TRUE]])

Single == Joined(<<<<1, 2>>>>)
Ring == Joined(<<<<1, 2>>, <<2, 3>>, <<3, 4>>, <<4, 5>>, <<5, 1>>>>)
Lollipop == Joined(<<<<1, 2>>, <<2, 3>>, <<3, 4>>, <<4, 5>>, <<5, 3>>>>)
Theta == Joined(<<<<1, 2>>, <<2, 3>>, <<1, 3>>, <<1, 4>>, <<4, 3>>, <<3, 5>>>>)

\* Weights of the edges by component index; the last one is repeated.
WeightPatterns == {<<1>>, <<3, 1>>, <<1, 4, 2, 0, 1>>, <<2, 0, 0, 1>>}
Weighted(g, c, pattern) ==
  [adj |-> ListEdges(g, c),
   weight |-> Strict([i \in 1..NumEdges(g, c) |->
                        pattern[IF i < Len(pattern) THEN i ELSE Len(pattern)]])]

MCComponents ==
  {Weighted(g, 1, p) : g \in {Single, Ring, Lollipop, Theta}, p \in WeightPatterns}
=============================================================================
