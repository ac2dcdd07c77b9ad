----------------------------- MODULE MCMergers -----------------------------
(***************************************************************************)
(* Four edges in two or three chains are joined until nothing more can be, *)
(* and an edge is put in at a junction of three: every kind of merger, and *)
(* the graphs of four edges they lead to.                                  *)
(***************************************************************************)
EXTENDS Graffine, GraphFactory

\* Edges from vertex to vertex, given as pairs.
Joined(pairs) ==
  Assemble([i \in DOMAIN pairs |-> [A |-> pairs[i][1], B |-> pairs[i][2], fwd |-> TRUE]])

MCInitialGraphs ==
  {Joined(<<<<1,2>>, <<2,3>>, <<4,5>>, <<5,6>>>>),
   Joined(<<<<1,2>>, <<2,3>>, <<4,5>>, <<6,7>>>>),
   Joined(<<<<1,2>>, <<1,3>>, <<1,4>>>>)}

MCNext == Mergers \/ CreateEdgeAtJunction
MCSpec == Init /\ [][MCNext]_gr
=============================================================================
