---------------------------- MODULE MCSmallGraphs ----------------------------
(***************************************************************************)
(* Every graph of at most MaxEdges edges that calls in any number and any  *)
(* order can lead to, from the empty graph on; and two graphs of four      *)
(* edges, two cycles and a star, with all that they can be divided into.   *)
(***************************************************************************)
EXTENDS Graffine, GraphFactory

\* Edges from vertex to vertex, given as pairs.
Joined(pairs) ==
  Assemble([i \in DOMAIN pairs |-> [A |-> pairs[i][1], B |-> pairs[i][2], fwd |-> TRUE]])

MCInitialGraphs ==
  {EmptyGraph,
   Joined(<<<<1,2>>, <<2,1>>, <<1,3>>, <<3,1>>>>),
   Joined(<<<<1,2>>, <<1,3>>, <<1,4>>, <<1,5>>>>)}

\* Graphs of more edges are not joined again.
MCNext ==
  \/ gr.ne <= MaxEdges /\ Mergers
  \/ Splits \/ EdgeChanges \/ CreateChainComponent \/ DeleteWholeComponent
MCSpec == Init /\ [][MCNext]_gr
=============================================================================
