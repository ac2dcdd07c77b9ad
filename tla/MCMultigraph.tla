---------------------------- MODULE MCMultigraph ----------------------------
(***************************************************************************)
(* The abstract multigraph on a few edges and vertices.  Next constrains   *)
(* the graphs before and after, so that it is tried on every candidate,    *)
(* the ill-formed ones included.                                           *)
(***************************************************************************)
EXTENDS Multigraph

Nowhere == 0

\* Every way to put ends at vertices or nowhere; a vertex may be bare.
Candidates ==
  {[v \in V |-> {d \in Ends : p[d] = v}] :
     V \in SUBSET Vertex, p \in [Ends -> Vertex \cup {Nowhere}]}

MCInit == at = <<>> /\ Init
MCNext == \E f \in Candidates : at' = f /\ Next
MCSpec == MCInit /\ [][MCNext]_at
=============================================================================
