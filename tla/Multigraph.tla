----------------------------- MODULE Multigraph -----------------------------
(***************************************************************************)
(* What the graph promises, without chains, components or indexes: a       *)
(* multigraph given by which edge ends meet at which vertex.  Edges and    *)
(* vertices keep their identity as long as they live.  Each action is the  *)
(* effect a family of transformations is documented to have.               *)
(***************************************************************************)
EXTENDS Naturals, FiniteSets

CONSTANTS Edge,       \* the identities of edges
          Vertex,     \* the identities of vertices
          MaxDegree   \* the most edge ends that may meet

ASSUME MaxDegreeAssumption == MaxDegree \in Nat \ {0}

VARIABLE at           \* the edge ends that meet at each vertex

Ends == Edge \X {"A", "B"}

OtherEnd(d) == <<d[1], IF d[2] = "A" THEN "B" ELSE "A">>
LiveEnds == UNION {at[v] : v \in DOMAIN at}

\* A vertex may hold the ends D: some, not too many, and no edge is a loop.
Holdable(D) ==
  /\ D \subseteq Ends
  /\ D # {}
  /\ IsFiniteSet(D) /\ Cardinality(D) <= MaxDegree
  /\ \A d \in D : OtherEnd(d) \notin D

Disjoint(f, K) == \A u, v \in K : u # v => f[u] \cap f[v] = {}

\* The other ends of the edges at the vertices K are at vertices in K.
Closed(f, K) == \A v \in K : \A d \in f[v] : \E u \in K : OtherEnd(d) \in f[u]

WellFormed(f) ==
  /\ f = [v \in DOMAIN f |-> f[v]]
  /\ DOMAIN f \subseteq Vertex
  /\ \A v \in DOMAIN f : Holdable(f[v])
  /\ Disjoint(f, DOMAIN f)
  /\ Closed(f, DOMAIN f)

Init == WellFormed(at)

\* Vertex k takes over the ends of vertex x, which disappears.
Merged(f, k, x) ==
  [v \in DOMAIN f \ {x} |-> IF v = k THEN f[k] \cup f[x] ELSE f[v]]

\* Faulty: nothing is asked of the vertex that results.
MergeUnchecked(k, x) ==
  /\ k \in DOMAIN at /\ x \in DOMAIN at /\ k # x
  /\ at' = Merged(at, k, x)

Merge(k, x) ==
  /\ k \in DOMAIN at /\ x \in DOMAIN at /\ k # x
  /\ Holdable(at[k] \cup at[x])
  /\ at' = Merged(at, k, x)

\* Vertex y has the ends D of k and a new vertex x the others; y is k itself
\* or also new.
Divided(f, k, x, y, D) ==
  [v \in (DOMAIN f \ {k}) \cup {x, y} |->
     IF v = y THEN D ELSE IF v = x THEN f[k] \ D ELSE f[v]]

Split(k, x, y, D) ==
  /\ k \in DOMAIN at
  /\ x \in Vertex \ DOMAIN at
  /\ y = k \/ y \in Vertex \ DOMAIN at
  /\ x # y
  /\ D # {} /\ D \subseteq at[k] /\ D # at[k]
  /\ at' = Divided(at, k, x, y, D)

\* No part of K is closed by itself.
Connected(f, K) == \A L \in SUBSET K : L # {} /\ Closed(f, L) => L = K

\* A new component appears: its vertices are those the old graph lacks.
Create ==
  LET new == DOMAIN at' \ DOMAIN at
  IN  /\ at' = [v \in DOMAIN at' |-> at'[v]]
      /\ DOMAIN at \subseteq DOMAIN at'
      /\ \A v \in DOMAIN at : at'[v] = at[v]
      /\ new # {} /\ new \subseteq Vertex
      /\ \A v \in new : Holdable(at'[v]) /\ at'[v] \cap LiveEnds = {}
      /\ Disjoint(at', new)
      /\ Closed(at', new) /\ Connected(at', new)

\* A component disappears with its edges.
Delete(K) ==
  /\ K \subseteq DOMAIN at /\ K # {}
  /\ Closed(at, K) /\ Connected(at, K)
  /\ at' = [v \in DOMAIN at \ K |-> at[v]]

\* A new edge h joins vertex k to a new vertex x.  One old end at k may leave it
\* for x, so that the new edge lies between; the ends D stay.
Expanded(f, k, x, h, e, D) ==
  [v \in DOMAIN f \cup {x} |->
     IF v = k THEN D \cup {<<h, e>>}
     ELSE IF v = x THEN (f[k] \ D) \cup {OtherEnd(<<h, e>>)} ELSE f[v]]

Expand(k, x, h, e, D) ==
  /\ k \in DOMAIN at
  /\ x \in Vertex \ DOMAIN at
  /\ <<h, e>> \in Ends /\ <<h, e>> \notin LiveEnds /\ OtherEnd(<<h, e>>) \notin LiveEnds
  /\ D \subseteq at[k] /\ \A c, d \in at[k] \ D : c = d
  /\ Holdable(D \cup {<<h, e>>}) /\ Holdable((at[k] \ D) \cup {OtherEnd(<<h, e>>)})
  /\ at' = Expanded(at, k, x, h, e, D)

\* The edge with end d at vertex k and the other at x disappears: x is merged
\* into k.  One of the two was a leaf or had one other edge.
Contracted(f, k, x, d) ==
  [v \in DOMAIN f \ {x} |->
     IF v = k THEN (f[k] \ {d}) \cup (f[x] \ {OtherEnd(d)}) ELSE f[v]]

Contract(k, x, d) ==
  /\ k \in DOMAIN at /\ x \in DOMAIN at
  /\ d \in at[k] /\ OtherEnd(d) \in at[x]
  /\ Cardinality(at[k]) <= 2 \/ Cardinality(at[x]) <= 2
  /\ Holdable((at[k] \ {d}) \cup (at[x] \ {OtherEnd(d)}))
  /\ at' = Contracted(at, k, x, d)

Next ==
  \/ \E k, x \in DOMAIN at : Merge(k, x)
  \/ \E k \in DOMAIN at, x, y \in DOMAIN at' :
       x \notin DOMAIN at /\ \E D \in SUBSET at[k] : Split(k, x, y, D)
  \/ \E k \in DOMAIN at \cap DOMAIN at', x \in DOMAIN at' \ DOMAIN at :
       \E d \in at'[k], D \in SUBSET at[k] : Expand(k, x, d[1], d[2], D)
  \/ \E k, x \in DOMAIN at : \E d \in at[k] : Contract(k, x, d)
  \/ Create
  \/ \E K \in SUBSET DOMAIN at : Delete(K)

Spec == Init /\ [][Next]_at

-----------------------------------------------------------------------------
\* No edge is a loop, no vertex is bare or has more ends than allowed, and
\* every edge that lives has both ends, each at one vertex.
EveryEdgeHasItsEnds == WellFormed(at)
=============================================================================
