------------------------------ MODULE Adjacency ------------------------------
(***************************************************************************)
(* Which edges, chains and vertices of a graph are next to each other, read*)
(* off the neighbour links of the chains: structure/analyzers/adjacency.h. *)
(***************************************************************************)
EXTENDS GraphStructure

IndcAt(g, w, a) == g.eg[g.cn[w].g[a]].indc
IndcsNextTo(g, s) == {g.eg[EndEdge(g, t)].indc : t \in Ngs(g, s)}

\* Component indexes of the edges next to the one at position a of chain w.
EdgesNextTo(g, w, a) ==
  (IF a = 1 THEN IndcsNextTo(g, <<w, "A">>) ELSE {IndcAt(g, w, a - 1)})
    \cup (IF a = Length(g, w) THEN IndcsNextTo(g, <<w, "B">>) ELSE {IndcAt(g, w, a + 1)})

\* list_edges: the neighbours of each edge of component c, by component index.
ListEdges(g, c) ==
  LET at(i) == {x \in ToSet(g.ct[c].ww) \X (1..NumEdges(g, c)) :
                  x[2] <= Length(g, x[1]) /\ IndcAt(g, x[1], x[2]) = i}
  IN  [i \in 1..NumEdges(g, c) |-> UNION {EdgesNextTo(g, x[1], x[2]) : x \in at(i)}]

\* Adjacent vertices are the same or joined by an edge.  First two bulk slots,
\* then two ends, then an end and a bulk slot.
BulksAdjacent(b1, b2) ==
  b1[1] = b2[1] /\ (b1[2] = b2[2] \/ b1[2] = b2[2] + 1 \/ b2[2] = b1[2] + 1)

IsShort(g, w) == Length(g, w) < 2
HasSuchNeig(g, s, w) == \E n \in Ngs(g, s) : n[1] = w
SameComponent(g, w1, w2) == g.cn[w1].c = g.cn[w2].c

\* Faulty: chains of one edge are not looked across.
EndsAdjacentSameVertex(g, s1, s2) ==
  \/ s1[1] = s2[1] /\ (s1[2] = s2[2] \/ IsShort(g, s1[1]) \/ HasSuchNeig(g, <<s1[1], "A">>, s1[1]))
  \/ s2 \in Ngs(g, s1)

EndsAdjacent(g, s1, s2) ==
  IF s1[1] = s2[1]
  THEN s1[2] = s2[2] \/ IsShort(g, s1[1]) \/ HasSuchNeig(g, <<s1[1], "A">>, s1[1])
  ELSE /\ SameComponent(g, s1[1], s2[1])
       /\ \/ \E n \in Ngs(g, s1) :
               \/ n[1] = s2[1] /\ (n[2] = s2[2] \/ IsShort(g, n[1]))
               \/ n[1] # s2[1] /\ IsShort(g, n[1]) /\ s2 \in Ngs(g, OppSlot(n))
          \/ IsShort(g, s1[1]) /\ s2 \in Ngs(g, OppSlot(s1))

EndAndBulkAdjacent(g, s, b) ==
  LET first == b[2] = 1
      last == b[2] = Length(g, b[1]) - 1
  IN  IF s[1] = b[1]
      THEN \/ s[2] = "A" /\ first
           \/ s[2] = "B" /\ last
           \/ HasSuchNeig(g, <<s[1], "A">>, s[1]) /\ (first \/ last)
      ELSE /\ SameComponent(g, s[1], b[1])
           /\ \/ first /\ s \in Ngs(g, <<b[1], "A">>)
              \/ last /\ s \in Ngs(g, <<b[1], "B">>)
=============================================================================
