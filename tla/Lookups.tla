------------------------------- MODULE Lookups -------------------------------
(***************************************************************************)
(* Finding an edge, a vertex or a slot of a graph from what another part   *)
(* stores about it: chain/indexing.h, component.h, graph.h and the vertex  *)
(* forms of the transformations (transforms/common.h).  Undefined is 0.    *)
(***************************************************************************)
EXTENDS EdgeTransforms

Undefined == 0
FirstOrUndefined(S) == IF S = {} THEN Undefined ELSE CHOOSE x \in S : \A y \in S : x <= y
OuterEnd(g, h, e) == InnerEnd(g, h, e)

(* Chains: edges by index, slots by edge *)

Ind2a(g, w, ind) == FirstOrUndefined({a \in DOMAIN g.cn[w].g : g.eg[g.cn[w].g[a]].ind = ind})
Indc2a(g, w, indc) == FirstOrUndefined({a \in DOMAIN g.cn[w].g : g.eg[g.cn[w].g[a]].indc = indc})

EgEndIsHead(g, w, ind, e) ==
  LET h == Last(g.cn[w].g) IN g.eg[h].ind = ind /\ e = IF g.eg[h].fwd THEN "B" ELSE "A"
EgEndIsTail(g, w, ind, e) ==
  LET h == Head(g.cn[w].g) IN g.eg[h].ind = ind /\ e = IF g.eg[h].fwd THEN "A" ELSE "B"

NeigAOfEgEnd(g, w, a, e) ==
  LET b == IF g.eg[g.cn[w].g[a]].fwd = (e = "B") THEN a + 1 ELSE a - 1
  IN  IF b \in DOMAIN g.cn[w].g THEN b ELSE Undefined

\* The end of edge b at the vertex it shares with its neighbour a in the chain.
InternalEgEnd(g, w, a, b) ==
  IF g.eg[g.cn[w].g[b]].fwd = (a > b) THEN "B" ELSE "A"

\* Faulty: the slot before the edge whatever its direction.
EgEndToBulkSlotForwards(g, e, w, a) == IF e = "A" THEN <<w, a - 1>> ELSE <<w, a>>

\* The position of the vertex at inner end e of the edge; 0 and the length of
\* the chain are its ends.
EgEndToBulkSlot(g, e, w, a) ==
  IF (e = "A") = g.eg[g.cn[w].g[a]].fwd THEN <<w, a - 1>> ELSE <<w, a>>

EndSlotAt(g, w, a, e) == <<w, OuterEnd(g, g.cn[w].g[a], e)>>

Ind2End(g, w, ind, e) ==
  IF Length(g, w) = 1 THEN OuterEnd(g, Head(g.cn[w].g), e)
  ELSE IF g.eg[Head(g.cn[w].g)].ind = ind THEN "A" ELSE "B"

\* The end of the chain at end edge ind where its neighbour is nb.
Ind2EndWithNeig(g, w, ind, nb) ==
  IF Length(g, w) = 1 THEN IF nb \in Ngs(g, <<w, "A">>) THEN "A" ELSE "B"
  ELSE IF g.eg[Head(g.cn[w].g)].ind = ind THEN "A" ELSE "B"

(* Graph: links between chains by their edges *)

SlotsOfEnd(g, w, ind) == {s \in {w} \X End : g.eg[EndEdge(g, s)].ind = ind}

\* The pairs of chain ends where the two edges meet; one of them is returned.
IndsToChainLink(g, ind1, ind2) ==
  {x \in SlotsOfEnd(g, g.egl[ind1].w, ind1) \X EndSlots(g) :
     x[2] \in Ngs(g, x[1]) /\ x[1] \in Ngs(g, x[2]) /\ g.eg[EndEdge(g, x[2])].ind = ind2}


(* Component: edges and slots by the descriptors kept in vertices *)

Ind2Indc(g, c, ind) == FirstOrUndefined({i \in DOMAIN g.ct[c].egl : g.ct[c].egl[i].i = ind})
Chid(g, c, idc) ==
  FirstOrUndefined({w \in ToSet(g.ct[c].ww) : g.cn[w].idc = idc})
EdgeAtIndc(g, c, i) == LET x == g.ct[c].egl[i] IN g.cn[x.w].g[x.a]

BulkSlotAtVertex(g, v, d) ==
  LET x == g.ct[g.vx[v].c].egl[g.vx[v].eds[d]] IN EgEndToBulkSlot(g, d[2], x.w, x.a)

EndSlotAtVertex(g, v, d) ==
  LET x == g.ct[g.vx[v].c].egl[g.vx[v].eds[d]]
  IN  <<x.w, OuterEnd(g, g.cn[x.w].g[x.a], d[2])>>

\* Checks of a vertex, and of a slot, handed to a transformation.
IsInGraph(g, v, d) ==
  /\ g.vx[v].c \in DOMAIN g.ct
  /\ LET i == g.vx[v].eds[d]
         egl == g.ct[g.vx[v].c].egl
     IN  /\ i \in DOMAIN egl
         /\ egl[i].w \in DOMAIN g.cn
         /\ egl[i].a \in DOMAIN g.cn[egl[i].w].g
         /\ g.eg[g.cn[egl[i].w].g[egl[i].a]].vv[d[2]] = v
IsValidBulk(g, b) == b[1] \in DOMAIN g.cn /\ b[2] > 0 /\ b[2] < Length(g, b[1])

(* Vertices and edges *)

Deg(g, v) == Cardinality(DOMAIN g.vx[v].eds)

\* The ends that meet end d at vertex v.
EdgesConnectedTo(g, v, d) == DOMAIN g.vx[v].eds \ {d}
CommonEdges(g, u, v) ==
  {g.vx[u].eds[d] : d \in {x \in DOMAIN g.vx[u].eds : \E y \in DOMAIN g.vx[v].eds : y[1] = x[1]}}
IsNeigOf(g, h, k) ==
  \E e \in End : \E d \in End : <<k, d>> \in DOMAIN g.vx[g.eg[h].vv[e]].eds

NumVerticesOfComponent(g, c, d) == Cardinality({v \in g.ct[c].vv : Deg(g, v) = d})

(* Component: chain triangles *)

IsEligible(g, w) ==
  ~IsCycle(g, w) /\ \A e \in End : DegreeAtEnd(g, <<w, e>>) >= 3

\* The far ends of the neighbours meet.
ClosesTriangle(g, sA, sB) == OppSlot(sB) \in Ngs(g, OppSlot(sA))

\* Each triangle as its chains and its vertices.
ChainTriangles(g, c) ==
  LET V(s) == VertexAtEnd(g, s)
      A(w) == <<w, "A">>
      B(w) == <<w, "B">>
      found == {x \in ToSet(g.ct[c].ww) \X EndSlots(g) \X EndSlots(g) :
                  /\ x[2] \in Ngs(g, A(x[1])) /\ x[3] \in Ngs(g, B(x[1]))
                  /\ Cardinality({x[1], x[2][1], x[3][1]}) = 3
                  /\ \A w \in {x[1], x[2][1], x[3][1]} : IsEligible(g, w)
                  /\ ClosesTriangle(g, x[2], x[3])
                  /\ V(OppSlot(x[2])) \notin {V(A(x[1])), V(B(x[1]))}}
  IN  {<<{x[1], x[2][1], x[3][1]}, {V(A(x[1])), V(B(x[1])), V(OppSlot(x[2]))}>> : x \in found}
=============================================================================
