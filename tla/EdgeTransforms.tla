--------------------------- MODULE EdgeTransforms ---------------------------
(***************************************************************************)
(* transforms/edge_creation, edge_split, edge_deletion, edge_merger: one   *)
(* edge appears or goes.  Creation and merger return [g |-> the graph,     *)
(* h |-> the edge they result in], deletion [g |-> the graph, v |-> the    *)
(* vertex left where the edge was], which its last hook is given.          *)
(***************************************************************************)
EXTENDS VertexSplit, ComponentTransforms

EdgeAt(g, i) == g.cn[g.egl[i].w].g[g.egl[i].a]

-----------------------------------------------------------------------------
(* edge_creation/in_existing_chain.h: the vertex after the first a edges   *)
(* of chain w gets a new edge between it and one of its old edges          *)

\* The new edge is g.nextH; it is in its place, but has no vertices.
InsertLooseEdge(g, ind, w, a) ==
  LET c == g.cn[w].c
      new == [NewEdge(ind) EXCEPT !.w = w, !.c = c, !.indc = NumEdges(g, c) + 1]
  IN  SetEgl(SetGW([g EXCEPT !.nextH = @ + 1, !.eg = @ @@ (g.nextH :> new),
                             !.cn[w].g = InsertAt(@, a + 1, g.nextH)], w, w),
             c)

InsertEdge(g, ind, w, a) ==
  LET m == g.cn[w].g
      c == g.cn[w].c
  IN  CASE a = Len(m) -> AppendEdgeToChain(g, ind, w)
        [] a = 0 -> Interpose(InsertLooseEdge(g, ind, w, 0), c, g.nextH, m[1], "A")
        [] OTHER -> Interpose(InsertLooseEdge(g, ind, w, a), c, g.nextH, m[a], "B")

CreateInChain(g, w, a) ==
  [g |-> UpdateFor([InsertEdge(g, g.ne + 1, w, a) EXCEPT !.ne = @ + 1], {w}),
   h |-> g.nextH]

\* The vertex that gets the edge, and the edge that leaves it.
PlanInChain(g, w, a) ==
  IF a = 0 THEN [v |-> VertexAtEnd(g, <<w, "A">>), moved |-> g.cn[w].g[1]]
  ELSE [v |-> VertexAtOuter(g, g.cn[w].g[a], "B"), moved |-> g.cn[w].g[a]]

-----------------------------------------------------------------------------
(* edge_creation/in_new_chain.h: a vertex of degree 2 or 3 gets a new edge *)
(* that ends in a leaf                                                     *)

\* The last chain is the new edge; it is merged to the graph at its end A.
LastA(g) == <<Len(g.cn) + 1, "A">>

\* The new edge is taken to be the first of the chain of the last index.
Grown(g) == [g |-> g, h |-> g.cn[g.eg[EdgeAt(g, g.ne)].w].g[1]]

CreateAtBulk(g, s) == Grown(Merge12(AddSingleChainComponent(g, 1), LastA(g), s).g)
CreateAtBoundary(g, w) ==
  Grown(Merge12Cycle(AddSingleChainComponent(g, 1), LastA(g), w).g)

ApplicableAtJunction(g, s) == Cardinality(Ngs(g, s)) = 2
CreateAtJunction(g, s) == Grown(Merge13(AddSingleChainComponent(g, 1), LastA(g), s).g)

-----------------------------------------------------------------------------
(* edge_split/functor.h *)

\* The new edge comes after edge h, at the end of the chain if h is there.
SplitEdge(g, h) == CreateInChain(g, g.eg[h].w, g.eg[h].indw)

-----------------------------------------------------------------------------
(* edge_deletion *)

HasSingleLeaf(g, w) == IsConnectedAt(g, <<w, "A">>) # IsConnectedAt(g, <<w, "B">>)

IsConnectedCycle(g, w) ==
  /\ Cardinality(Ngs(g, <<w, "A">>)) > 1
  /\ Ngs(g, <<w, "A">>) \cap Ngs(g, <<w, "B">>) # {}
IsCycle(g, w) == IsUnconnectedCycle(g, w) \/ IsConnectedCycle(g, w)

\* Faulty: every chain must keep as many edges as a cycle.
IsShrinkableAsCycle(g, w) == HasSingleLeaf(g, w) \/ Length(g, w) > minCycleLength

\* A chain that may lose an edge.
IsShrinkable(g, w) ==
  \/ HasSingleLeaf(g, w)
  \/ Length(g, w) > IF IsCycle(g, w) THEN minCycleLength ELSE 1

\* Every edge end at vertex f goes to vertex t.
ReconnectEdges(g, f, t) ==
  FoldLeft(LAMBDA gg, d : ConnectInner(DisconnectInner(gg, d[1], d[2]), d[1], d[2], t),
           [g EXCEPT !.ok = @ /\ EdgesFound(g, f)], SetToSeq(DOMAIN g.vx[f].eds))

\* Vertex x of edge h, whose other vertex is k, goes with the edge.
Contract(g, h, k, x) ==
  RemoveDisconnected(
    ReconnectEdges(DisconnectInner(DisconnectInner(g, h, "A"), h, "B"), x, k),
    g.eg[h].c, x)

\* The component's last edge takes the index of edge h.
FillIndc(g, h) ==
  LET c == g.eg[h].c
      x == Last(g.ct[c].egl)
  IN  IF g.eg[h].indc = NumEdges(g, c) THEN g
      ELSE SetCmp(g, c, <<g.cn[x.w].g[x.a]>>, g.eg[h].indc)

\* Edge h, freed of its vertices, leaves its chain.
EraseEdge(g, h) ==
  LET w == g.eg[h].w
  IN  SetEgl(SetGW([g EXCEPT !.cn[w].g = RemoveAt(@, g.eg[h].indw),
                             !.eg = Drop(@, h)], w, w),
             g.eg[h].c)

\* The vertex of an edge that outlives it, and the one that does not.
Preserved(g, h) ==
  VertexAtOuter(g, h, IF g.eg[h].indw = Length(g, g.eg[h].w) THEN "B" ELSE "A")
Removed(g, h) ==
  VertexAtOuter(g, h, IF g.eg[h].indw = Length(g, g.eg[h].w) THEN "A" ELSE "B")

RemoveFromComponent(g, h) ==
  LET k == Preserved(g, h)
      x == Removed(g, h)
      degree(v) == Cardinality(DOMAIN g.vx[v].eds)
      checked == [g EXCEPT !.ok = @ /\ Length(g, g.eg[h].w) > 1
                                    /\ degree(k) + degree(x) - 2 \in 1..maxDegree]
  IN  EraseEdge(FillIndc(Contract(checked, h, k, x), h), h)

\* The edge at position a of chain w becomes the i-th of the graph.
GiveInd(g, w, a, i) ==
  LET h == g.cn[w].g[a]
  IN  [g EXCEPT !.eg[h].ind = i, !.ct[g.eg[h].c].egl[g.eg[h].indc].i = i]

\* The graph's last edge takes the index of edge h.  The list still has the
\* position it had before h was removed.
RemoveEdge(g, h) ==
  LET w == g.eg[h].w
      x == g.egl[g.ne]
      a == IF x.w = w /\ x.a > g.eg[h].indw THEN x.a - 1 ELSE x.a
      rest == RemoveFromComponent(g, h)
  IN  UpdateFor([(IF g.eg[h].ind = g.ne THEN rest ELSE GiveInd(rest, x.w, a, g.eg[h].ind))
                   EXCEPT !.ne = @ - 1], {w, x.w})

\* preserving_host_chain.h: the chain has other edges.
ApplicablePreserving(g, h) ==
  Length(g, g.eg[h].w) >= 2 /\ IsShrinkable(g, g.eg[h].w)

\* The vertex at position a of chain w.
VertexLeft(g, w, a) ==
  [g |-> g, v |-> IF a <= Length(g, w) THEN VertexAtOuter(g, g.cn[w].g[a], "A")
                  ELSE VertexAtOuter(g, g.cn[w].g[a - 1], "B")]
DeletePreserving(g, h) == VertexLeft(RemoveEdge(g, h), g.eg[h].w, g.eg[h].indw)

\* deleting_host_chain.h: edge h is a chain with one free end.
IsTwig(g, h) == Length(g, g.eg[h].w) = 1 /\ HasSingleLeaf(g, g.eg[h].w)
ConnectedEnd(g, w) == <<w, IF IsConnectedAt(g, <<w, "A">>) THEN "A" ELSE "B">>

\* r is the result of splitting off the i-th edge, which goes.
DropSplitOff(r, i) ==
  LET c(v) == r.g.vx[v].c
      rm == IF Head(r.g.ct[c(r.res[1])].egl).i = i THEN r.res[1] ELSE r.res[2]
      stay == IF rm = r.res[1] THEN r.res[2] ELSE r.res[1]
  IN  [g |-> DeleteComponent([r.g EXCEPT !.ok = @ /\ NumEdges(r.g, c(rm)) = 1], c(rm)),
       v |-> stay]

DeleteTwig(g, h) ==
  LET s == ConnectedEnd(g, g.eg[h].w)
  IN  DropSplitOff(IF Cardinality(Ngs(g, s)) = 2 THEN Split12(g, s, "second")
                                                 ELSE Split13(g, s),
                   g.eg[h].ind)

\* Neither vertex is the boundary of an unconnected cycle.
OffBoundary(g, h) ==
  LET w == g.eg[h].w
  IN  IsUnconnectedCycle(g, w) =>
        \A e \in End : g.eg[h].vv[e] # VertexAtEnd(g, <<w, "A">>)

\* functor.h: either way.
ApplicableDelete(g, h) ==
  IF IsTwig(g, h) THEN Cardinality(Ngs(g, ConnectedEnd(g, g.eg[h].w))) \in {2, 3}
  ELSE ApplicablePreserving(g, h) /\ OffBoundary(g, h)
DeleteEdge(g, h) == IF IsTwig(g, h) THEN DeleteTwig(g, h) ELSE DeletePreserving(g, h)

\* The vertex that stays and the one that goes.
PlanDelete(g, h) ==
  LET s == ConnectedEnd(g, g.eg[h].w)
  IN  IF IsTwig(g, h)
      THEN [preserved |-> VertexAtEnd(g, s), removed |-> VertexAtEnd(g, OppSlot(s))]
      ELSE [preserved |-> Preserved(g, h), removed |-> Removed(g, h)]

-----------------------------------------------------------------------------
(* edge_merger/functor.h: of two edges at one vertex one is deleted *)

Adjacent(g, h1, h2) == \E e1, e2 \in End : g.eg[h1].vv[e1] = g.eg[h2].vv[e2]

\* Which one goes, and which one stays.
Deleted(g, h1, h2) == IF IsShrinkable(g, g.eg[h1].w) THEN h1 ELSE h2
KeptEdge(g, h1, h2) == IF IsShrinkable(g, g.eg[h1].w) THEN h2 ELSE h1

ApplicableMerger(g, h1, h2) ==
  /\ h1 # h2 /\ Adjacent(g, h1, h2)
  /\ IsShrinkable(g, g.eg[h1].w) \/ IsShrinkable(g, g.eg[h2].w)
  /\ ApplicableDelete(g, Deleted(g, h1, h2))

EdgeNow(g, i) == [g |-> g, h |-> EdgeAt(g, i)]

\* Faulty: the edge kept is sought under its old index.
MergeEdgesSameIndex(g, h1, h2) ==
  EdgeNow(DeleteEdge(g, Deleted(g, h1, h2)).g,
          Min({g.eg[KeptEdge(g, h1, h2)].ind, g.ne - 1}))

\* The edge kept has the index of the deleted one if its own was the last.
MergeEdges(g, h1, h2) ==
  LET del == Deleted(g, h1, h2)
      kept == g.eg[KeptEdge(g, h1, h2)].ind
  IN  EdgeNow(DeleteEdge(g, del).g, IF kept = g.ne THEN g.eg[del].ind ELSE kept)
=============================================================================
