---------------------------- MODULE GraphLookups ----------------------------
(***************************************************************************)
(* What the lookups, the adjacency analyser and the self-checks answer on  *)
(* a graph that transformations have changed.  Each is compared with the   *)
(* vertices the edges refer to: everything else a lookup reads (indexes,   *)
(* edge lists, neighbour links, directions) is derived state that separate *)
(* code keeps up to date.                                                  *)
(***************************************************************************)
EXTENDS Graffine, Adjacency, SelfChecks, VertexForms

IndOf(h) == gr.eg[h].ind
Near(u, v) == u = v \/ CommonEdges(gr, u, v) # {}

-----------------------------------------------------------------------------
\* A transformation called with a vertex starts from any edge descriptor the
\* vertex holds and a stored index: it arrives at a slot of that vertex, and
\* takes it for a cycle boundary exactly when it is one (common.h is_in_graph,
\* locate; component.h bulk_slot, end_slot).
VerticesAreLocated ==
  \A v \in DOMAIN gr.vx : \A d \in DOMAIN gr.vx[v].eds :
    /\ IsInGraph(gr, v, d)
    /\ IF Deg(gr, v) = 2
       THEN LET b == BulkSlotAtVertex(gr, v, d)
            IN  IF IsValidBulk(gr, b) THEN VertexAtBulk(gr, b[1], b[2]) = v
                ELSE IsUnconnectedCycle(gr, b[1]) /\ VertexAtEnd(gr, <<b[1], "A">>) = v
       ELSE LET s == EndSlotAtVertex(gr, v, d)
            IN  EndEdge(gr, s) = d[1] /\ VertexAtEnd(gr, s) = v

\* Walking along a chain from any end of an edge, whichever way it points: the
\* next edge is met at the vertex of that end, and where there is none the end
\* is the head or the tail of the chain and has its slot (indexing.h).
EdgeEndsAreLocated ==
  \A h \in DOMAIN gr.eg, e \in End :
    LET w == gr.eg[h].w
        a == Ind2a(gr, w, IndOf(h))
        b == NeigAOfEgEnd(gr, w, a, e)
        v == gr.eg[h].vv[e]
        chainEnd == EgEndIsHead(gr, w, IndOf(h), e) \/ EgEndIsTail(gr, w, IndOf(h), e)
    IN  /\ a # Undefined /\ a = Indc2a(gr, w, gr.eg[h].indc)
        /\ Ind2Indc(gr, gr.eg[h].c, IndOf(h)) = gr.eg[h].indc
        /\ chainEnd = (b = Undefined)
        /\ b # Undefined => gr.eg[gr.cn[w].g[b]].vv[InternalEgEnd(gr, w, a, b)] = v
        /\ chainEnd => /\ VertexAtEnd(gr, <<w, Ind2End(gr, w, IndOf(h), e)>>) = v
                       /\ EndSlotAt(gr, w, a, e) = <<w, Ind2End(gr, w, IndOf(h), e)>>

\* Two end edges are linked by their indexes exactly when they meet at the end
\* of a chain, and each end of the link is found from its edge and the other
\* end, in chains of one edge too (graph/neighbours.h inds_to_chain_link).
LinksAreFound ==
  \A s, t \in EndSlots(gr) :
    LET i == IndOf(EndEdge(gr, s))
        j == IndOf(EndEdge(gr, t))
        links == IndsToChainLink(gr, i, j)
    IN  /\ s # t /\ VertexAtEnd(gr, s) = VertexAtEnd(gr, t) => <<s, t>> \in links
        /\ \A x \in links :
             /\ IndOf(EndEdge(gr, x[1])) = i /\ IndOf(EndEdge(gr, x[2])) = j
             /\ VertexAtEnd(gr, x[1]) = VertexAtEnd(gr, x[2])
             /\ x[1][2] = Ind2EndWithNeig(gr, x[1][1], i, x[2])

\* The neighbours listed for an edge, by component index, are the edges that
\* share a vertex with it: those of the other descriptors at its vertices
\* (adjacency.h list_edges; vertex.h edges_connected_to; edge.h is_neig_of).
NeighboursOfEdgesAgree ==
  \A c \in DOMAIN gr.ct :
    LET list == ListEdges(gr, c)
    IN  \A i \in 1..NumEdges(gr, c) :
          LET h == EdgeAtIndc(gr, c, i)
              met(e) == LET v == gr.eg[h].vv[e]
                        IN  {gr.vx[v].eds[d] : d \in EdgesConnectedTo(gr, v, <<h, e>>)}
          IN  /\ list[i] = met("A") \cup met("B")
              /\ \A k \in DOMAIN gr.eg \ {h} :
                   IsNeigOf(gr, h, k) <=> gr.eg[k].c = c /\ gr.eg[k].indc \in list[i]

\* Slots are adjacent exactly when their vertices are the same or have an edge
\* in common, ends of the same chain excepted (adjacency.h are_adjacent).
AdjacencyIsByEdges ==
  /\ \A s, t \in EndSlots(gr) :
       s[1] # t[1] => (EndsAdjacent(gr, s, t) <=> Near(VertexAtEnd(gr, s), VertexAtEnd(gr, t)))
  /\ \A b1, b2 \in BulkSlots(gr) :
       BulksAdjacent(b1, b2) <=>
         Near(VertexAtBulk(gr, b1[1], b1[2]), VertexAtBulk(gr, b2[1], b2[2]))
  /\ \A s \in EndSlots(gr), b \in BulkSlots(gr) :
       EndAndBulkAdjacent(gr, s, b) <=> Near(VertexAtEnd(gr, s), VertexAtBulk(gr, b[1], b[2]))

\* The same of all slots: "Finds out whether the vertices at the chain ends s1
\* and s2 are the same or joined by an edge."  Does not hold: see the README.
EndsAdjacentByEdges ==
  \A s, t \in EndSlots(gr) :
    EndsAdjacent(gr, s, t) <=> Near(VertexAtEnd(gr, s), VertexAtEnd(gr, t))

\* A chain is taken for a cycle, by its neighbour links alone, exactly when its
\* two ends are at one vertex, and the loop then has that vertex only once
\* (chain/connectivity.h is_unconnected_cycle, is_connected_cycle).
CyclesAreRecognised ==
  \A w \in DOMAIN gr.cn :
    /\ IsCycle(gr, w) <=> VertexAtEnd(gr, <<w, "A">>) = VertexAtEnd(gr, <<w, "B">>)
    /\ IsUnconnectedCycle(gr, w) => Deg(gr, VertexAtEnd(gr, <<w, "A">>)) = 2

\* The chain triangles found by stepping over neighbour links are the sets of
\* three chains that join three vertices pairwise (component.h).
TrianglesAreFound ==
  \A c \in DOMAIN gr.ct :
    LET ends(w) == {VertexAtEnd(gr, <<w, e>>) : e \in End}
        threes == {W \in SUBSET ToSet(gr.ct[c].ww) : Cardinality(W) = 3}
        joined(W) == UNION {ends(w) : w \in W}
    IN  ChainTriangles(gr, c) =
          {<<W, joined(W)>> : W \in
             {X \in threes : /\ \A w \in X : Cardinality(ends(w)) = 2
                             /\ Cardinality({ends(w) : w \in X}) = 3
                             /\ Cardinality(joined(X)) = 3
                             /\ \A v \in joined(X) : Deg(gr, v) >= 3}}

\* What transformations look up beforehand is where the vertices and the edges are,
\* and a link between chain ends is found from the two edges.
LookupsAgree == VerticesAreLocated /\ EdgeEndsAreLocated /\ LinksAreFound

\* What the analysers answer from links and lists is what the vertices of the edges
\* say: neighbours, adjacency, cycles and triangles.
QueriesAgree ==
  NeighboursOfEdgesAgree /\ AdjacencyIsByEdges /\ CyclesAreRecognised /\ TrianglesAreFound

-----------------------------------------------------------------------------
(* Calls with vertices *)

HeldBy(v) == DOMAIN gr.vx[v].eds
Calls == {x \in (DOMAIN gr.vx) \X Ends \X (DOMAIN gr.vx) \X Ends :
            x[2] \in HeldBy(x[1]) /\ x[4] \in HeldBy(x[3])}
LetThrough(u, v) == u # v /\ CommonEdges(gr, u, v) = {}

\* Two vertices of fitting degrees are accepted for a merger exactly when they
\* are not the same and no edge would become a loop.  The checks tell that from
\* positions in chains and from neighbour links, in four different forms.
MergersExcludeLoopsOnly ==
  \A x \in Calls :
    LET u == x[1] d == x[2] v == x[3] f == x[4]
        ok == LetThrough(u, v)
    IN  /\ AcceptsLeaves(gr, u, d, v, f) <=> ok /\ Deg(gr, u) = 1 /\ Deg(gr, v) = 1
        /\ AcceptsLeafAndBulk(gr, u, d, v, f) <=> ok /\ Deg(gr, u) = 1 /\ Deg(gr, v) = 2
        /\ AcceptsLeafAndJunction(gr, u, d, v, f) <=> ok /\ Deg(gr, u) = 1 /\ Deg(gr, v) = 3
        /\ AcceptsBulks(gr, u, d, v, f) <=> ok /\ Deg(gr, u) = 2 /\ Deg(gr, v) = 2

\* Vertex v of the graph has given way to the groups of edge ends in G.
Becomes(g, V, G) == g.ok /\ Meetings(g) = (Meetings(gr) \ {HeldBy(v) : v \in V}) \cup G

\* A merger called with two vertices joins these two and nothing else, whichever
\* edge of each the call starts from.
MergersJoinTheVertices ==
  \A x \in Calls :
    LET u == x[1] d == x[2] v == x[3] f == x[4]
        Joins(r) == Becomes(r.g, {u, v}, {HeldBy(u) \cup HeldBy(v)})
    IN  /\ AcceptsLeaves(gr, u, d, v, f) => Joins(MergeLeavesAt(gr, u, d, v, f))
        /\ AcceptsLeafAndBulk(gr, u, d, v, f) => Joins(MergeLeafAndBulkAt(gr, u, d, v, f))
        /\ AcceptsLeafAndJunction(gr, u, d, v, f) => Joins(MergeLeafAndJunctionAt(gr, u, d, v, f))
        /\ AcceptsBulks(gr, u, d, v, f) => Joins(MergeBulksAt(gr, u, d, v, f))

\* A split called with a vertex and an edge, or two, detaches these from it.
SplitsDetachTheEdges ==
  \A v \in DOMAIN gr.vx : \A d \in HeldBy(v) :
    LET Detaches(r, D) == Becomes(r.g, {v}, {D, HeldBy(v) \ D})
    IN  /\ Deg(gr, v) = 2 => Detaches(SplitBulkAt(gr, v, d), {d})
        /\ Deg(gr, v) = 3 => Detaches(SplitOffThreeWayAt(gr, v, d), {d})
        /\ Deg(gr, v) = 4 => /\ Detaches(SplitOffFourWayAt(gr, v, d), {d})
                             /\ \A f \in HeldBy(v) \ {d} :
                                  Detaches(SplitFourWayInPairsAt(gr, v, d, f), {d, f})

\* An edge created at a vertex hangs on it; one created in the chain there comes
\* between the vertex and a single edge of it.
CreationsAreAtTheVertex ==
  \A v \in DOMAIN gr.vx : \A d \in HeldBy(v) :
    LET Hangs(r) == \E e \in End :
          Becomes(r.g, {v}, {HeldBy(v) \cup {<<r.h, e>>}, {<<r.h, Opp(e)>>}})
        Comes(r) == \E e \in End, x \in HeldBy(v) :
          Becomes(r.g, {v}, {{x, <<r.h, e>>}, (HeldBy(v) \ {x}) \cup {<<r.h, Opp(e)>>}})
    IN  /\ Deg(gr, v) \in {2, 3} => Hangs(CreateAtVertex(gr, v, d))
        /\ Comes(CreateInChainAtVertex(gr, v, d))

\* A call with vertices is accepted exactly when no loop would come of it, and acts
\* on these vertices, whichever of their edges it starts from.
VertexFormsAct ==
  /\ MergersExcludeLoopsOnly /\ MergersJoinTheVertices
  /\ SplitsDetachTheEdges /\ CreationsAreAtTheVertex
-----------------------------------------------------------------------------
\* The library's own tests of the whole structure pass after any calls.
SelfChecksPass == IntegralTests(gr)
=============================================================================
