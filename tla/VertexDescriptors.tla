------------------------- MODULE VertexDescriptors -------------------------
(***************************************************************************)
(* The graph-wide list of vertices (containers/vertices_in_graph.h), which *)
(* is a cache: a transformation only marks it stale, and the first read    *)
(* after that rebuilds it.  The list has a table of hints from the number  *)
(* of a vertex to its place, which is never cleared.  Calls, as in module  *)
(* Graffine, and reads, by the client or by an on_end hook, take turns.    *)
(* Within a component vertices are listed by number.                       *)
(***************************************************************************)
EXTENDS Graffine

VARIABLES ved,       \* the list
          index,       \* the hints: a place for every vertex ever listed
          vedStale,    \* whether the list needs a rebuild
          hooked       \* in the on_end hook of a merger that is to update yet

descriptorVars == <<ved, index, vedStale>>
vars == <<gr, ved, index, vedStale, hooked>>

undefined == 0

-----------------------------------------------------------------------------
(* The list and its hints *)

\* The vertices of the graph, component by component, each at its place.
Listed(g) == UNION {{c} \X g.ct[c].vv : c \in DOMAIN g.ct}
IsBefore(x, y) == x[1] < y[1] \/ (x[1] = y[1] /\ x[2] < y[2])
Place(S, x) == 1 + Cardinality({y \in S : IsBefore(y, x)})
Listing(g) ==
  LET S == Listed(g)
  IN  [i \in 1..Cardinality(S) |-> (CHOOSE x \in S : Place(S, x) = i)[2]]

\* The hints after the listing of ids: they hold for these, the others stay.
set_index(hints, ids) ==
  [v \in ToSet(ids) \cup DOMAIN hints |->
     IF v \in ToSet(ids) THEN CHOOSE i \in DOMAIN ids : ids[i] = v ELSE hints[v]]

\* Faulty: the hint is trusted while it is within the list.
find_unconfirmed(list, hints, v) ==
  IF v \in DOMAIN hints /\ hints[v] <= Len(list)
  THEN hints[v]
  ELSE SelectInSeq(list, LAMBDA d : d.idh = v)

\* The place of vertex v.  A hint counts if v is there; else all are searched.
find(list, hints, v) ==
  IF v \in DOMAIN hints /\ hints[v] <= Len(list) /\ list[hints[v]].idh = v
  THEN hints[v]
  ELSE SelectInSeq(list, LAMBDA d : d.idh = v)

\* The vertex at the other end of edge h, one end of which is x.
OppositeVertex(g, x, h) == g.eg[h].vv[Opp(x[2])]

\* The edges at vertex v, by index, with the places of the vertices they lead
\* to.  An edge is looked up by its index in the component of the vertex.
Links(g, v, list, hints) ==
  {LET h == g.egl[g.ct[g.vx[v].c].egl[g.vx[v].eds[x]].i].h
   IN  [egid |-> g.eg[h].ind, vid |-> find(list, hints, OppositeVertex(g, x, h))] :
     x \in DOMAIN g.vx[v].eds}

Unlinked(g, ids) ==
  [i \in DOMAIN ids |->
     [ci |-> g.vx[ids[i]].c, ind |-> i, idh |-> ids[i],
      d |-> Cardinality(DOMAIN g.vx[ids[i]].eds), links |-> {}]]

Linked(g, list, hints) ==
  [i \in DOMAIN list |-> [list[i] EXCEPT !.links = Links(g, list[i].idh, list, hints)]]

\* A rebuild: the vertices first, so that the links find them.
set(g, ids, hints) == ved' = Linked(g, Unlinked(g, ids), hints) /\ index' = hints

\* Whatever reads the list calls this first.
refresh_vertex_descriptors ==
  /\ vedStale /\ vedStale' = FALSE
  /\ set(gr, Listing(gr), set_index(index, Listing(gr)))

-----------------------------------------------------------------------------
(* What the transformations leave of the flag *)

update_vertex_descriptors(stale) == TRUE
update(withVertices, stale) ==
  IF withVertices THEN update_vertex_descriptors(stale) ELSE stale

\* Faulty: the final update is missing.
MarkedByMergerWithoutFinal(stale) == update(FALSE, stale)

\* Two chains become one: the descriptors of edges first, then the vertex is
\* connected, then the mark.
MarkedByMerger(stale) == update_vertex_descriptors(update(FALSE, stale))

\* Placing the vertex asked for by an exchange marks the list, too.
MarkedByExchange(k, stale) == IF k = "first" THEN update_vertex_descriptors(stale) ELSE stale

ChainMerger == MergeLeaves /\ vedStale' = MarkedByMerger(vedStale)

OtherMerger ==
  /\ MergeLeafWithBulk \/ MergeLeafWithJunction \/ MergeBulks
       \/ MergeBulkWithCycleBoundary \/ MergeCycleBoundaries
  /\ vedStale' = update(TRUE, vedStale)

Split == Splits /\ vedStale' = update_vertex_descriptors(vedStale)

EdgeChange == EdgeChanges /\ vedStale' = update(TRUE, vedStale)

ComponentChange ==
  /\ CreateChainComponent \/ DeleteWholeComponent
  /\ vedStale' = update(TRUE, vedStale)

Transformation ==
  /\ ~hooked
  /\ ChainMerger \/ OtherMerger \/ Split \/ EdgeChange \/ ComponentChange
  /\ UNCHANGED <<ved, index, hooked>>

\* This merger calls the on_end hook before the update with vertices.
CycleMerger ==
  /\ ~hooked /\ hooked' = TRUE
  /\ \E s1 \in EndSlots(gr), w2 \in UnconnectedCycles(gr), k \in Keeps :
       /\ Applicable12Cycle(gr, s1, w2)
       /\ Apply(KeepMerge12Cycle(gr, s1, w2, k))
       /\ vedStale' = update(FALSE, MarkedByExchange(k, vedStale))
  /\ UNCHANGED <<ved, index>>

UpdateAfterHook ==
  /\ hooked /\ hooked' = FALSE
  /\ vedStale' = update(TRUE, vedStale)
  /\ UNCHANGED <<gr, ved, index>>

Read == refresh_vertex_descriptors /\ UNCHANGED <<gr, hooked>>

DescriptorsInit == Init /\ ved = <<>> /\ index = [v \in {} |-> 0] /\ vedStale = TRUE /\ hooked = FALSE
DescriptorsNext == Transformation \/ CycleMerger \/ UpdateAfterHook \/ Read
DescriptorsSpec == DescriptorsInit /\ [][DescriptorsNext]_vars
-----------------------------------------------------------------------------
(* Invariants *)

\* The list that a read would return without a rebuild lists every vertex of
\* the graph as it is now, once, with its component and number of edges.
ListsTheVertices ==
  /\ Len(ved) = Cardinality(DOMAIN gr.vx)
  /\ {ved[i].idh : i \in DOMAIN ved} = DOMAIN gr.vx
  /\ \A i \in DOMAIN ved :
       /\ ved[i].ind = i
       /\ ved[i].idh \in gr.ct[ved[i].ci].vv
       /\ ved[i].d = Cardinality(EndsAt(ved[i].idh))

\* The links of the list are the edges of the graph: each leads from one of
\* its vertices to the other, whatever way the edge is laid, so that walking
\* over the links and back ends where it began.
LinksFollowEdges ==
  \A i \in DOMAIN ved :
    /\ Cardinality(ved[i].links) = ved[i].d
    /\ \A l \in ved[i].links :
         /\ {ved[i].idh, ved[l.vid].idh} = {gr.eg[gr.egl[l.egid].h].vv[e] : e \in End}
         /\ [egid |-> l.egid, vid |-> i] \in ved[l.vid].links

\* Between calls, reads describe the graph as it is, its vertices and its edges: no
\* transformation leaves the list unmarked, be it one that updates by parts (stale
\* reads).
ReadsAreCurrent == ~vedStale /\ ~hooked => ListsTheVertices /\ LinksFollowEdges

\* A vertex is found by its number exactly while it is in the graph, though the
\* hints of vertices long removed point into the list (stale hints); the hint of a
\* live vertex is right, so that no search through the list is needed.
OnlyLiveVerticesAreFound ==
  ~vedStale /\ ~hooked =>
    \A v \in 1..gr.nextV :
      IF v \in DOMAIN gr.vx
      THEN /\ find(ved, index, v) \in DOMAIN ved /\ ved[find(ved, index, v)].idh = v
           /\ v \in DOMAIN index /\ ved[index[v]].idh = v
      ELSE find(ved, index, v) = undefined

\* As a hook reads it: "Rebuilt lazily, on first access after a change of the
\* graph" (graph.h), the hooks being called "before and after they change the
\* graph" (README).
HooksReadTheChangedGraph == ~vedStale => ListsTheVertices
=============================================================================
