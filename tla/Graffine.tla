------------------------------ MODULE Graffine ------------------------------
(***************************************************************************)
(* A graph under the transformations of include/graffine/transforms.  Each *)
(* action is one call of a transformation functor that its applicability   *)
(* check accepts; a rejected call changes nothing and is no action.        *)
(***************************************************************************)
EXTENDS Integers, EdgeTransforms

CONSTANTS InitialGraphs,  \* the graphs to start from
          MaxEdges        \* bound: no graph is made with more edges

VARIABLES gr     \* the graph

Init == gr \in InitialGraphs

Apply(r) == gr' = r.g

-----------------------------------------------------------------------------
(* Vertex mergers *)

\* Which of the vertices is to keep its identity: left to the code, or one.
Keeps == {"any", "first", "second"}

MergeLeaves ==
  \E s1, s2 \in EndSlots(gr) :
    Applicable11(gr, s1, s2) /\ Apply(Merge11(gr, s1, s2))

MergeLeafWithBulk ==
  \E s1 \in EndSlots(gr), s2 \in BulkSlots(gr), k \in Keeps :
    Applicable12(gr, s1, s2) /\ Apply(KeepMerge12(gr, s1, s2, k))

MergeLeafWithCycleBoundary ==
  \E s1 \in EndSlots(gr), w2 \in UnconnectedCycles(gr), k \in Keeps :
    Applicable12Cycle(gr, s1, w2) /\ Apply(KeepMerge12Cycle(gr, s1, w2, k))

MergeLeafWithJunction ==
  \E s1, s2 \in EndSlots(gr) :
    Applicable13(gr, s1, s2) /\ Apply(Merge13(gr, s1, s2))

MergeBulks ==
  \E b1, b2 \in BulkSlots(gr), k \in Keeps :
    Applicable22(gr, b1, b2) /\ Apply(KeepMerge22(gr, b1, b2, k))

MergeBulkWithCycleBoundary ==
  \E b1 \in BulkSlots(gr), w2 \in UnconnectedCycles(gr), k \in Keeps :
    Applicable22Boundary(gr, b1, w2) /\ Apply(KeepMerge22Boundary(gr, b1, w2, k))

MergeCycleBoundaries ==
  \E w1, w2 \in UnconnectedCycles(gr) :
    Applicable22Boundaries(w1, w2) /\ Apply(Merge22Boundaries(gr, w1, w2))

(* Vertex splits *)

SplitBulk ==
  \E s \in BulkSlots(gr), k \in Keeps :
    ApplicableTo11(gr, s[1], s[2]) /\ Apply(Split11(gr, s[1], s[2], k))

SplitCycleBoundary ==
  \E w \in DOMAIN gr.cn, k \in Keeps :
    ApplicableTo11Cycle(gr, w) /\ Apply(Split11Cycle(gr, w, k))

SplitOffThreeWay ==
  \E s \in EndSlots(gr), k \in Keeps :
    ApplicableTo12(gr, s) /\ Apply(Split12(gr, s, k))

SplitOffFourWay ==
  \E s \in EndSlots(gr) : ApplicableTo13(gr, s) /\ Apply(Split13(gr, s))

SplitFourWayInPairs ==
  \E s1, s2 \in EndSlots(gr) : ApplicableTo22(gr, s1, s2) /\ Apply(Split22(gr, s1, s2))

(* Components *)

CreateChainComponent ==
  \E len \in 1..MaxEdges :
    gr.ne + len <= MaxEdges /\ gr' = CreateComponent(gr, len)

DeleteWholeComponent == \E c \in DOMAIN gr.ct : gr' = DeleteComponent(gr, c)

(* Edges *)

CreateEdgeInChain ==
  \E w \in DOMAIN gr.cn : \E a \in 0..Length(gr, w) :
    gr.ne < MaxEdges /\ Apply(CreateInChain(gr, w, a))

CreateEdgeAtBulk ==
  \E s \in BulkSlots(gr) : gr.ne < MaxEdges /\ Apply(CreateAtBulk(gr, s))

CreateEdgeAtCycleBoundary ==
  \E w \in UnconnectedCycles(gr) : gr.ne < MaxEdges /\ Apply(CreateAtBoundary(gr, w))

CreateEdgeAtJunction ==
  \E s \in EndSlots(gr) :
    gr.ne < MaxEdges /\ ApplicableAtJunction(gr, s) /\ Apply(CreateAtJunction(gr, s))

SplitAnEdge == \E h \in DOMAIN gr.eg : gr.ne < MaxEdges /\ Apply(SplitEdge(gr, h))

DeleteAnEdge ==
  \E h \in DOMAIN gr.eg : ApplicableDelete(gr, h) /\ Apply(DeleteEdge(gr, h))

\* The functor that keeps the host chain, called directly: it also takes an edge
\* at the boundary of a cycle.
DeleteAnEdgeOfMany ==
  \E h \in DOMAIN gr.eg : ApplicablePreserving(gr, h) /\ Apply(DeletePreserving(gr, h))

MergeTwoEdges ==
  \E h1, h2 \in DOMAIN gr.eg :
    ApplicableMerger(gr, h1, h2) /\ Apply(MergeEdges(gr, h1, h2))

Mergers ==
  \/ MergeLeaves \/ MergeLeafWithBulk
  \/ MergeLeafWithCycleBoundary \/ MergeLeafWithJunction
  \/ MergeBulks \/ MergeBulkWithCycleBoundary \/ MergeCycleBoundaries

Splits ==
  \/ SplitBulk \/ SplitCycleBoundary
  \/ SplitOffThreeWay \/ SplitOffFourWay \/ SplitFourWayInPairs

EdgeChanges ==
  \/ CreateEdgeInChain \/ CreateEdgeAtBulk
  \/ CreateEdgeAtCycleBoundary \/ CreateEdgeAtJunction
  \/ SplitAnEdge \/ DeleteAnEdge \/ DeleteAnEdgeOfMany \/ MergeTwoEdges

Next ==
  Mergers \/ Splits \/ EdgeChanges \/ CreateChainComponent \/ DeleteWholeComponent

Spec == Init /\ [][Next]_gr

-----------------------------------------------------------------------------
(* The view that forgets how identities of edges and vertices are chosen:  *)
(* an edge is known by its index, a vertex by the ends it holds.           *)

View ==
  LET name(h) == gr.eg[h].ind
      ends(v) == [d \in {<<name(x[1]), x[2]>> : x \in DOMAIN gr.vx[v].eds} |->
                    gr.vx[v].eds[CHOOSE x \in DOMAIN gr.vx[v].eds :
                                    name(x[1]) = d[1] /\ x[2] = d[2]]]
  IN  << gr.ok, gr.ne,
         [w \in DOMAIN gr.cn |->
            [gr.cn[w] EXCEPT !.g = [a \in DOMAIN @ |-> name(@[a])]]],
         [c \in DOMAIN gr.ct |-> [gr.ct[c] EXCEPT !.vv = {ends(v) : v \in @}]],
         [i \in DOMAIN gr.egl |-> [gr.egl[i] EXCEPT !.h = name(@)]],
         {[gr.eg[h] EXCEPT !.vv = 0] : h \in DOMAIN gr.eg},
         {<<ends(v), gr.vx[v].c>> : v \in DOMAIN gr.vx} >>
-----------------------------------------------------------------------------
(* Invariants *)

EdgesIn(w) == ToSet(gr.cn[w].g)
Ends == (DOMAIN gr.eg) \X End
VertexOf(d) == gr.eg[d[1]].vv[d[2]]
EndsAt(v) == {d \in Ends : VertexOf(d) = v}

\* The type of the graph record: every index and reference points at something, and
\* no identity is given twice.
TypeOK ==
  LET W == DOMAIN gr.cn
      C == DOMAIN gr.ct
      H == DOMAIN gr.eg
      V == DOMAIN gr.vx
  IN  /\ gr.cn \in Seq([g : Seq(H) \ {<<>>},
                        ngs : [A : SUBSET EndSlots(gr), B : SUBSET EndSlots(gr)],
                        idw : W, idc : W, c : C])
      /\ gr.ct \in Seq([ind : C, ww : Seq(W), vv : SUBSET V,
                        chis : SUBSET [lo : 1..maxDegree, hi : 1..maxDegree,
                                       w : W, e : End \cup {"both"}],
                        egl : Seq([w : W, a : 1..gr.ne, i : 1..gr.ne])])
      /\ gr.eg \in [H -> [ind : 1..gr.ne, indc : 1..gr.ne, indw : 1..gr.ne,
                          w : W, c : C, fwd : BOOLEAN, vv : [A : V, B : V]]]
      /\ \A v \in V : gr.vx[v] \in [c : C, eds : [DOMAIN gr.vx[v].eds -> 1..gr.ne]]
      /\ gr.egl \in [1..gr.ne -> [w : W, a : 1..gr.ne, h : H]]
      /\ gr.ne = Cardinality(H)
      /\ gr.nextH \in Nat /\ H \subseteq 1..gr.nextH - 1
      /\ gr.nextV \in Nat /\ V \subseteq 1..gr.nextV - 1
      /\ gr.ok \in BOOLEAN

\* The three numberings of an edge (in the graph, in its component, in its
\* chain) are dense, and the lists that map them back lead to that edge.
\* Every removal renumbers by moving the last element into the gap.
EdgeIndexesAgree ==
  /\ \A h \in DOMAIN gr.eg :
       LET o == gr.eg[h]
       IN  /\ gr.egl[o.ind] = [w |-> o.w, a |-> o.indw, h |-> h]
           /\ o.indw \in DOMAIN gr.cn[o.w].g /\ gr.cn[o.w].g[o.indw] = h
           /\ o.indc \in DOMAIN gr.ct[o.c].egl /\ gr.ct[o.c].egl[o.indc] = EdgeDescr(gr, h)
           /\ o.c = gr.cn[o.w].c
  /\ \A w \in DOMAIN gr.cn : \A a \in DOMAIN gr.cn[w].g :
       LET o == gr.eg[gr.cn[w].g[a]] IN o.w = w /\ o.indw = a
  /\ \A c \in DOMAIN gr.ct :
       NumEdges(gr, c) = Cardinality({h \in DOMAIN gr.eg : gr.eg[h].c = c})

\* Chains and components know their own indexes, a component lists exactly
\* its chains, and these are numbered densely within it.
ChainIndexesAgree ==
  /\ \A c \in DOMAIN gr.ct :
       /\ gr.ct[c].ind = c
       /\ ToSet(gr.ct[c].ww) = {w \in DOMAIN gr.cn : gr.cn[w].c = c}
       /\ {gr.cn[w].idc : w \in ToSet(gr.ct[c].ww)} = DOMAIN gr.ct[c].ww
  /\ \A w \in DOMAIN gr.cn : gr.cn[w].idw = w

\* No edge is a loop and no vertex exceeds the maximal degree, whatever
\* sequence of transformations their applicability checks let through.
LoopFree ==
  /\ \A h \in DOMAIN gr.eg : gr.eg[h].vv["A"] # gr.eg[h].vv["B"]
  /\ \A v \in DOMAIN gr.vx : Cardinality(EndsAt(v)) <= maxDegree

\* An edge refers to a vertex at an end exactly when the vertex has the
\* descriptor of that end, with the edge's current component index: stored
\* indexes follow every renumbering.  Vertices live in their edges' component, and
\* the few descriptors each holds are of different edges.
DescriptorsAgree ==
  /\ LoopFree
  /\ \A v \in DOMAIN gr.vx :
       /\ gr.vx[v].eds = [d \in EndsAt(v) |-> gr.eg[d[1]].indc]
       /\ EndsAt(v) # {}
       /\ \A d \in EndsAt(v) : gr.eg[d[1]].c = gr.vx[v].c
  /\ \A c \in DOMAIN gr.ct : gr.ct[c].vv = {v \in DOMAIN gr.vx : gr.vx[v].c = c}

\* Two chain ends list each other as neighbours exactly when they end at the
\* same vertex: the links kept in chains and the vertices kept in edges are
\* two records of one topology, edited by separate code.
NeighboursShareVertex ==
  \A s, t \in EndSlots(gr) :
    t \in Ngs(gr, s) <=> s # t /\ VertexAtEnd(gr, s) = VertexAtEnd(gr, t)

\* Consecutive edges of a chain meet at a vertex of degree 2, and a chain ends
\* only at a leaf, at a junction, or where it closes on itself: no
\* transformation leaves a chain that should have been joined or cut.
ChainsAreMaximal ==
  /\ \A s \in BulkSlots(gr) :
       LET g == gr.cn[s[1]].g
       IN  /\ VertexAtOuter(gr, g[s[2]], "B") = VertexAtBulk(gr, s[1], s[2])
           /\ Cardinality(EndsAt(VertexAtBulk(gr, s[1], s[2]))) = 2
  /\ \A s \in EndSlots(gr) :
       Cardinality(EndsAt(VertexAtEnd(gr, s))) = 2 => IsUnconnectedCycle(gr, s[1])

\* The components are the connected components: chains are in the same one
\* exactly when a path of shared vertices leads from one to the other.
ComponentsAreConnected ==
  \A w, u \in DOMAIN gr.cn :
    gr.cn[w].c = gr.cn[u].c <=>
      LET V(m) == {gr.eg[h].vv[e] : h \in EdgesIn(m), e \in End}
          Grow(S) == {x \in DOMAIN gr.cn : \E y \in S : V(x) \cap V(y) # {}}
          reach[n \in 0..Len(gr.cn)] == IF n = 0 THEN {w} ELSE Grow(reach[n - 1])
      IN  u \in reach[Len(gr.cn)]

\* The classification of chains by end degrees, edited in place by some
\* transformations and rebuilt by others, is always the one a rebuild gives.
ChainClassesCurrent ==
  \A c \in DOMAIN gr.ct : gr.ct[c].chis = SetChis(gr, c).ct[c].chis

\* Counting the vertices of a degree over the chains, where a junction is
\* met once for every end at it, gives the number there are.
VertexCountsAgree ==
  \A d \in 1..maxDegree :
    NumVertices(gr, d) = Cardinality({v \in DOMAIN gr.vx : Cardinality(EndsAt(v)) = d})

\* Whatever a call has added, removed or renumbered, every index leads back to
\* what it counts, and what is stored of chains and vertices is what a rebuild
\* would give.
RecordsAgree ==
  EdgeIndexesAgree /\ ChainIndexesAgree /\ ChainClassesCurrent /\ VertexCountsAgree

\* The checks the structure makes on itself never fail: a slot to be replaced
\* or erased is found, an end to be connected is free, a vertex to be removed
\* is disconnected, the last edge is where the edge list says.
ChecksHold == gr.ok

\* A merger results in the vertex that its plan, made beforehand, promises to
\* preserve, or in the one asked for; a split asked to keep its vertex gives
\* it the place asked for.
Outcome(r, v) == r.v = v /\ v \in DOMAIN r.g.vx
Kept(r, k, v) == k # "any" => r.res[IF k = "first" THEN 1 ELSE 2] = v
PlansAreKept ==
  LET S == EndSlots(gr)
      B == BulkSlots(gr)
      Y == UnconnectedCycles(gr)
      asked(k, p, v1, v2) == CASE k = "any" -> p [] k = "first" -> v1 [] OTHER -> v2
      V(s) == VertexAtEnd(gr, s)
      VB(b) == VertexAtBulk(gr, b[1], b[2])
      VY(w) == VertexAtEnd(gr, <<w, "A">>)
  IN  /\ \A s1, s2 \in S :
           /\ Applicable11(gr, s1, s2) => Outcome(Merge11(gr, s1, s2), Plan11(gr, s1, s2))
           /\ Applicable13(gr, s1, s2) => Outcome(Merge13(gr, s1, s2), Plan13(gr, s2))
      /\ \A s1 \in S, b2 \in B, k \in Keeps :
           Applicable12(gr, s1, b2) =>
             Outcome(KeepMerge12(gr, s1, b2, k), asked(k, Plan12(gr, b2), V(s1), VB(b2)))
      /\ \A s1 \in S, w2 \in Y, k \in Keeps :
           Applicable12Cycle(gr, s1, w2) =>
             Outcome(KeepMerge12Cycle(gr, s1, w2, k),
                     asked(k, Plan12Cycle(gr, w2), V(s1), VY(w2)))
      /\ \A b1, b2 \in B, k \in Keeps :
           Applicable22(gr, b1, b2) =>
             Outcome(KeepMerge22(gr, b1, b2, k),
                     asked(k, Plan22(gr, b1, b2), VB(b1), VB(b2)))
      /\ \A b1 \in B, w2 \in Y, k \in Keeps :
           Applicable22Boundary(gr, b1, w2) =>
             Outcome(KeepMerge22Boundary(gr, b1, w2, k),
                     asked(k, Plan22Boundary(gr, b1), VB(b1), VY(w2)))
      /\ \A w1, w2 \in Y :
           Applicable22Boundaries(w1, w2) =>
             Outcome(Merge22Boundaries(gr, w1, w2), Plan22Boundaries(gr, w2))
      /\ \A b \in B, k \in Keeps : Kept(Split11(gr, b[1], b[2], k), k, VB(b))
      /\ \A w \in Y, k \in Keeps : Kept(Split11Cycle(gr, w, k), k, VY(w))
      /\ \A s \in S, k \in Keeps :
           ApplicableTo12(gr, s) => Kept(Split12(gr, s, k), k, V(s))

-----------------------------------------------------------------------------
(* Mergers and splits are inverse to each other                            *)

\* The topology: the sets of edge ends that meet.
Meetings(g) == {DOMAIN g.vx[v].eds : v \in DOMAIN g.vx}

\* Some merger, or some split, that the checks accept leads from g to M.
CanMergeInto(g, M) ==
  LET To(r) == Meetings(r.g) = M
  IN  \/ \E s1, s2 \in EndSlots(g) :
           \/ Applicable11(g, s1, s2) /\ To(Merge11(g, s1, s2))
           \/ Applicable13(g, s1, s2) /\ To(Merge13(g, s1, s2))
      \/ \E s1 \in EndSlots(g) :
           \/ \E s2 \in BulkSlots(g) : Applicable12(g, s1, s2) /\ To(Merge12(g, s1, s2))
           \/ \E w2 \in UnconnectedCycles(g) :
                Applicable12Cycle(g, s1, w2) /\ To(Merge12Cycle(g, s1, w2))
      \/ \E b1 \in BulkSlots(g) :
           \/ \E b2 \in BulkSlots(g) : Applicable22(g, b1, b2) /\ To(Merge22(g, b1, b2))
           \/ \E w2 \in UnconnectedCycles(g) :
                Applicable22Boundary(g, b1, w2) /\ To(Merge22Boundary(g, b1, w2))
      \/ \E w1, w2 \in UnconnectedCycles(g) :
           Applicable22Boundaries(w1, w2) /\ To(Merge22Boundaries(g, w1, w2))
CanSplitInto(g, M) ==
  LET To(r) == Meetings(r.g) = M
  IN  \/ \E b \in BulkSlots(g) : To(Split11(g, b[1], b[2], "any"))
      \/ \E w \in UnconnectedCycles(g) : To(Split11Cycle(g, w, "any"))
      \/ \E s \in EndSlots(g) :
           \/ ApplicableTo12(g, s) /\ To(Split12(g, s, "any"))
           \/ ApplicableTo13(g, s) /\ To(Split13(g, s))
           \/ \E s2 \in EndSlots(g) : ApplicableTo22(g, s, s2) /\ To(Split22(g, s, s2))

VerticesGained == Cardinality(DOMAIN gr'.vx) - Cardinality(DOMAIN gr.vx)

\* Whatever a merger has joined, one accepted split takes apart again, so that
\* the same edge ends meet as before: no merger leads to a vertex that the
\* splits cannot divide along the line where it was joined.
MergersCanBeUndone ==
  [][gr'.ne = gr.ne /\ VerticesGained < 0 => CanSplitInto(gr', Meetings(gr))]_gr

\* Whatever a split has divided, one accepted merger joins again: the length
\* checks of the mergers never refuse to restore a graph that was there.
SplitsCanBeUndone ==
  [][gr'.ne = gr.ne /\ VerticesGained > 0 => CanMergeInto(gr', Meetings(gr))]_gr

-----------------------------------------------------------------------------
(* Plans and reversal of the edge transformations                          *)

NoEdge == 0

\* The vertices as the sets of edges they join, edge p under the name n.
Joints(g, p, n) ==
  {{IF d[1] = p THEN n ELSE d[1] : d \in DOMAIN g.vx[v].eds} : v \in DOMAIN g.vx}

\* Vertex v has lost edge h and gained the new one, whose other end is at a new
\* vertex with the edges S.
CreatedAt(r, v, h, S) ==
  LET at(u) == {d[1] : d \in DOMAIN r.g.vx[u].eds}
      new == DOMAIN r.g.vx \ DOMAIN gr.vx
  IN  /\ at(v) = ({d[1] : d \in EndsAt(v)} \ {h}) \cup {r.h}
      /\ {at(u) : u \in new} = {S \cup {r.h}} /\ Cardinality(new) = 1

\* Inside a chain the new edge takes the place of the edge that is to move, which
\* goes to the new vertex; a new chain ends in a leaf.
CreationPlansAreKept ==
  /\ \A w \in DOMAIN gr.cn : \A a \in 0..Length(gr, w) :
       LET plan == PlanInChain(gr, w, a)
       IN  CreatedAt(CreateInChain(gr, w, a), plan.v, plan.moved, {plan.moved})
  /\ \A s \in BulkSlots(gr) :
       CreatedAt(CreateAtBulk(gr, s), VertexAtBulk(gr, s[1], s[2]), NoEdge, {})
  /\ \A w \in UnconnectedCycles(gr) :
       CreatedAt(CreateAtBoundary(gr, w), VertexAtEnd(gr, <<w, "A">>), NoEdge, {})
  /\ \A s \in EndSlots(gr) :
       ApplicableAtJunction(gr, s) =>
         CreatedAt(CreateAtJunction(gr, s), VertexAtEnd(gr, s), NoEdge, {})

\* A deletion leaves the vertex of its plan where the edge was, and removes the
\* other; the edge of the last index has the index of the deleted one.
DeletionPlanKept(r, h) ==
  LET plan == PlanDelete(gr, h)
      last == EdgeAt(gr, gr.ne)
  IN  /\ r.v = plan.preserved /\ r.v \in DOMAIN r.g.vx
      /\ DOMAIN r.g.vx = DOMAIN gr.vx \ {plan.removed}
      /\ last # h => r.g.eg[last].ind = gr.eg[h].ind

\* The plans made before edges are created, deleted or merged (plan of the functors
\* in edge_creation, edge_deletion, edge_merger) come true, whatever is renumbered,
\* split and merged on the way.
EdgePlansAreKept ==
  /\ CreationPlansAreKept
  /\ \A h \in DOMAIN gr.eg :
       ApplicableDelete(gr, h) \/ ApplicablePreserving(gr, h) =>
         DeletionPlanKept(DeleteEdge(gr, h), h)
  /\ \A h1, h2 \in DOMAIN gr.eg :
       ApplicableMerger(gr, h1, h2) => MergeEdges(gr, h1, h2).h = KeptEdge(gr, h1, h2)

\* Splitting an edge (edge_split) is undone by merging the two halves in one of the two
\* orders (edge_merger), even where one of the halves may not be deleted.
EdgeSplitsCanBeUndone ==
  \A h \in DOMAIN gr.eg :
    LET r == SplitEdge(gr, h)
        Undone(p, q) ==
          /\ ApplicableMerger(r.g, p, q)
          /\ Joints(MergeEdges(r.g, p, q).g, KeptEdge(r.g, p, q), h) = Joints(gr, h, h)
    IN  Undone(h, r.h) \/ Undone(r.h, h)

-----------------------------------------------------------------------------
(* What the documentation says and the code does not *)

\* edge_merger/functor.h:142 says of ind1 that it will be merged into ind2 and
\* disappear if ind2 has other edges besides it, and ind2 if it does not.
FirstEdgeDisappearsIfSecondHasOthers ==
  \A h1, h2 \in DOMAIN gr.eg :
    ApplicableMerger(gr, h1, h2) =>
      LET gone == IF Length(gr, gr.eg[h2].w) > 1 THEN h1 ELSE h2
      IN  gone \notin DOMAIN MergeEdges(gr, h1, h2).g.eg

\* chain.h:460 says of is_unconnected_linear that it checks if the chain has
\* its both ends unconnected.
UnconnectedLinearHasFreeEnds ==
  \A w \in DOMAIN gr.cn :
    IsUnconnectedLinear(gr, w) => \A e \in End : ~IsConnectedAt(gr, <<w, e>>)

\* graph.h:163 says of generate_single_chain_components that its parameter num
\* is the desired number of components.
GeneratesAsManyAsDesired ==
  \A num \in 1..2 :
    Len(GenerateSingleChainComponents(gr, num, 1).ct) = Len(gr.ct) + num

-----------------------------------------------------------------------------
(* Refinement: a transformation has the effect on the multigraph that it is *)
(* named for and no other, whatever renumbering and reversing it does.      *)

Abstract == INSTANCE Multigraph WITH
  Edge <- Nat, Vertex <- Nat, MaxDegree <- maxDegree,
  at <- [v \in DOMAIN gr.vx |-> DOMAIN gr.vx[v].eds]

MultigraphSpec == Abstract!Spec
=============================================================================
