---------------------------- MODULE VertexMerger ----------------------------
(***************************************************************************)
(* transforms/vertex_merger: joining two vertices.  For each combination   *)
(* of degrees there is what the transformation accepts (Applicable), the   *)
(* vertex its plan says is preserved (Plan) and what it does (Merge).      *)
(* Merge returns [g |-> the graph, v |-> the vertex holding the ends of    *)
(* both].  End slots are <<chain, end>>.                                   *)
(***************************************************************************)
EXTENDS GraphStructure

FreeEnd(g, s) == Length(g, s[1]) > 0 /\ ~IsConnectedAt(g, s)
BulkSlots(g) ==
  UNION {{<<w, a>> : a \in 1..Length(g, w) - 1} : w \in DOMAIN g.cn}
UnconnectedCycles(g) == {w \in DOMAIN g.cn : IsUnconnectedCycle(g, w)}

\* The last step: edge h, freed at e before, joins the vertex at slot s.
ConnectToVertexAt(g, h, e, s) ==
  LET v == VertexAtEnd(g, s) IN [g |-> ConnectOuter(g, h, e, v), v |-> v]
Updated(r) == [r EXCEPT !.g = Update(@)]

-----------------------------------------------------------------------------
(* core.h: two free ends become the inside of one chain, or close a cycle  *)

MergeOrClassify(g, c1, c2) ==
  IF c1 = c2 THEN SetChis(g, c1) ELSE MergeComponents(g, c1, c2)

\* The components of the two chains, which are one chain in c1 now, become
\* one; edge h1 is connected at e to the surviving vertex v.
JoinAndConnect(g, w1, w2, c1, c2, h1, e, v) ==
  LET joined == MergeOrClassify(ReleaseChain(g, w2), c1, c2)
  IN  [g |-> ConnectOuter(UpdateFor(joined, {w1, w2}), h1, e, v), v |-> v]

\* The edges of w2 go to the back or to the front of those of w1.
SpliceBack(g, w1, w2) ==
  SetGW([g EXCEPT !.cn[w1].g = @ \o g.cn[w2].g, !.cn[w2].g = <<>>], w1, w1)
SpliceFront(g, w1, w2) ==
  SetGW([g EXCEPT !.cn[w1].g = g.cn[w2].g \o @, !.cn[w2].g = <<>>], w1, w1)

Antiparallel(g, e, w1, w2) ==
  LET c1 == g.cn[w1].c
      c2 == g.cn[w2].c
      h1 == EndEdge(g, <<w1, e>>)
      turned == IF e = "A" THEN w1 ELSE w2
      freed == RemoveConnectedToOuter(g, c1, h1, e)
      ready == ReverseG(
                 CopyNeigs(
                   IF e = "A" THEN CopyNeigs(freed, <<w1, "B">>, <<w1, "A">>) ELSE freed,
                   <<w2, Opp(e)>>, <<w1, "B">>),
                 turned)
  IN  JoinAndConnect(
        RemoveChain(SetEgl(SetEdges(SpliceBack(ready, w1, w2), c1), c1), c2, w2),
        w1, w2, c1, c2, h1, "B", VertexAtEnd(g, <<w2, e>>))

Parallel(g, w1, w2) ==
  LET c1 == g.cn[w1].c
      c2 == g.cn[w2].c
      h1 == EndEdge(g, <<w1, "A">>)
      freed == CopyNeigs(RemoveConnectedToOuter(g, c1, h1, "A"), <<w2, "A">>, <<w1, "A">>)
  IN  JoinAndConnect(
        SetEgl(SetEdges(SpliceFront(RemoveChain(freed, c2, w2), w1, w2), c1), c1),
        w1, w2, c1, c2, h1, "A", VertexAtEnd(g, <<w2, "B">>))

ToLinear(g, s1, s2) ==
  IF s1[2] = s2[2] THEN Antiparallel(g, s1[2], s1[1], s2[1])
  ELSE LET first == IF s1[2] = "A" THEN s1 ELSE s2
           second == IF s1[2] = "A" THEN s2 ELSE s1
       IN  Parallel(g, first[1], second[1])

\* Faulty: the vertex at end B is not removed before the end is connected.
ToCycleEndNotFreed(g, w) ==
  LET g1 == SetChis(ConnectSlots(g, <<w, "A">>, <<w, "B">>), g.cn[w].c)
      v == VertexAtEnd(g, <<w, "A">>)
  IN  [g |-> UpdateFor(ConnectOuter(g1, EndEdge(g, <<w, "B">>), "B", v), {w}), v |-> v]

ToCycle(g, w) ==
  LET c == g.cn[w].c
      h == EndEdge(g, <<w, "B">>)
      v == VertexAtEnd(g, <<w, "A">>)
      linked == [ConnectSlots(g, <<w, "A">>, <<w, "B">>) EXCEPT
                   !.ct[c].chis = {x \in @ : ~(x.lo = 1 /\ x.hi = 1)}
                     \cup {[lo |-> 2, hi |-> 2, w |-> w, e |-> "both"]}]
      closed == ConnectOuter(RemoveConnectedToOuter(linked, c, h, "B"), h, "B", v)
  IN  [g |-> UpdateFor(closed, {w}), v |-> v]

-----------------------------------------------------------------------------
(* from_11.h: two leaf vertices *)

\* Faulty: a cycle of one edge is let through.
Applicable11AnyLength(g, s1, s2) == s1 # s2 /\ FreeEnd(g, s1) /\ FreeEnd(g, s2)

Applicable11(g, s1, s2) ==
  /\ s1 # s2
  /\ FreeEnd(g, s1) /\ FreeEnd(g, s2)
  /\ s1[1] = s2[1] => Length(g, s1[1]) >= minCycleLength

Plan11(g, s1, s2) ==
  LET first == IF s1[1] = s2[1] THEN s1[2] = "A"
               ELSE s1[2] = "B" /\ s2[2] = "A"
  IN  VertexAtEnd(g, IF first THEN s1 ELSE s2)

Merge11(g, s1, s2) ==
  IF s1[1] = s2[1] THEN ToCycle(g, s1[1]) ELSE ToLinear(g, s1, s2)

-----------------------------------------------------------------------------
(* from_12.h: a leaf and a bulk vertex, the latter inside a chain or the   *)
(* boundary of an unconnected cycle                                        *)

\* Faulty: a loop of the least length is turned away.
Applicable12LongerLoop(g, s1, s2) ==
  /\ FreeEnd(g, s1)
  /\ s2 \in BulkSlots(g)
  /\ s1[1] = s2[1] =>
       minCycleLength < IF s1[2] = "A" THEN s2[2] ELSE Length(g, s2[1]) - s2[2]

Applicable12(g, s1, s2) ==
  /\ FreeEnd(g, s1)
  /\ s2 \in BulkSlots(g)
  /\ s1[1] = s2[1] =>
       minCycleLength <= IF s1[2] = "A" THEN s2[2] ELSE Length(g, s2[1]) - s2[2]

Applicable12Cycle(g, s1, w2) == FreeEnd(g, s1) /\ w2 \in UnconnectedCycles(g)

Plan12(g, s2) == VertexAtBulk(g, s2[1], s2[2])
Plan12Cycle(g, w2) == VertexAtEnd(g, <<w2, "A">>)

LinkToCycle(g, s1, w2) ==
  LET A == <<w2, "A">>
      B == <<w2, "B">>
  IN  SetNgs(SetNgs(SetNgs(g, s1, {A, B}), A, {B, s1}), B, {A, s1})

\* Faulty: the components of the chain and of the cycle are not merged.
Merge12CycleKeepingComponents(g, s1, w2) ==
  LET h1 == EndEdge(g, s1)
      linked == LinkToCycle(RemoveConnectedToOuter(g, g.cn[s1[1]].c, h1, s1[2]), s1, w2)
  IN  Updated(ConnectToVertexAt(linked, h1, s1[2], <<w2, "A">>))

Merge12Cycle(g, s1, w2) ==
  LET c1 == g.cn[s1[1]].c
      h1 == EndEdge(g, s1)
      linked == LinkToCycle(RemoveConnectedToOuter(g, c1, h1, s1[2]), s1, w2)
  IN  Updated(ConnectToVertexAt(Update(MergeComponents(linked, c1, g.cn[w2].c)),
                                h1, s1[2], <<w2, "A">>))

\* Branches 1 and 2: the leaf is an end of the same chain.  The part of the
\* chain beyond the bulk vertex moves to the new chain m.
LoopOnSameChain(g, s1, a) ==
  LET w == s1[1]
      e == s1[2]
      o == Opp(e)
      c == g.cn[w].c
      h1 == EndEdge(g, s1)
      m == Len(g.cn) + 1
      freed == RemoveConnectedToOuter(CreateChain(g, c), c, h1, e)
      cut == IF e = "A" THEN MoveEdges(freed, w, a, Length(g, w), m)
                        ELSE MoveEdges(freed, w, 0, a, m)
      tail == CopyNeigs(SetNgs(cut, <<m, e>>, {<<w, "A">>, <<w, "B">>}),
                        <<w, o>>, <<m, o>>)
      looped == [tail EXCEPT !.cn[w].ngs = [A |-> {<<w, "B">>, <<m, e>>},
                                            B |-> {<<w, "A">>, <<m, e>>}]]
      r == ConnectToVertexAt(looped, h1, e, <<m, e>>)
  IN  [r EXCEPT !.g = SetChis(@, c)]

MergeAndReindex(g, c1, c2) ==
  LET c == MergedCmpt(g, c1, c2)
  IN  SetEgl(SetChains(MergeComponents(g, c1, c2), c), c)

\* Branch 3: the bulk vertex is inside another chain, which is cut there.
BranchOffOtherChain(g, s1, w2, a) ==
  LET c1 == g.cn[s1[1]].c
      c2 == g.cn[w2].c
      h1 == EndEdge(g, s1)
      m == Len(g.cn) + 1
      w2B == <<w2, "B">>
      mA == <<m, "A">>
      freed == RemoveConnectedToOuter(CreateChain(g, c2), c1, h1, s1[2])
      cut == CopyNeigs(SetNgs(MoveEdges(freed, w2, a, Length(g, w2), m), mA, {s1, w2B}),
                       w2B, <<m, "B">>)
      linked == SetChis(SetNgs(SetNgs(cut, s1, {w2B, mA}), w2B, {s1, mA}), c2)
  IN  ConnectToVertexAt(IF c1 = c2 THEN linked ELSE MergeAndReindex(linked, c1, c2),
                        h1, s1[2], mA)

Merge12(g, s1, s2) ==
  LET w2 == s2[1]
      a == s2[2]
  IN  IF IsUnconnectedCycle(g, w2)
      THEN Merge12Cycle(RotateChain(g, w2, a), s1, w2)
      ELSE Updated(IF s1[1] = w2 THEN LoopOnSameChain(g, s1, a)
                                 ELSE BranchOffOtherChain(g, s1, w2, a))

-----------------------------------------------------------------------------
(* from_13.h: a leaf and a vertex of degree 3 *)

Applicable13(g, s1, s2) ==
  /\ FreeEnd(g, s1)
  /\ Cardinality(Ngs(g, s2)) = 2
  /\ OppSlot(s1) \in Ngs(g, s2) \cup {s2} => Length(g, s1[1]) >= minCycleLength

Plan13(g, s2) == VertexAtEnd(g, s2)

Merge13(g, s1, s2) ==
  LET c1 == g.cn[s1[1]].c
      c2 == g.cn[s2[1]].c
      h1 == EndEdge(g, s1)
      joined == Ngs(g, s2) \cup {s2}
      N(s) == CASE s = s1 -> joined
                [] s # s1 /\ s \in joined -> Ngs(g, s) \cup {s1}
                [] OTHER -> Ngs(g, s)
      linked == SetAllNgs(RemoveConnectedToOuter(g, c1, h1, s1[2]), N)
  IN  Updated(ConnectToVertexAt(IF c1 = c2 THEN SetChis(linked, c1)
                                ELSE MergeAndReindex(linked, c1, c2),
                                h1, s1[2], s2))

-----------------------------------------------------------------------------
(* from_22.h: two bulk vertices, each inside a chain or the boundary of an *)
(* unconnected cycle                                                       *)

\* A loop left between the two vertices must not be too short.
CheckLoops(g, w, d) ==
  minCycleLength <= IF IsUnconnectedCycle(g, w) THEN Min({d, Length(g, w) - d}) ELSE d

Applicable22(g, b1, b2) ==
  /\ b1 # b2
  /\ b1[1] = b2[1] => CheckLoops(g, b1[1], Max({b1[2], b2[2]}) - Min({b1[2], b2[2]}))
Applicable22Boundary(g, b1, w2) == b1[1] = w2 => CheckLoops(g, w2, b1[2])
Applicable22Boundaries(w1, w2) == w1 # w2

\* Faulty: the plan takes no account of a cycle being cut elsewhere.
Plan22AsLinear(g, b1, b2) ==
  IF b1[1] = b2[1] /\ b1[2] < b2[2]
  THEN VertexAtBulk(g, b1[1], b1[2]) ELSE VertexAtBulk(g, b2[1], b2[2])

Plan22(g, b1, b2) ==
  LET cycle1 == IsUnconnectedCycle(g, b1[1])
      first == IF b1[1] = b2[1] THEN (b1[2] < b2[2]) # cycle1 ELSE cycle1
  IN  IF first THEN VertexAtBulk(g, b1[1], b1[2]) ELSE VertexAtBulk(g, b2[1], b2[2])
Plan22Boundary(g, b1) == VertexAtBulk(g, b1[1], b1[2])
Plan22Boundaries(g, w2) == VertexAtEnd(g, <<w2, "A">>)

\* The part of chain w beyond its first a edges becomes the new chain
\* Len(g.cn) + 1 of component c, with the neighbours at the far end.
CutAt(g, c, w, a) ==
  LET n == Len(g.cn) + 1
  IN  CopyNeigs(MoveEdges(CreateChain(g, c), w, a, Length(g, w), n),
                <<w, "B">>, <<n, "B">>)

JoinEnds(g, S) ==
  LET N(s) == IF s \in S THEN S \ {s} ELSE Ngs(g, s)
  IN  SetAllNgs(g, N)

\* The vertex at s is that of p and q too, then the ends S meet there.
Join4(g, s, p, q, S) ==
  LET v == VertexAtEnd(g, s) IN [g |-> JoinEnds(ConnectEnds(g, <<p, q>>, v), S), v |-> v]
ClassifyAround(g, v) == SetChis(g, g.vx[v].c)

Deg4Vertex(g, s, p, q, S) ==
  LET r == Join4(g, s, p, q, S) IN Updated([r EXCEPT !.g = ClassifyAround(@, r.v)])

SameLinearChain(g, w, aS, aL) ==
  LET c == g.cn[w].c
      n == Len(g.cn) + 1
      p == n + 1
      fresh == CreateChain(CreateChain(RemoveBulkVertex(g, c, w, aL), c), c)
      cut == MoveEdges(MoveEdges(fresh, w, aL, Length(g, w), p), w, 0, aS, n)
  IN  Deg4Vertex(CopyNeigs(CopyNeigs(cut, <<w, "A">>, <<n, "A">>), <<w, "B">>, <<p, "B">>),
                 <<w, "A">>, <<w, "B">>, <<p, "A">>,
                 {<<n, "B">>, <<w, "A">>, <<w, "B">>, <<p, "A">>})

TwoLinearChains(g, w1, a1, w2, a2) ==
  LET c1 == g.cn[w1].c
      c2 == g.cn[w2].c
      n1 == Len(g.cn) + 1
      cut == CutAt(CutAt(RemoveBulkVertex(g, c1, w1, a1), c1, w1, a1), c2, w2, a2)
  IN  Deg4Vertex(IF c1 = c2 THEN cut ELSE MergeComponents(cut, c1, c2),
                 <<w2, "B">>, <<w1, "B">>, <<n1, "A">>,
                 {<<w1, "B">>, <<w2, "B">>, <<n1, "A">>, <<n1 + 1, "A">>})

TwoCycles(g, w1, a1, w2, a2) ==
  LET c1 == g.cn[w1].c
      c2 == g.cn[w2].c
      turned == RotateChain(RemoveBulkVertex(RotateChain(g, w1, a1), c2, w2, a2), w2, a2)
  IN  Deg4Vertex(MergeComponents(turned, c1, c2), <<w1, "A">>, <<w2, "A">>, <<w2, "B">>,
                 {w1, w2} \X End)

\* The merged component is that of the first argument c1 or c2, as called.
CycleAndLinear(g, cy, ac, li, al, c1, c2) ==
  LET n == Len(g.cn) + 1
      c == g.cn[li].c
      cut == CutAt(RemoveBulkVertex(RotateChain(g, cy, ac), c, li, al), c, li, al)
  IN  Deg4Vertex(MergeComponents(cut, c1, c2), <<cy, "A">>, <<li, "B">>, <<n, "A">>,
                 {<<cy, "A">>, <<cy, "B">>, <<li, "B">>, <<n, "A">>})

\* Bulk vertex of w1 with the boundary vertex of the unconnected cycle w2.
Merge22Boundary(g, b1, w2) ==
  LET w1 == b1[1]
      a1 == b1[2]
      c1 == g.cn[w1].c
      c2 == g.cn[w2].c
      n == Len(g.cn) + 1
      opened == RemoveCycleBoundary(g, c2)
      w1A == <<w1, "A">>
      w1B == <<w1, "B">>
      nA == <<n, "A">>
  IN  CASE w1 = w2 ->
             Deg4Vertex(MoveEdges(CreateChain(opened, c1), w1, a1, Length(g, w1), n),
                        w1B, w1A, <<n, "B">>, {w1, n} \X End)
        [] w1 # w2 /\ ~IsUnconnectedCycle(g, w1) ->
             Deg4Vertex(MergeComponents(CutAt(opened, c1, w1, a1), c1, c2),
                        w1B, <<w2, "A">>, <<w2, "B">>,
                        {w1B, nA, <<w2, "A">>, <<w2, "B">>})
        [] OTHER ->
             Deg4Vertex(MergeComponents(RotateChain(opened, w1, a1), c1, c2),
                        w1A, <<w2, "A">>, <<w2, "B">>, {w1, w2} \X End)

Merge22Boundaries(g, w1, w2) ==
  LET h1 == EndEdge(g, <<w1, "A">>)
      h2 == EndEdge(g, <<w1, "B">>)
      c1 == g.cn[w1].c
      linked == JoinEnds(RemoveCycleBoundary(g, c1), {w1, w2} \X End)
      r == ConnectToVertexAt(MergeComponents(linked, c1, g.cn[w2].c), h1, "A", <<w2, "B">>)
  IN  Updated([r EXCEPT !.g = ConnectOuter(@, h2, "B", r.v)])

Merge22(g, b1, b2) ==
  LET w1 == b1[1]
      w2 == b2[1]
      aS == Min({b1[2], b2[2]})
      aL == Max({b1[2], b2[2]})
      c1 == g.cn[w1].c
      c2 == g.cn[w2].c
      cycle1 == IsUnconnectedCycle(g, w1)
      cycle2 == IsUnconnectedCycle(g, w2)
  IN  CASE w1 = w2 /\ cycle1 ->
             Merge22Boundary(RotateChain(g, w1, aS), <<w1, aL - aS>>, w1)
        [] w1 = w2 /\ ~cycle1 -> SameLinearChain(g, w1, aS, aL)
        [] w1 # w2 /\ ~cycle1 /\ ~cycle2 -> TwoLinearChains(g, w1, b1[2], w2, b2[2])
        [] w1 # w2 /\ cycle1 /\ cycle2 -> TwoCycles(g, w1, b1[2], w2, b2[2])
        [] w1 # w2 /\ cycle1 /\ ~cycle2 ->
             CycleAndLinear(g, w1, b1[2], w2, b2[2], c1, c2)
        [] OTHER -> CycleAndLinear(g, w2, b2[2], w1, b1[2], c1, c2)

\* Keep: of the vertices v1 and v2 to be merged the one asked for is to stay;
\* they are exchanged when the merger planned with result p would remove it.
Keeping(g, p, v1, v2, keep) ==
  IF keep = "any" \/ p = (IF keep = "first" THEN v1 ELSE v2)
  THEN g ELSE ExchangeVertices(g, v1, v2)

KeepMerge12(g, s1, s2, k) ==
  Merge12(Keeping(g, Plan12(g, s2), VertexAtEnd(g, s1), Plan12(g, s2), k), s1, s2)
KeepMerge12Cycle(g, s1, w2, k) ==
  Merge12Cycle(Keeping(g, Plan12Cycle(g, w2), VertexAtEnd(g, s1),
                       Plan12Cycle(g, w2), k), s1, w2)
KeepMerge22(g, b1, b2, k) ==
  Merge22(Keeping(g, Plan22(g, b1, b2), VertexAtBulk(g, b1[1], b1[2]),
                  VertexAtBulk(g, b2[1], b2[2]), k), b1, b2)
KeepMerge22Boundary(g, b1, w2, k) ==
  Merge22Boundary(Keeping(g, Plan22Boundary(g, b1), Plan22Boundary(g, b1),
                          VertexAtEnd(g, <<w2, "A">>), k), b1, w2)
=============================================================================
