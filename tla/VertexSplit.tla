---------------------------- MODULE VertexSplit ----------------------------
(***************************************************************************)
(* transforms/vertex_split: dividing a vertex in two.  Split returns       *)
(* [g |-> the graph, res |-> <<first, second vertex of the result>>].      *)
(***************************************************************************)
EXTENDS VertexMerger

\* ngs.as_vector(): the neighbours of s in the order of the set, by chain
\* index, end A before end B.
NgsInOrder(g, s) ==
  SetToSortSeq(Ngs(g, s), LAMBDA x, y :
     x[1] < y[1] \/ (x[1] = y[1] /\ x[2] = "A" /\ y[2] = "B"))

\* classify_chains_by_connectivity: the chains of c out of reach from s.
Blocked(g, c, s) == {w \in ToSet(g.ct[c].ww) : <<w, "A">> \notin Accessible(g, s)}

\* Slots s and t of component c have come apart.  If another path connects
\* them it stays one; otherwise the chains leave it that s cannot reach, or
\* the chains W when it is known that there is no other path.
Separate(g, c, s, t, noOtherPath, W) ==
  IF ~noOtherPath /\ AreConnected(g, s, t) THEN SetChis(SetEgl(g, c), c)
  ELSE SplitComponent(g, c, IF noOtherPath THEN W ELSE Blocked(g, c, s))

-----------------------------------------------------------------------------
(* to_11.h: a vertex of degree 2, inside a chain or the boundary of an     *)
(* unconnected cycle (a = 0)                                               *)

ApplicableTo11(g, w, a) == <<w, a>> \in BulkSlots(g)
ApplicableTo11Cycle(g, w) == w \in UnconnectedCycles(g)

OpenCycle(g, w) ==
  LET c == g.cn[w].c
      vA == VertexAtEnd(g, <<w, "A">>)
      freed == Detach(SetNgs(SetNgs(g, <<w, "A">>, {}), <<w, "B">>, {}), <<w, "B">>)
      opened == [freed EXCEPT
                   !.ct[c].chis = {x \in @ : ~(x.lo = 2 /\ x.hi = 2)}
                     \cup {[lo |-> 1, hi |-> 1, w |-> w, e |-> "both"]}]
  IN  [g |-> UpdateFor(opened, {w}), res |-> <<vA, g.nextV>>]

CutChain(g, w, a) ==
  LET c == g.cn[w].c
      h2 == g.cn[w].g[a + 1]
      vB == VertexAtBulk(g, w, a)
      vA == g.nextV
      n == Len(g.cn) + 1
      wB == <<w, "B">>
      nA == <<n, "A">>
      freed == CreateVertex(DisconnectOuter(g, h2, "A"), c)
      fresh == CreateChain(ConnectOuter(freed, h2, "A", vA), c)
      cut == SetGW([SetNgs(CopyNeigs(fresh, wB, <<n, "B">>), wB, {}) EXCEPT
                      !.cn[n].g = SubSeq(g.cn[w].g, a + 1, Length(g, w)),
                      !.cn[w].g = SubSeq(@, 1, a)], n, n)
  IN  [g |-> UpdateFor(Separate(cut, c, wB, nA, ~IsConnectedAt(g, wB), {n}), {w, n}),
       res |-> <<vA, vB>>]

\* Keep: the split vertex becomes the first or second of the result.
Settle(r, kept, keep) ==
  IF keep = "any" \/ r.res[IF keep = "first" THEN 1 ELSE 2] = kept THEN r
  ELSE [g |-> ExchangeVertices(r.g, r.res[1], r.res[2]), res |-> <<r.res[2], r.res[1]>>]

Split11(g, w, a, keep) ==
  Settle(IF IsUnconnectedCycle(g, w) THEN OpenCycle(RotateChain(g, w, a), w)
                                     ELSE CutChain(g, w, a),
         VertexAtBulk(g, w, a), keep)
Split11Cycle(g, w, keep) == Settle(OpenCycle(g, w), VertexAtEnd(g, <<w, "A">>), keep)

-----------------------------------------------------------------------------
(* to_12.h: slot s leaves a vertex of degree 3, whose other two ends join  *)
(* into the inside of a chain                                              *)

ApplicableTo12(g, s) == Cardinality(Ngs(g, s)) = 2

\* The end of slot s leaves vertex old for a new one.  Keep: they trade ends
\* as soon as it is known which one stays.
DetachKeeping(g, s, swapped) ==
  LET old == VertexAtEnd(g, s)
      detached == Detach(g, s)
  IN  RemoveSlotFromNeigs(
        IF swapped THEN ExchangeVertices(detached, old, g.nextV) ELSE detached, s)

\* g with all links at the vertex gone becomes one or two components; in
\* linked the slots n1 and n2, which are to be joined, are still connected.
SeparateThreeWay(linked, c, s, n1, n2) ==
  LET w == s[1]
      rest == RemoveSlotFromNeigs(linked, n1)
      blocked == SplitComponent(SetChis(rest, c), c, Blocked(linked, c, s))
  IN  CASE w \in {n1[1], n2[1]} ->
             SplitComponent(RemoveSlotFromNeigs(linked, OppSlot(s)), c, {w})
        [] w \notin {n1[1], n2[1]} /\ ~IsConnectedAt(linked, OppSlot(s)) ->
             SplitComponent(SetChis(rest, c), c, {w})
        [] OTHER ->
             IF AreConnected(linked, s, n1) THEN SetChis(SetEgl(rest, c), c)
             ELSE SetChis(blocked, Len(linked.ct) + 1)

\* r is the result of ToLinear.
WithFirst(vS, r) == [g |-> r.g, res |-> <<vS, r.v>>]

Split12(g, s, keep) ==
  LET c == g.cn[s[1]].c
      n1 == NgsInOrder(g, s)[1]
      n2 == NgsInOrder(g, s)[2]
      swapped == keep = "first"
      vS == IF swapped THEN VertexAtEnd(g, s) ELSE g.nextV
      v01 == IF swapped THEN g.nextV ELSE VertexAtEnd(g, s)
      \* The second neighbour gets a vertex of its own, to be merged away.
      v1 == g.nextV + 1
      \* ToLinear keeps the vertex at its second argument, unless it joins
      \* end B to end A.
      removes01 == ~(n1[2] = "B" /\ n2[2] = "A")
      Kept(gg) == IF keep = "second" /\ removes01 THEN ExchangeVertices(gg, v01, v1) ELSE gg
      detached == DetachKeeping(g, s, swapped)
  IN  IF n1[1] = n2[1]
      THEN [g |-> Update(SplitComponent(detached, c, {n1[1]})), res |-> <<vS, v01>>]
      ELSE WithFirst(vS, ToLinear(Kept(SeparateThreeWay(Detach(detached, n2), c, s, n1, n2)),
                                  n1, n2))

-----------------------------------------------------------------------------
(* to_13.h: slot s leaves a vertex of degree 4 *)

\* Faulty: vertices of degree 3 are taken too.
ApplicableTo13OffByOne(g, s) == Cardinality(Ngs(g, s)) >= 2

ApplicableTo13(g, s) == Cardinality(Ngs(g, s)) = 3

Split13(g, s) ==
  LET c == g.cn[s[1]].c
      alone == RemoveSlotFromNeigs(Detach(g, s), s)
      noOtherPath == ~IsConnectedAt(alone, OppSlot(s))
  IN  [g |-> Update(Separate(alone, c, s, NgsInOrder(g, s)[1], noOtherPath, {s[1]})),
       res |-> <<g.nextV, VertexAtEnd(g, s)>>]

-----------------------------------------------------------------------------
(* to_22.h: the ends s1 and s2 leave a vertex of degree 4 together: first  *)
(* one by one, then they are merged                                        *)

\* Faulty: the two ends of one chain are not let through.
ApplicableTo22OtherChain(g, s1, s2) ==
  Cardinality(Ngs(g, s1)) = 3 /\ s2 \in Ngs(g, s1) /\ s1[1] # s2[1]

ApplicableTo22(g, s1, s2) == Cardinality(Ngs(g, s1)) = 3 /\ s2 \in Ngs(g, s1)

\* Faulty: a chain of one edge has the edge at both its ends.
SlotOfFirstEnd(g, h, e) ==
  LET w == g.egl[g.eg[h].ind].w
  IN  <<w, IF h = Head(g.cn[w].g) THEN "A" ELSE "B">>

\* The end slot where the inner end e of edge h is, by the graph's edge list.
SlotOf(g, h, e) ==
  LET w == g.egl[g.eg[h].ind].w
  IN  << w, IF Length(g, w) = 1 THEN InnerEnd(g, h, e)
            ELSE IF h = Head(g.cn[w].g) THEN "A" ELSE "B" >>

\* r is the result of Merge11, second the vertex that r does not touch.
WithSecond(r, second) == [g |-> r.g, res |-> <<r.v, second>>]

MergePair(r, h1, e1, h2, e2) ==
  WithSecond(Merge11(r.g, SlotOf(r.g, h1, e1), SlotOf(r.g, h2, e2)), r.res[2])

Split22(g, s1, s2) ==
  LET h1 == EndEdge(g, s1)
      h2 == EndEdge(g, s2)
  IN  MergePair(Split12(Split13(g, s1).g, s2, "any"),
                h1, InnerEnd(g, h1, s1[2]), h2, InnerEnd(g, h2, s2[2]))
=============================================================================
