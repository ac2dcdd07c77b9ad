--------------------------- MODULE GraphStructure ---------------------------
(***************************************************************************)
(* The data structure of include/graffine/structure: a graph value g and   *)
(* the editing steps its transformations are composed of.  Each step takes *)
(* a graph and returns the edited graph, so that a transformation reads as *)
(* the sequence of calls its C++ body makes.                               *)
(*                                                                         *)
(* A graph g is a record:                                                  *)
(*   cn   chains, a sequence of [g, ngs, idw, idc, c]: the edges of the    *)
(*        chain from end A to end B, the end slots sharing the boundary    *)
(*        vertex at each end, and the chain's index in the graph, in its   *)
(*        component, and its component                                     *)
(*   ct   components, a sequence of [ind, ww, vv, chis, egl]               *)
(*   eg   edges by handle: [ind, indc, indw, w, c, fwd, vv]                *)
(*   vx   vertices by identity: [c, eds], eds mapping an edge end <<h, e>> *)
(*        to the component index of edge h stored in the descriptor        *)
(*   egl  the graph's edge list, ind -> [w, a, h];   ne  its edge counter  *)
(*   nextH, nextV   the next fresh edge and vertex identity                *)
(*   ok   FALSE once a check the code makes on its own state has failed    *)
(* Indexes start at 1 here and at 0 in the code.  The bulk slot number a   *)
(* of the code, the vertex between positions a-1 and a, is the one here:   *)
(* the vertex after the first a edges.                                     *)
(***************************************************************************)
EXTENDS Naturals, Sequences, FiniteSets, SequencesExt

End == {"A", "B"}
Opp(e) == IF e = "A" THEN "B" ELSE "A"
OppSlot(s) == <<s[1], Opp(s[2])>>

NoVertex == 0
minCycleLength == 2
maxDegree == 4

EmptyGraph ==
  [cn |-> <<>>, ct |-> <<>>, eg |-> <<>>, vx |-> <<>>, egl |-> <<>>,
   ne |-> 0, nextH |-> 1, nextV |-> 1, ok |-> TRUE]

NewChain(w, idc, c) ==
  [g |-> <<>>, ngs |-> [A |-> {}, B |-> {}], idw |-> w, idc |-> idc, c |-> c]
NewComponent(c) ==
  [ind |-> c, ww |-> <<>>, vv |-> {}, chis |-> {}, egl |-> <<>>]
NewEdge(ind) ==
  [ind |-> ind, indc |-> 0, indw |-> 0, w |-> 0, c |-> 0, fwd |-> TRUE,
   vv |-> [A |-> NoVertex, B |-> NoVertex]]

\* f itself; TLC evaluates its elements here and not where they are used.
Strict(f) == f @@ <<>>
Drop(f, x) == Strict([y \in DOMAIN f \ {x} |-> f[y]])
PosIn(x, s) == CHOOSE i \in DOMAIN s : s[i] = x
\* The last element of s takes the place of the one at i.
FillGap(s, i) == Front([s EXCEPT ![i] = Last(s)])

\* The objects x of f that are in S become F(x, f[x]).
On(f, S, F(_, _)) == Strict([x \in DOMAIN f |-> IF x \in S THEN F(x, f[x]) ELSE f[x]])
OnChains(g, W, F(_, _)) == [g EXCEPT !.cn = On(@, W, F)]
OnEdges(g, H, F(_, _)) == [g EXCEPT !.eg = On(@, H, F)]
OnVertices(g, V, F(_, _)) == [g EXCEPT !.vx = On(@, V, F)]

-----------------------------------------------------------------------------
(* Queries *)

Ngs(g, s) == g.cn[s[1]].ngs[s[2]]
Length(g, w) == Len(g.cn[w].g)
EndSlots(g) == (DOMAIN g.cn) \X End

\* The outer end of an edge is its end in the direction of its chain.
InnerEnd(g, h, e) == IF g.eg[h].fwd THEN e ELSE Opp(e)
VertexAtOuter(g, h, e) == g.eg[h].vv[InnerEnd(g, h, e)]
EndEdge(g, s) == IF s[2] = "A" THEN Head(g.cn[s[1]].g) ELSE Last(g.cn[s[1]].g)
VertexAtEnd(g, s) == VertexAtOuter(g, EndEdge(g, s), s[2])
VertexAtBulk(g, w, a) == VertexAtOuter(g, g.cn[w].g[a + 1], "A")

IsConnectedAt(g, s) == Ngs(g, s) # {}
IsUnconnectedCycle(g, w) ==
  \E s \in EndSlots(g) :
    /\ s[1] = w
    /\ Ngs(g, <<w, "A">>) = {s}
    /\ Ngs(g, <<w, "B">>) = {OppSlot(s)}

IsUnconnectedLinear(g, w) == \E e \in End : ~IsConnectedAt(g, <<w, e>>)

EdgesOf(g, ww) == FlattenSeq([i \in DOMAIN ww |-> g.cn[ww[i]].g])
NumEdges(g, c) == Len(g.ct[c].egl)
NumChains(g, c) == Len(g.ct[c].ww)
DegreeAtEnd(g, s) == Cardinality(Ngs(g, s)) + 1

\* Vertices of degree d in chain w.  A junction counts at each end it is at.
NumVerticesOfChain(g, w, d) ==
  IF d = 2
  THEN IF IsUnconnectedCycle(g, w) THEN Length(g, w) ELSE Length(g, w) - 1
  ELSE Cardinality({e \in End : DegreeAtEnd(g, <<w, e>>) = d})

\* Vertices of degree d, counted over the chains.
NumVertices(g, d) ==
  LET k == FoldLeft(LAMBDA n, w : n + NumVerticesOfChain(g, w, d), 0, [w \in DOMAIN g.cn |-> w])
  IN  IF d > 2 THEN k \div d ELSE k

\* The end slots a path over chains can reach from slot s: along a chain to
\* its other end, and from an end to the ends it shares the vertex with.
Accessible(g, s) ==
  LET Grow(R) == R \cup {OppSlot(r) : r \in R} \cup UNION {Ngs(g, r) : r \in R}
      reach[n \in 0..2 * Len(g.cn)] == IF n = 0 THEN {s} ELSE Grow(reach[n - 1])
  IN  reach[2 * Len(g.cn)]
AreConnected(g, s1, s2) == s1[1] = s2[1] \/ s2 \in Accessible(g, s1)

-----------------------------------------------------------------------------
(* Edge ends and vertices *)

ConnectInner(g, h, e, v) ==
  [g EXCEPT !.ok = @ /\ g.eg[h].vv[e] = NoVertex
                     /\ <<h, e>> \notin DOMAIN g.vx[v].eds,
            !.eg[h].vv[e] = v,
            !.vx[v].eds = @ @@ (<<h, e>> :> g.eg[h].indc)]
ConnectOuter(g, h, e, v) == ConnectInner(g, h, InnerEnd(g, h, e), v)

DisconnectInner(g, h, e) ==
  LET v == g.eg[h].vv[e]
  IN  [g EXCEPT !.ok = @ /\ <<h, e>> \in DOMAIN g.vx[v].eds,
                !.eg[h].vv[e] = NoVertex,
                !.vx[v].eds = Drop(@, <<h, e>>)]
DisconnectOuter(g, h, e) == DisconnectInner(g, h, InnerEnd(g, h, e))

\* The new vertex is g.nextV.
CreateVertex(g, c) ==
  [g EXCEPT !.nextV = @ + 1,
            !.vx = @ @@ (g.nextV :> [c |-> c, eds |-> <<>>]),
            !.ct[c].vv = @ \cup {g.nextV}]

RemoveDisconnected(g, c, v) ==
  [g EXCEPT !.ok = @ /\ v \in g.ct[c].vv /\ DOMAIN g.vx[v].eds = {},
            !.vx = Drop(@, v),
            !.ct[c].vv = @ \ {v}]

RemoveConnectedToOuter(g, c, h, e) ==
  RemoveDisconnected(DisconnectOuter(g, h, e), c, VertexAtOuter(g, h, e))

\* The vertex after the first a edges of chain w leaves, the chain stays.
RemoveBulkVertex(g, c, w, a) ==
  RemoveConnectedToOuter(DisconnectOuter(g, g.cn[w].g[a], "B"), c, g.cn[w].g[a + 1], "A")

\* Component c is one unconnected cycle: its boundary vertex leaves.
RemoveCycleBoundary(g, c) ==
  LET w == Head(g.ct[c].ww)
      hA == EndEdge(g, <<w, "A">>)
      hB == EndEdge(g, <<w, "B">>)
  IN  [RemoveConnectedToOuter(DisconnectOuter(g, hA, "A"), c, hB, "B") EXCEPT
         !.ok = @ /\ NumChains(g, c) = 1 /\ IsUnconnectedCycle(g, w)]

\* The chain ends of the sequence ss are connected to vertex v.
ConnectEnds(g, ss, v) ==
  FoldLeft(LAMBDA gg, s : ConnectOuter(gg, EndEdge(gg, s), s[2], v), g, ss)

\* The component index stored in each descriptor of v leads to its edge.
EdgesFound(g, v) ==
  \A d \in DOMAIN g.vx[v].eds :
    LET x == g.ct[g.vx[v].c].egl[g.vx[v].eds[d]] IN g.cn[x.w].g[x.a] = d[1]

\* Vertices a and b trade the edge ends they hold, and their components.  The
\* edges are looked up through the component index stored in the descriptors.
ExchangeVertices(g, a, b) ==
  LET swap(v) == IF v = a THEN b ELSE IF v = b THEN a ELSE v
  IN  IF a = b THEN g
      ELSE [g EXCEPT
              !.ok = @ /\ EdgesFound(g, a) /\ EdgesFound(g, b),
              !.vx = On(@, {a, b}, LAMBDA v, o : g.vx[swap(v)]),
              !.eg = On(@, DOMAIN @, LAMBDA h, o :
                       [o EXCEPT !.vv = [A |-> swap(@["A"]), B |-> swap(@["B"])]]),
              !.ct = On(@, DOMAIN @, LAMBDA c, o : [o EXCEPT !.vv = {swap(v) : v \in @}])]

\* The vertex at slot s is left to the other edges: the end edge of s gets a
\* new one, which is g.nextV.
Detach(g, s) ==
  LET h == EndEdge(g, s)
      c == g.cn[s[1]].c
  IN  ConnectOuter(CreateVertex(DisconnectOuter(g, h, s[2]), c), h, s[2], g.nextV)

-----------------------------------------------------------------------------
(* Neighbour links of the chain ends *)

ReplaceSlot(N, old, nov) == IF old \in N THEN (N \ {old}) \cup {nov} ELSE N

SetNgs(g, s, N) == [g EXCEPT !.cn[s[1]].ngs[s[2]] = N]
SetAllNgs(g, N(_)) ==
  OnChains(g, DOMAIN g.cn, LAMBDA w, m :
    [m EXCEPT !.ngs = [A |-> N(<<w, "A">>), B |-> N(<<w, "B">>)]])

ReplaceSlotInNeigs(g, old, nov) ==
  LET N(s) == IF s \in Ngs(g, nov) THEN ReplaceSlot(Ngs(g, s), old, nov) ELSE Ngs(g, s)
  IN  [SetAllNgs(g, N) EXCEPT !.ok = @ /\ \A n \in Ngs(g, nov) : old \in Ngs(g, n)]

\* Faulty: the neighbours are not told of the slot's new name.
CopyNeigsOneSided(g, f, t) == SetNgs(g, t, Ngs(g, f))

\* The list of f itself stays as it was.
CopyNeigs(g, f, t) == ReplaceSlotInNeigs(SetNgs(g, t, Ngs(g, f)), f, t)

RemoveSlotFromNeigs(g, s) ==
  LET N(n) == IF n = s THEN {} ELSE IF n \in Ngs(g, s) THEN Ngs(g, n) \ {s} ELSE Ngs(g, n)
  IN  [SetAllNgs(g, N) EXCEPT !.ok = @ /\ \A n \in Ngs(g, s) : s \in Ngs(g, n)]

ConnectSlots(g, s1, s2) ==
  SetNgs(SetNgs(g, s1, Ngs(g, s1) \cup {s2}), s2, Ngs(g, s2) \cup {s1})
-----------------------------------------------------------------------------
(* Indexes of edges in components and in the graph *)

\* Faulty: the descriptors in the vertices keep the old component index.
SetCmpEdgesOnly(g, c, hs, from) ==
  OnEdges(g, ToSet(hs), LAMBDA h, o : [o EXCEPT !.c = c, !.indc = from + PosIn(h, hs) - 1])

\* The edges hs get component c and the component indexes from, from+1, ...;
\* so do their descriptors in the vertices.
SetCmp(g, c, hs, from) ==
  LET H == ToSet(hs)
      new(h) == from + PosIn(h, hs) - 1
      held(v, d) == d[1] \in H /\ g.eg[d[1]].vv[d[2]] = v
  IN  OnVertices(OnEdges(g, H, LAMBDA h, o : [o EXCEPT !.c = c, !.indc = new(h)]),
                 DOMAIN g.vx, LAMBDA v, o :
        [o EXCEPT !.eds = On(@, {d \in DOMAIN @ : held(v, d)}, LAMBDA d, i : new(d[1]))])

SetEdges(g, c) == SetCmp(g, c, EdgesOf(g, g.ct[c].ww), 1)

\* set_chains and reind_chains: the chains of ww join component c with the
\* component indexes from idc on, their edges with those from indc on.
SetChainsFrom(g, ww, c, idc, indc) ==
  SetCmp(OnChains(g, ToSet(ww), LAMBDA w, m :
           [m EXCEPT !.c = c, !.idc = idc + PosIn(w, ww) - 1]),
         c, EdgesOf(g, ww), indc)
SetChains(g, c) == SetChainsFrom(g, g.ct[c].ww, c, 1, 1)

EdgeDescr(g, h) == [w |-> g.eg[h].w, a |-> g.eg[h].indw, i |-> g.eg[h].ind]

SetEgl(g, c) ==
  LET hs == EdgesOf(g, g.ct[c].ww)
      At(i) == {h \in ToSet(hs) : g.eg[h].indc = i}
  IN  [g EXCEPT
         !.ok = @ /\ \A h \in ToSet(hs) : g.eg[h].indc \in DOMAIN hs,
         !.ct[c].egl = Strict([i \in DOMAIN hs |->
            IF At(i) # {} THEN EdgeDescr(g, CHOOSE h \in At(i) : TRUE)
            ELSE IF i \in DOMAIN @ THEN @[i] ELSE [w |-> 0, a |-> 0, i |-> 0]])]

\* The descriptors of the edges in the chains W are rewritten, the others
\* are taken to be up to date.
UpdateFor(g, W) ==
  LET In(i) == {x \in {<<w, h>> : w \in W \cap DOMAIN g.cn, h \in DOMAIN g.eg} :
                  x[2] \in ToSet(g.cn[x[1]].g) /\ g.eg[x[2]].ind = i}
      Descr(x) == [w |-> x[1], a |-> g.eg[x[2]].indw, h |-> x[2]]
  IN  [g EXCEPT !.egl = Strict([i \in 1..g.ne |->
         IF In(i) # {} THEN Descr(CHOOSE x \in In(i) : TRUE)
         ELSE IF i \in DOMAIN @ THEN @[i] ELSE [w |-> 0, a |-> 0, h |-> 0]])]
Update(g) == UpdateFor(g, DOMAIN g.cn)

\* Class of a chain: the degrees at its ends, and its lower-degree end.
ChisEntry(g, w) ==
  LET dA == DegreeAtEnd(g, <<w, "A">>)
      dB == DegreeAtEnd(g, <<w, "B">>)
  IN  CASE dA = dB -> [lo |-> dA, hi |-> dA, w |-> w, e |-> "both"]
        [] dA < dB -> [lo |-> dA, hi |-> dB, w |-> w, e |-> "A"]
        [] dA > dB -> [lo |-> dB, hi |-> dA, w |-> w, e |-> "B"]
SetChis(g, c) ==
  [g EXCEPT !.ct[c].chis = {ChisEntry(g, w) : w \in ToSet(g.ct[c].ww)}]
IncludeChis(g, c, w) == [g EXCEPT !.ct[c].chis = @ \cup {ChisEntry(g, w)}]
-----------------------------------------------------------------------------
(* Edges of a chain *)

SetGW(g, w, newW) ==
  OnEdges(g, ToSet(g.cn[w].g), LAMBDA h, o :
    [o EXCEPT !.w = newW, !.indw = PosIn(h, g.cn[w].g)])

ReverseG(g, w) ==
  OnEdges([g EXCEPT !.cn[w].g = Reverse(@)], ToSet(g.cn[w].g), LAMBDA h, o :
    [o EXCEPT !.fwd = ~@, !.indw = Length(g, w) + 1 - PosIn(h, g.cn[w].g)])

\* The edge lists of the component and of the graph, rewritten for edges H.
WriteCmptEgl(g, c, H) ==
  [g EXCEPT !.ct[c].egl =
     [i \in {g.eg[h].indc : h \in H} |->
        EdgeDescr(g, CHOOSE h \in H : g.eg[h].indc = i)] @@ @]
WriteGraphEgl(g, H) ==
  [g EXCEPT !.egl =
     [i \in {g.eg[h].ind : h \in H} |->
        LET h == CHOOSE x \in H : g.eg[x].ind = i
        IN  [w |-> g.eg[h].w, a |-> g.eg[h].indw, h |-> h]] @@ @]

RotateChain(g, w, n) ==
  LET m == g.cn[w].g
      turned == SubSeq(m, n + 1, Len(m)) \o SubSeq(m, 1, n)
  IN  WriteGraphEgl(
        WriteCmptEgl(SetGW([g EXCEPT !.cn[w].g = turned], w, w), g.cn[w].c, ToSet(m)),
        ToSet(m))

\* Edges from+1..to of chain f become the edges of the empty chain t.
TakeEdges(g, f, from, to, t) ==
  LET m == g.cn[f].g
      stay == SubSeq(m, 1, from) \o SubSeq(m, to + 1, Len(m))
  IN  SetGW(SetGW([g EXCEPT !.cn[t].g = SubSeq(m, from + 1, to), !.cn[f].g = stay], f, f),
            t, t)

\* Faulty: the component's edge list is not rewritten.
MoveEdgesStaleList(g, f, from, to, t) ==
  WriteGraphEgl(TakeEdges(g, f, from, to, t), ToSet(SubSeq(g.cn[f].g, from + 1, to)))

\* The graph's list is left as it was for the edges that stay in f.
MoveEdges(g, f, from, to, t) ==
  WriteGraphEgl(
    WriteCmptEgl(TakeEdges(g, f, from, to, t), g.cn[f].c, ToSet(g.cn[f].g)),
    ToSet(SubSeq(g.cn[f].g, from + 1, to)))

\* Edge p takes the vertex of its neighbour nb at outer end e; a new vertex
\* joins the two.
Interpose(g, c, p, nb, e) ==
  ConnectOuter(
    ConnectOuter(
      CreateVertex(ConnectOuter(DisconnectOuter(g, nb, e), p, e, VertexAtOuter(g, nb, e)), c),
      nb, e, g.nextV),
    p, Opp(e), g.nextV)

\* The new edge is g.nextH; it is in the lists, but has no vertices.
AddLooseEdge(g, ind, w) ==
  LET c == g.cn[w].c
      new == [NewEdge(ind) EXCEPT !.w = w, !.indw = Length(g, w) + 1,
                                  !.c = c, !.indc = NumEdges(g, c) + 1]
  IN  [g EXCEPT !.nextH = @ + 1, !.eg = @ @@ (g.nextH :> new),
                !.cn[w].g = Append(@, g.nextH),
                !.ct[c].egl = Append(@, [w |-> w, a |-> new.indw, i |-> ind])]

AppendEdgeToChain(g, ind, w) ==
  LET c == g.cn[w].c
      p == g.nextH
  IN  IF Length(g, w) = 0
      THEN ConnectOuter(
             ConnectOuter(CreateVertex(CreateVertex(AddLooseEdge(g, ind, w), c), c),
                          p, "A", g.nextV),
             p, "B", g.nextV + 1)
      ELSE Interpose(AddLooseEdge(g, ind, w), c, p, Last(g.cn[w].g), "B")
-----------------------------------------------------------------------------
(* Chains of a component *)

\* The new chain is Len(g.cn) + 1.
CreateChain(g, c) ==
  LET w == Len(g.cn) + 1
  IN  IncludeChis([g EXCEPT !.cn = Append(@, NewChain(w, NumChains(g, c) + 1, c)),
                            !.ct[c].ww = Append(@, w)],
                  c, w)

\* The component's last edge takes the place of h in its edge list.
EglRemove(g, c, h) ==
  LET egl == g.ct[c].egl
      b == Last(egl)
      ic == g.eg[h].indc
      found == b.w \in DOMAIN g.cn /\ b.a \in DOMAIN g.cn[b.w].g
      last == g.cn[b.w].g[b.a]
      g1 == SetCmp(g, g.eg[last].c, <<last>>, ic)
  IN  IF b.i = g.eg[h].ind THEN [g EXCEPT !.ct[c].egl = Front(@)]
      ELSE IF ~found THEN [g EXCEPT !.ok = FALSE]
      ELSE [g1 EXCEPT !.ct[c].egl = Front([@ EXCEPT ![ic] = EdgeDescr(g1, last)])]

\* The edges of chain w leave the list, the highest index first.
EglRemoveChain(g, c, w) ==
  FoldLeft(LAMBDA gg, h : EglRemove(gg, c, h), g,
           SortSeq(g.cn[w].g, LAMBDA x, y : g.eg[x].indc > g.eg[y].indc))

Renumbered(g, c) == SetEgl(SetChis(SetEdges(g, c), c), c)

RemoveChain(g, c, w) ==
  LET last == NumChains(g, c)
      moved == {u \in ToSet(g.ct[c].ww) : g.cn[u].idc = last /\ g.cn[w].idc < last}
  IN  Renumbered([OnChains(EglRemoveChain(g, c, w), moved,
                           LAMBDA u, m : [m EXCEPT !.idc = g.cn[w].idc]) EXCEPT
                    !.ct[c].ww = SelectSeq(@, LAMBDA u : u # w)], c)

ListChain(g, c, w) ==
  [g EXCEPT
     !.ct[c].egl = @ \o [i \in DOMAIN g.cn[w].g |-> EdgeDescr(g, g.cn[w].g[i])],
     !.ct[c].ww = Append(@, w)]

AppendChain(g, c, w) ==
  IncludeChis(
    ListChain(SetChainsFrom(g, <<w>>, c, NumChains(g, c) + 1, NumEdges(g, c) + 1), c, w),
    c, w)

\* The vertices of chain w and the chain go from component c1 to c2.
MoveChain(g, c1, c2, w) ==
  LET V == {g.eg[h].vv[e] : h \in ToSet(g.cn[w].g), e \in End} \cap g.ct[c1].vv
  IN  AppendChain(
        RemoveChain([OnVertices(g, V, LAMBDA v, o : [o EXCEPT !.c = c2]) EXCEPT
                       !.ct[c1].vv = @ \ V,
                       !.ct[c2].vv = @ \cup V], c1, w),
        c2, w)
-----------------------------------------------------------------------------
(* Chains and components of the graph *)

\* Chain f takes the index t, whose old contents are gone.  RenameChain also
\* brings the classification of chains in the component up to date.
RenameChainOnly(g, f, t) ==
  LET c == g.cn[f].c
      ren(w) == IF w = f THEN t ELSE w
      linked == CopyNeigs(CopyNeigs(g, <<f, "A">>, <<t, "A">>), <<f, "B">>, <<t, "B">>)
  IN  [SetGW(linked, f, t) EXCEPT
         !.cn[t] = [@ EXCEPT !.g = g.cn[f].g, !.c = c, !.idc = g.cn[f].idc],
         !.cn[f].g = <<>>,
         !.ct[c].ww = On(@, DOMAIN @, LAMBDA i, w : ren(w)),
         !.ct[c].egl = On(@, DOMAIN @, LAMBDA i, x : [x EXCEPT !.w = ren(@)])]

RenameChain(g, f, t) == SetChis(RenameChainOnly(g, f, t), g.cn[f].c)

\* The last chain fills the vacated index w.
ReleaseChain(g, w) ==
  LET last == Len(g.cn)
  IN  [IF w = last THEN g ELSE RenameChain(g, last, w) EXCEPT !.cn = Front(@)]

SetInd(g, c, i) ==
  LET set(x, o) == [o EXCEPT !.c = i]
  IN  [OnEdges(OnVertices(OnChains(g, ToSet(g.ct[c].ww), set), g.ct[c].vv, set),
               ToSet(EdgesOf(g, g.ct[c].ww)), set) EXCEPT
         !.ct[c].ind = i]

\* The last component fills the vacated index c.
ReleaseCmpt(g, c) ==
  IF c = Len(g.ct) THEN [g EXCEPT !.ct = Front(@)]
  ELSE [SetInd(g, Len(g.ct), c) EXCEPT !.ct = FillGap(@, c)]

\* The index of the merged component.
MergedCmpt(g, acc, don) == IF acc = Len(g.ct) THEN don ELSE acc

MergeComponents(g, acc, don) ==
  LET moved == SetChainsFrom(SetInd(g, don, acc), g.ct[don].ww, acc,
                             NumChains(g, acc) + 1, NumEdges(g, acc) + 1)
      united == [moved EXCEPT !.ct[acc].vv = @ \cup g.ct[don].vv,
                              !.ct[acc].ww = @ \o g.ct[don].ww,
                              !.ct[don] = [NewComponent(acc) EXCEPT !.ind = acc]]
  IN  ReleaseCmpt(SetEgl(SetChis(united, acc), acc), don)

\* Chains ww leave component c for a new one, the higher indexes first.
SplitComponent(g, c, W) ==
  LET new == Len(g.ct) + 1
      descending == SetToSortSeq(W, LAMBDA u, w : u > w)
  IN  FoldLeft(LAMBDA gg, w : MoveChain(gg, c, new, w),
               [g EXCEPT !.ct = Append(@, NewComponent(new))], descending)

AddSingleChainComponent(g, len) ==
  LET c == Len(g.ct) + 1
      w == Len(g.cn) + 1
      chained == FoldLeft(LAMBDA gg, i : AppendEdgeToChain(gg, g.ne + i, w),
                          CreateChain([g EXCEPT !.ct = Append(@, NewComponent(c))], c),
                          [i \in 1..len |-> i])
  IN  UpdateFor([chained EXCEPT !.ne = @ + len], {w})

\* Goes on until the graph has num more components than it had chains.
GenerateSingleChainComponents(g, num, len) ==
  FoldLeft(AddSingleChainComponent, g,
           [i \in 1..num + Len(g.cn) - Len(g.ct) |-> len])
=============================================================================
