------------------------------ MODULE Pulling ------------------------------
(***************************************************************************)
(* transforms/pulling: a vertex, the driver, is drawn along a path of      *)
(* edges away from a source, which loses what the driver gains.            *)
(*                                                                         *)
(* A path p is [c, d, s, pw, pc]: its component, the driver [ind, w, e] (an*)
(* edge, its chain and its end at the driver vertex), the source [w, e, a] *)
(* (a chain end, a = 0, or the bulk slot a of chain w, e = "none"), and the*)
(* edges from driver to source by their indexes in the graph and in the    *)
(* component.  An operation returns [g |-> the graph, p |-> the path, ...].*)
(***************************************************************************)
EXTENDS EdgeTransforms

IndOf(g, h) == g.eg[h].ind
ChainOf(g, i) == g.egl[i].w
PosOf(g, i) == g.egl[i].a
CmptOf(g, i) == g.cn[ChainOf(g, i)].c

-----------------------------------------------------------------------------
(* chain/indexing.h *)

NoEnd == "none"
NoPos == 0
Outer(g, i, e) == InnerEnd(g, EdgeAt(g, i), e)

\* ind2end: the end of chain w that edge i, with its end e, is at.
Ind2End(g, w, i, e) ==
  CASE g.cn[w].g = <<EdgeAt(g, i)>> -> Outer(g, i, e)
    [] Length(g, w) > 1 /\ EdgeAt(g, i) = Head(g.cn[w].g) -> "A"
    [] Length(g, w) > 1 /\ EdgeAt(g, i) = Last(g.cn[w].g) -> "B"
    [] OTHER -> NoEnd

\* ind2end: the end of chain w that edge i is at, next to slot s.
Ind2EndNextTo(g, w, i, s) ==
  IF Length(g, w) > 1 THEN Ind2End(g, w, i, NoEnd)
  ELSE IF s \in Ngs(g, <<w, "A">>) THEN "A"
  ELSE IF s \in Ngs(g, <<w, "B">>) THEN "B" ELSE NoEnd

\* egEnd_to_bulkslot: the number of edges before the vertex at end e of edge i.
BulkAt(g, i, e) == IF Outer(g, i, e) = "A" THEN PosOf(g, i) - 1 ELSE PosOf(g, i)

\* connected_edge, neig_a_of_egEnd: the position next to edge i at its end e.
NeigAt(g, i, e) ==
  LET b == IF Outer(g, i, e) = "A" THEN PosOf(g, i) - 1 ELSE PosOf(g, i) + 1
  IN  IF b \in DOMAIN g.cn[ChainOf(g, i)].g THEN b ELSE NoPos

\* across_boundary: past the boundary vertex of an unconnected cycle.
AcrossBoundary(g, i, e) ==
  LET w == ChainOf(g, i)
      b == BulkAt(g, i, e)
  IN  CASE IsUnconnectedCycle(g, w) /\ b = 0 -> Length(g, w)
        [] IsUnconnectedCycle(g, w) /\ b = Length(g, w) -> 1
        [] OTHER -> NoPos

\* shared_egEnd: the end of the edge at position b at its vertex with the one
\* at a, next to it or across the boundary of the cycle.
SharedEgEnd(g, w, a, b) ==
  LET outer == IF b \in {a + 1, a - 1} THEN (IF a > b THEN "B" ELSE "A")
               ELSE IF b = 1 THEN "A" ELSE "B"
  IN  InnerEnd(g, g.cn[w].g[b], outer)

-----------------------------------------------------------------------------
(* path.h *)

AtEnd(s) == [w |-> s[1], e |-> s[2], a |-> NoPos]
AtBulk(b) == [w |-> b[1], e |-> NoEnd, a |-> b[2]]
IsBulk(s) == s.a # NoPos
EndSlotOf(s) == <<s.w, s.e>>

DriverAt(g, i, e) == [ind |-> i, w |-> ChainOf(g, i), e |-> e]
MakePath(g, c, d, s, pw) ==
  [c |-> c, d |-> d, s |-> s, pw |-> pw,
   pc |-> Strict([k \in DOMAIN pw |-> g.eg[EdgeAt(g, pw[k])].indc])]

EdgeInCmpt(g, c, ic) == g.cn[g.ct[c].egl[ic].w].g[g.ct[c].egl[ic].a]

\* vertices(): from the driver vertex to the source vertex, or <<>> if an edge
\* does not have the vertex where the one before it ends.
PathVertices(g, p) ==
  LET across(h, v) == {g.eg[h].vv[Opp(e)] : e \in {x \in End : g.eg[h].vv[x] = v}}
      hs == [k \in DOMAIN p.pc |-> EdgeInCmpt(g, p.c, p.pc[k])]
  IN  FoldLeft(LAMBDA l, h : IF l = <<>> \/ across(h, Last(l)) = {} THEN <<>>
                             ELSE Append(l, CHOOSE u \in across(h, Last(l)) : TRUE),
               <<g.eg[hs[1]].vv[p.d.e]>>, hs)

IsContiguous(g, p) ==
  /\ p.pc # <<>> /\ Len(p.pc) = Len(p.pw)
  /\ \A k \in DOMAIN p.pc : /\ p.pc[k] \in DOMAIN g.ct[p.c].egl
                            /\ g.ct[p.c].egl[p.pc[k]].i = p.pw[k]
  /\ Len(PathVertices(g, p)) = Len(p.pc) + 1

LengthOverSourceChain(g, p) ==
  Cardinality({k \in DOMAIN p.pw : \A j \in k..Len(p.pw) : ChainOf(g, p.pw[j]) = p.s.w})

\* over_edges: the shortest sequences of adjacent edges from i to j.  Which of
\* them is found depends on the order in which neighbours are visited.
ShortestOverEdges(g, i, j) ==
  LET next(l) == {Append(l, IndOf(g, h)) :
                    h \in {x \in DOMAIN g.eg : /\ IndOf(g, x) \notin ToSet(l)
                                               /\ Adjacent(g, x, EdgeAt(g, Last(l)))}}
      found(S) == {l \in S : Last(l) = j}
  IN  found(FoldLeft(LAMBDA S, k : IF found(S) # {} THEN S ELSE UNION {next(l) : l \in S},
                     {<<i>>}, [k \in 1..g.ne |-> k]))

\* source_edge: of the two edges at a bulk source the one nearer to the driver.
SourceEdge(g, d, s) ==
  LET m == g.cn[s.w].g
      left == IndOf(g, m[s.a])
      right == IndOf(g, m[s.a + 1])
      len(i) == Len(CHOOSE l \in ShortestOverEdges(g, d.ind, i) : TRUE)
  IN  IF ~IsBulk(s) THEN IndOf(g, EndEdge(g, EndSlotOf(s)))
      ELSE IF d.w = s.w THEN (IF PosOf(g, d.ind) <= s.a THEN left ELSE right)
      ELSE IF len(left) <= len(right) THEN left ELSE right

\* The edges between two positions of chain w, in the order of the path.
AlongChain(g, w, from, to) ==
  LET at(x, y) == [k \in 1..y - x + 1 |-> IndOf(g, g.cn[w].g[x + k - 1])]
  IN  Strict(IF from <= to THEN at(from, to) ELSE Reverse(at(to, from)))

\* set_shortest: the edges of the path from driver d to source s.
ShortestPaths(g, d, s) ==
  LET j == SourceEdge(g, d, s)
  IN  IF d.w = s.w /\ (IsUnconnectedCycle(g, s.w) \/ (IsCycle(g, s.w) /\ ~IsBulk(s)))
      THEN {AlongChain(g, s.w, PosOf(g, d.ind), PosOf(g, j))}
      ELSE ShortestOverEdges(g, d.ind, j)

-----------------------------------------------------------------------------
(* junction_shifter.h: the end edge of slot f is moved to slot t of the     *)
(* same junction, and the other ends there to the vertex the edge leads to. *)

\* The ends other than those of f and t at their junction go to vertex u.
OthersMoved(g, f, t, u) ==
  LET v == VertexAtEnd(g, f)
      stay == {<<EndEdge(g, s), InnerEnd(g, EndEdge(g, s), s[2])>> : s \in {f, t}}
  IN  FoldLeft(LAMBDA gg, d : ConnectInner(DisconnectInner(gg, d[1], d[2]), d[1], d[2], u),
               [g EXCEPT !.ok = @ /\ t \in Ngs(g, f) /\ EdgesFound(g, v)
                                  /\ stay \subseteq DOMAIN g.vx[v].eds],
               SetToSeq(DOMAIN g.vx[v].eds \ stay))

EndEdgeMoved(g, f, t) ==
  LET h == EndEdge(g, f)
      rest == IF f[2] = "A" THEN Tail(g.cn[f[1]].g) ELSE Front(g.cn[f[1]].g)
      joined == IF t[2] = "A" THEN <<h>> \o g.cn[t[1]].g ELSE Append(g.cn[t[1]].g, h)
  IN  SetGW(SetGW([g EXCEPT !.cn[f[1]].g = rest, !.cn[t[1]].g = joined,
                            !.eg[h].fwd = @ # (f[2] = t[2])], f[1], f[1]), t[1], t[1])

\* Faulty: the other ends stay where they were.
JShifterAlone(g, c, f, t) == SetEgl(EndEdgeMoved(g, f, t), c)

JShifter(g, c, f, t) ==
  LET u == VertexAtOuter(g, EndEdge(g, f), Opp(f[2]))
  IN  SetEgl(EndEdgeMoved(OthersMoved(g, f, t, u), f, t), c)

-----------------------------------------------------------------------------
(* functor_base.h: one step with the driver at a leaf *)

\* The end of the last path edge at the source vertex; the edge may change its
\* chain, the end stays.
SourceEgEnd(g, p) ==
  LET i == Last(p.pw)
      e == CASE ~IsBulk(p.s) -> p.s.e
             [] IsBulk(p.s) /\ PosOf(g, i) = p.s.a -> "B"
             [] OTHER -> "A"
  IN  Outer(g, i, e)

\* The source at end e of edge i.  A bulk source that a junction has reached is
\* the chain end there.
SourceAt(g, i, e, isBulk) ==
  LET w == ChainOf(g, i)
      a == BulkAt(g, i, e)
  IN  CASE ~isBulk -> AtEnd(<<w, Outer(g, i, e)>>)
        [] isBulk /\ a \in 1..Length(g, w) - 1 -> AtBulk(<<w, a>>)
        [] OTHER -> AtEnd(<<w, IF a > 0 THEN "B" ELSE "A">>)

\* The path of the same edges, in the graph as it is now.
Rebuilt(g, p, e, isBulk) ==
  LET i == Last(p.pw)
  IN  MakePath(g, CmptOf(g, i), DriverAt(g, p.d.ind, p.d.e), SourceAt(g, i, e, isBulk), p.pw)

\* inds_to_chain_link: the ends of two chains at which edges i and j meet.
ChainLinks(g, i, j) ==
  {x \in {<<ChainOf(g, i), e>> : e \in End} \X {<<ChainOf(g, j), e>> : e \in End} :
     /\ IndOf(g, EndEdge(g, x[1])) = i /\ IndOf(g, EndEdge(g, x[2])) = j
     /\ x[2] \in Ngs(g, x[1])}

\* The first edge of the path that is in one chain with the k-th and all between.
ChainExit(g, pw, k) ==
  CHOOSE j \in 1..k : /\ \A l \in j..k : ChainOf(g, pw[l]) = ChainOf(g, pw[k])
                      /\ j > 1 => ChainOf(g, pw[j - 1]) # ChainOf(g, pw[k])

\* shift_edges_to_target_chain: every junction on the path, the last first, is
\* shifted by one edge towards the source.
ShiftOne(r, pw, c) ==
  LET j == ChainExit(r.g, pw, r.k)
      L == ChainLinks(r.g, pw[j], pw[j - 1])
      l == CHOOSE x \in L : TRUE
  IN  CASE j = 1 -> [r EXCEPT !.k = 1]
        [] j > 1 /\ L = {} -> [g |-> [r.g EXCEPT !.ok = FALSE], k |-> 1]
        [] OTHER -> [g |-> Update(JShifter(r.g, c, l[1], l[2])), k |-> j - 1]

\* Faulty: only the junction next to the source is shifted.
ShiftEdgesAtSource(g, p) ==
  IF p.d.w = p.s.w THEN g ELSE ShiftOne([g |-> g, k |-> Len(p.pw)], p.pw, p.c).g

ShiftEdges(g, p) ==
  LET checked == [g EXCEPT !.ok = @ /\ p.d.ind = p.pw[1]
                                    /\ Ind2End(g, p.d.w, p.d.ind, p.d.e) # NoEnd]
  IN  IF p.d.w = p.s.w THEN checked
      ELSE FoldLeft(LAMBDA r, x : IF r.k = 1 THEN r ELSE ShiftOne(r, p.pw, p.c),
                    [g |-> checked, k |-> Len(p.pw)], p.pw).g

\* dissolve_single_edge_chain: the source chain gets a second edge at its free
\* end, gives the first to the chain next to it on the path and is deleted.
WithoutTwig(g, p, s, e) ==
  LET h == EndEdge(g, s)
      r == DeleteTwig(g, h)
  IN  IF IsTwig(g, h) /\ ConnectedEnd(g, s[1]) = s /\ Cardinality(Ngs(g, s)) \in {2, 3}
      THEN [g |-> r.g, p |-> Rebuilt(r.g, p, e, FALSE)]
      ELSE [g |-> [g EXCEPT !.ok = FALSE], p |-> p]

\* Faulty: the new vertex takes the place of the source vertex on the path.
SourceVertexReplaced(g, v, h, e) == g

\* The new vertex, at end e of edge h by now, changes its place with v.
SourceVertexKept(g, v, h, e) == ExchangeVertices(g, v, g.eg[h].vv[e])

\* The edge next to the source on the path is n, at end x of its chain.
DissolveInto(g, p, s, x, n, e) ==
  IF x = NoEnd THEN [g |-> [g EXCEPT !.ok = FALSE], p |-> p]
  ELSE WithoutTwig(Update(JShifter(g, p.c, s, <<ChainOf(g, n), x>>)), p, s, e)
DissolveNextTo(g, p, s, n, e) ==
  DissolveInto(g, p, s, Ind2EndNextTo(g, ChainOf(g, n), n, s), n, e)

Dissolve(g, p, h, e) ==
  DissolveNextTo(
    SourceVertexKept(CreateInChain(g, p.s.w, IF p.s.e = "A" THEN 0 ELSE 1).g,
                     VertexAtEnd(g, EndSlotOf(p.s)), h, e),
    p, OppSlot(EndSlotOf(p.s)), p.pw[Len(p.pw) - 1], e)

\* pull_leaf_vertex, one step.
Shifted(g, p, e, dissolved) ==
  [g |-> g, dissolved |-> dissolved,
   p |-> IF IsBulk(p.s) THEN [p EXCEPT !.s = SourceAt(g, Last(p.pw), e, TRUE)] ELSE p]
ShiftAfter(r, e, dissolved) ==
  IF r.g.ok THEN Shifted(ShiftEdges(r.g, r.p), r.p, e, dissolved)
  ELSE [g |-> r.g, p |-> r.p, dissolved |-> dissolved]

PullLeaf(g, p) ==
  LET e == IF IsBulk(p.s) THEN SourceEgEnd(g, p) ELSE NoEnd
  IN  IF p.d.w = p.s.w THEN [g |-> g, p |-> p, dissolved |-> FALSE]
      ELSE IF ~IsBulk(p.s) /\ Length(g, p.s.w) = 1
      THEN ShiftAfter(Dissolve(g, p, Head(g.cn[p.s.w].g),
                               InnerEnd(g, Head(g.cn[p.s.w].g), p.s.e)), e, TRUE)
      ELSE ShiftAfter([g |-> g, p |-> p], e, FALSE)

\* The same step when more are to follow: where the source chain is gone, the
\* source becomes the other end of the driver's chain.
SourceBeyond(r, more) ==
  LET x == Ind2End(r.g, r.p.d.w, r.p.d.ind, r.p.d.e)
  IN  CASE ~more \/ ~r.dissolved \/ ~r.g.ok -> r
        [] more /\ r.dissolved /\ r.g.ok /\ (r.p.d.w # r.p.s.w \/ x = NoEnd) -> [r EXCEPT !.g.ok = FALSE]
        [] OTHER -> [r EXCEPT !.p.s = AtEnd(<<r.p.d.w, Opp(x)>>)]

-----------------------------------------------------------------------------
(* What a pull is accepted for *)

IsShrinkableBy(g, w, n) == Length(g, w) >= n + IF IsCycle(g, w) THEN minCycleLength ELSE 1

CheckSource(g, p, n) ==
  LET vv == PathVertices(g, p)
      w == p.s.w
      cycle == IsCycle(g, w)
  IN  /\ vv # <<>> /\ vv[1] # Last(vv)
      /\ IF IsBulk(p.s)
         THEN /\ Last(vv) = VertexAtBulk(g, w, p.s.a)
              /\ LengthOverSourceChain(g, p) >= n
              /\ IsShrinkableBy(g, w, n)
         ELSE /\ cycle \/ ~IsConnectedAt(g, EndSlotOf(p.s))
              /\ Last(vv) = VertexAtEnd(g, EndSlotOf(p.s))
              /\ Last(p.pw) = IndOf(g, EndEdge(g, EndSlotOf(p.s)))
              /\ LengthOverSourceChain(g, p) >= n + IF cycle THEN minCycleLength ELSE 0

CheckBasics(g, p, n) ==
  /\ n >= 1
  /\ IF IsBulk(p.s) THEN p.s.a \in 1..Length(g, p.s.w) - 1 ELSE p.s.e \in End

DriverEndNgs(g, p) == Ngs(g, <<p.d.w, Ind2End(g, p.d.w, p.d.ind, p.d.e)>>)

Accepted1(g, p, n) == CheckBasics(g, p, n) /\ DriverEndNgs(g, p) = {} /\ CheckSource(g, p, n)

Accepted3(g, p, n) ==
  /\ CheckBasics(g, p, n)
  /\ Cardinality(DriverEndNgs(g, p)) = 2
  /\ ~(IsBulk(p.s) /\ Len(p.pw) = 1)
  /\ CheckSource(g, p, n)

\* correct_driver: a driver edge that the path leaves at the driver vertex gives
\* way to the next.
EdgeBeforeDriver(g, p) ==
  LET aX == AcrossBoundary(g, p.d.ind, p.d.e)
  IN  g.cn[p.d.w].g[IF aX # NoPos THEN aX ELSE NeigAt(g, p.d.ind, p.d.e)]

CorrectDriver(g, p) ==
  LET i == p.pw[2]
  IN  IF Len(p.pw) > 1 /\ IndOf(g, EdgeBeforeDriver(g, p)) = i
      THEN MakePath(g, p.c,
                    DriverAt(g, i, SharedEgEnd(g, ChainOf(g, i), PosOf(g, p.d.ind), PosOf(g, i))),
                    p.s, Tail(p.pw))
      ELSE p

\* check_unconnected_cycle, of the path with its driver corrected.
CheckUnconnectedCycle(g, p, n) ==
  LET vv == PathVertices(g, p)
  IN  /\ p.s.w = p.d.w
      /\ IsShrinkableBy(g, p.d.w, n)
      /\ IsContiguous(g, p) /\ Len(p.pw) < Length(g, p.d.w)
      /\ Cardinality(ToSet(vv)) = Len(vv)
      /\ Len(p.pw) \notin {1} \cup 0..n - 1
      /\ Last(vv) = IF IsBulk(p.s) THEN VertexAtBulk(g, p.s.w, p.s.a)
                    ELSE VertexAtEnd(g, EndSlotOf(p.s))
      /\ IsBulk(p.s) \/ Last(p.pw) = IndOf(g, EndEdge(g, EndSlotOf(p.s)))

\* The source is an end of the driver's own chain.
CheckOwnEnd(g, p, n) ==
  LET vv == PathVertices(g, p)
  IN  IF IsCycle(g, p.s.w)
      THEN /\ vv # <<>> /\ Last(vv) = VertexAtEnd(g, EndSlotOf(p.s))
           /\ Last(p.pw) = IndOf(g, EndEdge(g, EndSlotOf(p.s)))
           /\ Len(p.pw) > n
      ELSE ~IsConnectedAt(g, EndSlotOf(p.s))

\* Of the path with its driver corrected.
Accepted2(g, p, n) ==
  CASE IsUnconnectedCycle(g, p.d.w) -> CheckUnconnectedCycle(g, p, n)
    [] ~IsUnconnectedCycle(g, p.d.w) /\ IsBulk(p.s) -> Len(p.pw) > 1 /\ CheckSource(g, p, n)
    [] ~IsUnconnectedCycle(g, p.d.w) /\ ~IsBulk(p.s) /\ p.d.w = p.s.w -> CheckOwnEnd(g, p, n)
    [] OTHER -> CheckSource(g, p, n)
-----------------------------------------------------------------------------
(* check_path: what the operations assert of the paths they were given *)

SourceIsFree(g, p) ==
  IsBulk(p.s) \/ IsCycle(g, p.s.w) \/ ~IsConnectedAt(g, EndSlotOf(p.s))

SourceIsLong(g, p, n) ==
  LengthOverSourceChain(g, p) >= n + IF ~IsBulk(p.s) /\ IsCycle(g, p.s.w) THEN minCycleLength ELSE 0

CheckPath(g, p, n) == SourceIsFree(g, p) /\ SourceIsLong(g, p, n)

\* The k-th edge of the path has its end e away from the j-th, if they are in
\* one chain.
PointsAway(g, p, k, j, e) ==
  LET w == ChainOf(g, p.pw[k])
  IN  w = ChainOf(g, p.pw[j]) => Opp(SharedEgEnd(g, w, PosOf(g, p.pw[j]), PosOf(g, p.pw[k]))) = e

CheckPath2(g, p, n) ==
  LET len == Len(p.pw)
  IN  /\ SourceIsFree(g, p)
      /\ SourceIsLong(g, p, n) \/ (~IsBulk(p.s) /\ p.d.w = p.s.w)
      /\ len > 1 =>
           /\ PointsAway(g, p, 1, 2, p.d.e)
           /\ IsBulk(p.s) \/ PointsAway(g, p, len, len - 1, Outer(g, p.pw[len], p.s.e))

-----------------------------------------------------------------------------
(* on_2.h: the first step with the driver at a vertex of degree 2 *)

\* pull_1: the only edge of the path is turned around, with its vertices.
Pull2One(g, p) ==
  LET h == EdgeAt(g, p.d.ind)
      turned == [g EXCEPT !.eg[h].fwd = ~@,
                          !.eg[h].vv = [A |-> @["B"], B |-> @["A"]],
                          !.vx = On(@, {g.eg[h].vv["A"], g.eg[h].vv["B"]}, LAMBDA v, o :
                            [o EXCEPT !.eds = Strict(
                               [d \in {IF x[1] = h THEN <<h, Opp(x[2])>> ELSE x : x \in DOMAIN @} |->
                                  IF d[1] = h THEN @[<<h, Opp(d[2])>>] ELSE @[d]])])]
  IN  [g |-> ExchangeVertices(turned, g.eg[h].vv["A"], g.eg[h].vv["B"]), p |-> p]

\* pull_N: the driver is split off, pulled as a leaf, and the edge it left is
\* joined to the path one vertex further on.
SplitAtDriver(g, p, b) ==
  LET w == p.d.w
      after == (b % Length(g, w)) + 1
      keep == IF IndOf(g, g.cn[w].g[after]) = p.d.ind THEN "first" ELSE "second"
  IN  IF b \in {0, Length(g, w)} THEN Split11Cycle(g, w, keep).g ELSE Split11(g, w, b, keep).g

PathIn(g, p, e, isBulk) == [g |-> g, p |-> Rebuilt(g, p, e, isBulk)]
Pulled(g, p, e, isBulk) == PullLeaf(g, Rebuilt(g, p, e, isBulk))

JoinLeafToPath(r, p, s1, s2, e, isBulk) ==
  IF Applicable12(r.g, s1, s2) THEN PathIn(Merge12(r.g, s1, s2).g, p, e, isBulk)
  ELSE [g |-> [r.g EXCEPT !.ok = FALSE], p |-> p]

\* The edge that the driver left, q, is joined by its end eQ.
RejoinBehindDriver(r, p, q, eQ, e, isBulk) ==
  JoinLeafToPath(r, p, <<ChainOf(r.g, q), Outer(r.g, q, eQ)>>,
                 <<ChainOf(r.g, p.d.ind), BulkAt(r.g, p.d.ind, Opp(p.d.e))>>, e, isBulk)

LeaveAtDriver(g, p, aQ, e, isBulk) ==
  RejoinBehindDriver(Pulled(SplitAtDriver(g, p, BulkAt(g, p.d.ind, p.d.e)), p, e, isBulk),
                     p, IndOf(g, g.cn[p.d.w].g[aQ]),
                     SharedEgEnd(g, p.d.w, PosOf(g, p.d.ind), aQ), e, isBulk)

Pull2Many(g, p) ==
  LeaveAtDriver(g, p, PosOf(g, IndOf(g, EdgeBeforeDriver(g, p))), SourceEgEnd(g, p),
                IsBulk(p.s) \/ IsUnconnectedCycle(g, p.d.w))

\* Of the path with its driver corrected.
Pull2(g, p) == IF Len(p.pw) = 1 THEN Pull2One(g, p) ELSE Pull2Many(g, p)

-----------------------------------------------------------------------------
(* on_3.h: the first step with the driver at a vertex of degree 3: it is    *)
(* split off, pulled as a leaf, and what it left is joined to the path one  *)
(* vertex further on                                                        *)

EdgeAfter(pw, i) ==
  IF \E k \in 1..Len(pw) - 1 : pw[k] = i THEN pw[PosIn(i, pw) + 1] ELSE i

\* The driver's chain, from its end e1 away from the driver if the path is its one
\* edge and from the vertex next to the driver otherwise, meets chain w2 at b2.
JoinPathToJunction(r, p, s1, b1, b2, alone, e, isBulk) ==
  LET cycle == IsUnconnectedCycle(r.g, b2[1])
  IN  CASE alone /\ cycle /\ Applicable12Cycle(r.g, s1, b2[1])
             -> PathIn(KeepMerge12Cycle(r.g, s1, b2[1], "first").g, p, e, isBulk)
        [] alone /\ ~cycle /\ Applicable12(r.g, s1, b2)
             -> PathIn(KeepMerge12(r.g, s1, b2, "first").g, p, e, isBulk)
        [] ~alone /\ cycle /\ b1 \in BulkSlots(r.g) /\ Applicable22Boundary(r.g, b1, b2[1])
             -> PathIn(KeepMerge22Boundary(r.g, b1, b2[1], "first").g, p, e, isBulk)
        [] ~alone /\ ~cycle /\ {b1, b2} \subseteq BulkSlots(r.g) /\ Applicable22(r.g, b1, b2)
             -> PathIn(KeepMerge22(r.g, b1, b2, "first").g, p, e, isBulk)
        [] OTHER -> [g |-> [r.g EXCEPT !.ok = FALSE], p |-> p]

\* The driver is at end eD of its chain, and what it left is between the edges
\* after n[1] and n[2].
RejoinJunction(r, p, eD, n, e, isBulk) ==
  LET wD == ChainOf(r.g, p.d.ind)
  IN  JoinPathToJunction(
        r, p, <<wD, Opp(eD)>>, <<wD, IF eD = "A" THEN 1 ELSE Length(r.g, wD) - 1>>,
        <<ChainOf(r.g, n[1]),
          Max({PosOf(r.g, EdgeAfter(p.pw, n[1])), PosOf(r.g, EdgeAfter(p.pw, n[2]))}) - 1>>,
        p.d.ind = Last(p.pw), e, isBulk)

\* The chain end of the driver, or as it was when it is a chain of its own.
DriverEnd(g, p, was) ==
  IF p.d.ind = Last(p.pw) THEN was ELSE Ind2End(g, ChainOf(g, p.d.ind), p.d.ind, p.d.e)

Rejoined(r, p, eD, n, e, isBulk) == RejoinJunction(r, p, DriverEnd(r.g, p, eD), n, e, isBulk)

LeaveJunction(g, p, s, e, isBulk) ==
  Rejoined(Pulled(Split12(g, s, "first").g, p, e, isBulk), p, s[2],
           [k \in 1..2 |-> IndOf(g, EndEdge(g, NgsInOrder(g, s)[k]))], e, isBulk)

Pull3(g, p) ==
  LeaveJunction(g, p, <<p.d.w, Ind2End(g, p.d.w, p.d.ind, p.d.e)>>, SourceEgEnd(g, p), IsBulk(p.s))
=============================================================================
