---------------------------- MODULE GraphFactory ----------------------------
(***************************************************************************)
(* Assembling a graph from its vertices and edges, as when it is read from *)
(* a file: structure/modifiers/graph_factory.h.  The input es is a sequence*)
(* of edges [A, B, fwd]: the vertices at the outer ends and the direction. *)
(***************************************************************************)
EXTENDS GraphStructure

EndsOf(es) == (DOMAIN es) \X End
EndsAtInput(es, v) == {d \in EndsOf(es) : es[d[1]][d[2]] = v}
InputVertices(es) == {es[d[1]][d[2]] : d \in EndsOf(es)}
InnerOf(es, d) == <<d[1], IF es[d[1]].fwd THEN d[2] ELSE Opp(d[2])>>

\* What the reader of files lets through: no loops, degrees in range.
IsGraph(es) ==
  /\ \A i \in DOMAIN es : es[i].A # es[i].B
  /\ \A v \in InputVertices(es) : Cardinality(EndsAtInput(es, v)) <= maxDegree

\* One more edge for the chain l, over a vertex of degree 2 at its end e.
Extended(es, used, l, e) ==
  LET d == <<IF e = "A" THEN Head(l) ELSE Last(l), e>>
      others == EndsAtInput(es, es[d[1]][e]) \ {d}
      ng == (CHOOSE x \in others : TRUE)[1]
  IN  IF Cardinality(others) # 1 \/ ng \in used \cup ToSet(l) THEN l
      ELSE IF e = "A" THEN <<ng>> \o l ELSE Append(l, ng)

\* The chain of unassigned edge i: as far as it goes towards A, then towards B.
ChainFrom(es, used, i) ==
  LET steps == [k \in 1..2 * Len(es) |-> IF k <= Len(es) THEN "A" ELSE "B"]
  IN  FoldLeft(LAMBDA l, e : Extended(es, used, l, e), <<i>>, steps)

EdgesOfChains(ll) == UNION {ToSet(ll[w]) : w \in DOMAIN ll}
ChainsOf(es) ==
  FoldLeft(LAMBDA ll, i : IF i \in EdgesOfChains(ll) THEN ll
                          ELSE Append(ll, ChainFrom(es, EdgesOfChains(ll), i)),
           <<>>, [i \in DOMAIN es |-> i])

SlotsAt(es, ll, v) ==
  {s \in (DOMAIN ll) \X End :
     es[IF s[2] = "A" THEN Head(ll[s[1]]) ELSE Last(ll[s[1]])][s[2]] = v}

\* The ends that meet at a vertex of degree above 1 become neighbours.
NgsOf(es, ll, s) ==
  LET v == es[IF s[2] = "A" THEN Head(ll[s[1]]) ELSE Last(ll[s[1]])][s[2]]
  IN  IF Cardinality(EndsAtInput(es, v)) > 1 THEN SlotsAt(es, ll, v) \ {s} ELSE {}

\* A vertex is taken to have as many chain ends as edges, or none.
SlotsFound(es, ll) ==
  \A v \in InputVertices(es) :
    Cardinality(SlotsAt(es, ll, v)) \in {0, Cardinality(EndsAtInput(es, v))}

\* Chains and edges with their indexes in the graph; components come later.
WithChains(es, ll) ==
  LET at(h) == CHOOSE x \in (DOMAIN ll) \X (DOMAIN es) : x[2] \in DOMAIN ll[x[1]] /\ ll[x[1]][x[2]] = h
      edge(h, x) == [NewEdge(h) EXCEPT
                       !.w = x[1], !.indw = x[2], !.fwd = es[h].fwd,
                       !.vv = IF es[h].fwd THEN [A |-> es[h].A, B |-> es[h].B]
                              ELSE [A |-> es[h].B, B |-> es[h].A]]
      vertex(v) == [c |-> 0, eds |-> Strict([d \in {InnerOf(es, x) : x \in EndsAtInput(es, v)} |-> 0])]
  IN  [EmptyGraph EXCEPT
         !.cn = Strict([w \in DOMAIN ll |->
                  [NewChain(w, 0, 0) EXCEPT
                     !.g = ll[w],
                     !.ngs = [A |-> NgsOf(es, ll, <<w, "A">>), B |-> NgsOf(es, ll, <<w, "B">>)]]]),
         !.eg = Strict([h \in DOMAIN es |-> edge(h, at(h))]),
         !.vx = Strict([v \in InputVertices(es) |-> vertex(v)]),
         !.ne = Len(es), !.nextH = Len(es) + 1,
         !.nextV = Cardinality(InputVertices(es)) + 1,
         !.ok = SlotsFound(es, ll)]

\* Faulty: the search does not go on from the chains found.
ChainsNextTo(g, w) == {w} \cup {n[1] : n \in Ngs(g, <<w, "A">>) \cup Ngs(g, <<w, "B">>)}

\* find_connected_chains of a chain.
ConnectedChains(g, w) == {u \in DOMAIN g.cn : \E e \in End : <<u, e>> \in Accessible(g, <<w, "A">>)}

\* The chains connected to w, the lowest not assigned, form the next component.
AddComponentOf(g, w) ==
  IF g.cn[w].c # 0 THEN g
  ELSE LET c == Len(g.ct) + 1
           ww == SetToSortSeq(ConnectedChains(g, w), LAMBDA x, y : x < y)
           H == ToSet(EdgesOf(g, ww))
           V == {g.eg[h].vv[e] : h \in H, e \in End}
           owned == OnVertices([g EXCEPT !.ct = Append(@, [NewComponent(c) EXCEPT
                                                             !.ww = ww, !.vv = V])],
                               V, LAMBDA v, o : [o EXCEPT !.c = c])
       IN  SetChis(SetEgl(SetChains(owned, c), c), c)

Assemble(es) ==
  LET chained == WithChains(es, ChainsOf(es))
  IN  Update(FoldLeft(AddComponentOf, chained, [w \in DOMAIN chained.cn |-> w]))
=============================================================================
