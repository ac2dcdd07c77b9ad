----------------------------- MODULE SelfChecks -----------------------------
(***************************************************************************)
(* The tests the library runs on its own structure: component/checks.h and *)
(* analyzers/integral_tests.h.                                             *)
(***************************************************************************)
EXTENDS Lookups

(* Component *)

\* The values at, one for each element of S, are the numbers 1..n, each once.
Numbers(S, n, at(_)) == {at(x) : x \in S} = 1..n /\ Cardinality(S) = n

ChainEdges(g, w) == {<<w, a>> : a \in DOMAIN g.cn[w].g}
EdgeRec(g, x) == g.eg[g.cn[x[1]].g[x[2]]]
EdgesOfComponent(g, c) == UNION {ChainEdges(g, w) : w \in ToSet(g.ct[c].ww)}

check_chain_idc(g, c) ==
  /\ \A i \in DOMAIN g.ct[c].ww :
       g.ct[c].ww[i] \in DOMAIN g.cn /\ g.cn[g.ct[c].ww[i]].c = g.ct[c].ind
  /\ Numbers(DOMAIN g.ct[c].ww, NumChains(g, c), LAMBDA i : g.cn[g.ct[c].ww[i]].idc)

check_edge_indc(g, c) ==
  Numbers(EdgesOfComponent(g, c), NumEdges(g, c), LAMBDA x : EdgeRec(g, x).indc)

Matches(d, o) == d = [w |-> o.w, a |-> o.indw, i |-> o.ind]
check_egl(g, c) ==
  LET egl == g.ct[c].egl
  IN  /\ \A k \in DOMAIN egl :
           /\ egl[k].w \in DOMAIN g.cn /\ g.cn[egl[k].w].c = g.ct[c].ind
           /\ egl[k].a \in DOMAIN g.cn[egl[k].w].g
           /\ Matches(egl[k], EdgeRec(g, <<egl[k].w, egl[k].a>>))
      /\ \A x \in EdgesOfComponent(g, c) :
           EdgeRec(g, x).indc \in DOMAIN egl /\ Matches(egl[EdgeRec(g, x).indc], EdgeRec(g, x))

\* The class a chain is in tells the numbers of neighbours at its ends.
NumNgs(g, w, e) == Cardinality(Ngs(g, <<w, e>>))
check_chis(g, c) ==
  LET chis == g.ct[c].chis
      end(x) == IF x.e = "both" THEN "A" ELSE x.e
      class(lo, hi) == {x \in chis : x.lo = lo /\ x.hi = hi}
  IN  /\ Cardinality(chis) = NumChains(g, c)
      /\ \A x \in class(1, 1) : IsUnconnectedLinear(g, x.w)
      /\ \A x \in class(2, 2) : IsUnconnectedCycle(g, x.w)
      /\ \A x \in chis :
           x.lo # 2 /\ x.hi \in {3, 4} =>
             NumNgs(g, x.w, end(x)) = x.lo - 1 /\ NumNgs(g, x.w, Opp(end(x))) = x.hi - 1

check_chain_lengths(g, c) ==
  \A w \in ToSet(g.ct[c].ww) : IsCycle(g, w) => Length(g, w) >= minCycleLength

check_vertex_data(g, c) ==
  \A v \in g.ct[c].vv :
    /\ g.vx[v].c = g.ct[c].ind
    /\ \A d \in DOMAIN g.vx[v].eds :
         LET i == g.vx[v].eds[d]
         IN  i \in 1..NumEdges(g, c) /\ g.eg[EdgeAtIndc(g, c, i)].vv[d[2]] = v

check(g, c) ==
  /\ check_chain_idc(g, c) /\ check_edge_indc(g, c) /\ check_egl(g, c)
  /\ check_chis(g, c) /\ check_chain_lengths(g, c) /\ check_vertex_data(g, c)

(* Graph *)

AllEdges(g) == UNION {ChainEdges(g, w) : w \in DOMAIN g.cn}

components(g) ==
  LET C == {g.cn[w].c : w \in DOMAIN g.cn}
  IN  C # {} =>
        /\ Len(g.ct) \in C /\ 1 \in C /\ \A c \in C : c <= Len(g.ct)
        /\ \A c \in DOMAIN g.ct :
             /\ \A w \in ToSet(g.ct[c].ww) :
                  /\ g.cn[w].c = g.ct[c].ind
                  /\ \A e \in End : \A n \in Ngs(g, <<w, e>>) : g.cn[n[1]].c = g.ct[c].ind
             /\ \A idc \in 1..NumChains(g, c) : Chid(g, c, idc) # Undefined
             /\ check(g, c)
        /\ \A x \in AllEdges(g) : EdgeRec(g, x).c = g.cn[x[1]].c
        /\ \A c \in DOMAIN g.ct :
             /\ Numbers({x \in AllEdges(g) : EdgeRec(g, x).c = c}, NumEdges(g, c),
                        LAMBDA x : EdgeRec(g, x).indc)
             /\ \A i \in DOMAIN g.ct[c].egl :
                  LET o == g.eg[EdgeAtIndc(g, c, i)]
                  IN  o.indc = i /\ o.ind = g.ct[c].egl[i].i

vertex_numbers(g) ==
  \A d \in 1..maxDegree :
    FoldLeft(LAMBDA n, c : n + NumVerticesOfComponent(g, c, d), 0, [c \in DOMAIN g.ct |-> c])
      = NumVertices(g, d)

loops(g) == \A w \in DOMAIN g.cn : ~(IsCycle(g, w) /\ Length(g, w) < minCycleLength)

consistency(g) ==
  /\ \A s \in EndSlots(g) : \A n \in Ngs(g, s) : n[1] \in DOMAIN g.cn /\ s \in Ngs(g, n)
  /\ \A i \in 1..g.ne : g.eg[EdgeAt(g, i)].ind = i

chain_id(g) == \A w \in DOMAIN g.cn : g.cn[w].idw = w

edges(g) ==
  /\ Cardinality(AllEdges(g)) = g.ne
  /\ \A x \in AllEdges(g) :
       LET o == EdgeRec(g, x)
       IN  /\ o.w = g.cn[x[1]].idw /\ o.indw = x[2]
           /\ o.ind <= g.ne /\ o.indc <= NumEdges(g, g.cn[x[1]].c)
           /\ o.indw <= Length(g, x[1]) /\ o.w \in DOMAIN g.cn /\ o.c \in DOMAIN g.ct

chain_g(g) == Numbers(AllEdges(g), g.ne, LAMBDA x : EdgeRec(g, x).ind)

IntegralTests(g) ==
  /\ consistency(g) /\ components(g) /\ loops(g) /\ chain_id(g)
  /\ edges(g) /\ chain_g(g) /\ vertex_numbers(g)
=============================================================================
