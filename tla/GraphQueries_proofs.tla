------------------------- MODULE GraphQueries_proofs -------------------------
(***************************************************************************)
(* What the analysers answer from links and lists, of a graph of any size  *)
(* whose records agree: adjacency, cycles, neighbours and triangles.       *)
(***************************************************************************)
EXTENDS GraphReads_proofs

-----------------------------------------------------------------------------
(* Ends of edges and ends of chains                                        *)

\* The end of the edge at slot s that is not inside its chain.
EndOf(s) == <<EndEdge(gr, s), InnerEnd(gr, EndEdge(gr, s), s[2])>>

LEMMA SlotsAreEnds ==
  ASSUME TypeOK, EdgeIndexesAgree, NEW s \in EndSlots(gr)
  PROVE  /\ s[1] \in DOMAIN gr.cn /\ s[2] \in {"A", "B"} /\ s = <<s[1], s[2]>>
         /\ OppSlot(s) \in EndSlots(gr)
         /\ EndEdge(gr, s) \in H /\ gr.eg[EndEdge(gr, s)].w = s[1]
         /\ gr.eg[EndEdge(gr, s)].indw = IF s[2] = "A" THEN 1 ELSE Length(gr, s[1])
         /\ InnerEnd(gr, EndEdge(gr, s), s[2]) \in End
         /\ VertexAtEnd(gr, s) \in V
         /\ EndOf(s) \in EndsAt(VertexAtEnd(gr, s))
<1>1. s[1] \in DOMAIN gr.cn /\ s[2] \in {"A", "B"} /\ s = <<s[1], s[2]>>
  BY DEF EndSlots, End
<1>2. OppSlot(s) \in EndSlots(gr)
  BY <1>1 DEF OppSlot, Opp, EndSlots, End
<1> DEFINE w == s[1]
           n == Length(gr, w)
           h == EndEdge(gr, s)
           p == IF s[2] = "A" THEN 1 ELSE n
           e == InnerEnd(gr, h, s[2])
           g == gr.cn[w].g
<1>3. h = g[p] /\ p \in 1..n
  <2>1. n \in Nat \ {0} /\ EndEdge(gr, <<w, "A">>) = g[1] /\ EndEdge(gr, <<w, "B">>) = g[n]
    BY <1>1, ChainsHoldEdges
  <2> HIDE DEF n, g
  <2> QED BY <1>1, <2>1
<1>4. h \in H /\ gr.eg[h].w = w /\ gr.eg[h].indw = p
  <2> HIDE DEF w
  <2>1. w \in DOMAIN gr.cn
    BY <1>1 DEF w
  <2>2. \A a \in 1..n : g[a] \in H /\ gr.eg[g[a]].w = w /\ gr.eg[g[a]].indw = a
    BY <2>1, ChainsHoldEdges, ZenonT(60)
  <2> HIDE DEF n, g, p, h
  <2> QED BY <1>3, <2>2
<1>5. e \in End
  BY <1>1 DEF InnerEnd, Opp, End
<1>6. VertexAtEnd(gr, s) = gr.eg[h].vv[e]
  BY DEF VertexAtEnd, VertexAtOuter
<1>7. gr.eg[h].vv[e] \in V
  BY <1>4, <1>5, EdgeTypes DEF End
<1>8. EndOf(s) = <<h, e>>
  BY DEF EndOf
<1> HIDE DEF h, e
<1>9. EndOf(s) \in EndsAt(VertexAtEnd(gr, s))
  BY <1>4, <1>5, <1>6, <1>8 DEF EndsAt, Ends, VertexOf, H
<1> QED BY <1>1, <1>2, <1>4, <1>5, <1>6, <1>7, <1>9 DEF h, e

\* An end of an edge is the end of its chain, or inside and then opposite another.
LEMMA EndsOfEdgesAreEndsOrInside ==
  ASSUME TypeOK, EdgeIndexesAgree, ChainsAreMaximal, NEW h \in H, NEW e \in End
  PROVE  LET w == gr.eg[h].w
             p == gr.eg[h].indw
             n == Length(gr, w)
             o == OuterEnd(gr, h, e)
         IN  /\ w \in DOMAIN gr.cn /\ n \in Nat \ {0} /\ p \in 1..n /\ gr.cn[w].g[p] = h
             /\ o \in {"A", "B"}
             /\ (o = "A" /\ p = 1) \/ (o = "B" /\ p = n)
                  => /\ <<w, o>> \in EndSlots(gr) /\ EndOf(<<w, o>>) = <<h, e>>
                     /\ EndEdge(gr, <<w, o>>) = h
                     /\ VertexAtEnd(gr, <<w, o>>) = gr.eg[h].vv[e]
             /\ o = "A" /\ p > 1 => p - 1 \in 1..n - 1 /\ VertexAtBulk(gr, w, p - 1) = gr.eg[h].vv[e]
             /\ o = "B" /\ p < n => p \in 1..n - 1 /\ VertexAtBulk(gr, w, p) = gr.eg[h].vv[e]
<1> DEFINE w == gr.eg[h].w
           p == gr.eg[h].indw
           n == Length(gr, w)
           o == OuterEnd(gr, h, e)
           g == gr.cn[w].g
<1>1. w \in DOMAIN gr.cn
  BY EdgeTypes
<1>2. /\ n \in Nat \ {0} /\ DOMAIN g = 1..n
      /\ EndEdge(gr, <<w, "A">>) = g[1] /\ EndEdge(gr, <<w, "B">>) = g[n]
  BY <1>1, ChainsHoldEdges
<1>3. p \in 1..n /\ g[p] = h
  BY <1>2, IndexesLeadToEdge, Zenon
<1>4. o \in {"A", "B"} /\ VertexAtOuter(gr, h, o) = gr.eg[h].vv[e] /\ InnerEnd(gr, h, o) = e
  BY OuterEnds DEF End
<1>5. <<w, o>> \in EndSlots(gr)
  BY <1>1, <1>4 DEF EndSlots, End
<1>6. (o = "A" /\ p = 1) \/ (o = "B" /\ p = n)
         => EndEdge(gr, <<w, o>>) = h
  BY <1>2, <1>3, <1>4
<1>7. EndEdge(gr, <<w, o>>) = h
         => EndOf(<<w, o>>) = <<h, e>> /\ VertexAtEnd(gr, <<w, o>>) = gr.eg[h].vv[e]
  BY <1>4 DEF EndOf, VertexAtEnd
<1>8. \A k \in 1..n - 1 :
         /\ VertexAtOuter(gr, g[k], "B") = VertexAtOuter(gr, g[k + 1], "A")
         /\ VertexAtBulk(gr, w, k) = VertexAtOuter(gr, g[k + 1], "A")
  BY <1>1, InnerVertices
<1> HIDE DEF w, p, n, o, g
<1>9. ASSUME o = "A", p > 1
      PROVE  p - 1 \in 1..n - 1 /\ VertexAtBulk(gr, w, p - 1) = gr.eg[h].vv[e]
  <2>1. p - 1 \in 1..n - 1 /\ p - 1 + 1 = p
    BY <1>2, <1>3, <1>9
  <2> QED BY <1>3, <1>4, <1>8, <1>9, <2>1
<1>10. ASSUME o = "B", p < n
       PROVE  p \in 1..n - 1 /\ VertexAtBulk(gr, w, p) = gr.eg[h].vv[e]
  <2>1. p \in 1..n - 1
    BY <1>2, <1>3, <1>10
  <2> QED BY <1>3, <1>4, <1>8, <1>10, <2>1
<1> QED BY <1>1, <1>2, <1>3, <1>4, <1>5, <1>6, <1>7, <1>9, <1>10 DEF w, p, n, o, g

\* Inside a chain just two ends meet, of consecutive edges.
LEMMA EndsAtInnerVertex ==
  ASSUME TypeOK, EdgeIndexesAgree, DescriptorsAgree, ChainsAreMaximal,
         NEW w \in DOMAIN gr.cn, NEW a \in 1..Length(gr, w) - 1
  PROVE  LET h == gr.cn[w].g[a]
             k == gr.cn[w].g[a + 1]
         IN  /\ h \in H /\ k \in H /\ h # k
             /\ gr.eg[h].w = w /\ gr.eg[k].w = w /\ gr.eg[h].indw = a /\ gr.eg[k].indw = a + 1
             /\ InnerEnd(gr, h, "B") \in End /\ InnerEnd(gr, k, "A") \in End
             /\ VertexAtBulk(gr, w, a) \in V
             /\ EndsAt(VertexAtBulk(gr, w, a)) = {<<h, InnerEnd(gr, h, "B")>>, <<k, InnerEnd(gr, k, "A")>>}
<1> DEFINE n == Length(gr, w)
           h == gr.cn[w].g[a]
           k == gr.cn[w].g[a + 1]
           x == <<h, InnerEnd(gr, h, "B")>>
           y == <<k, InnerEnd(gr, k, "A")>>
           v == VertexAtBulk(gr, w, a)
<1>1. n \in Nat \ {0} /\ a \in 1..n /\ a + 1 \in 1..n /\ a # a + 1
  <2>1. n \in Nat \ {0}
    BY ChainsHoldEdges
  <2> HIDE DEF n
  <2> QED BY <2>1 DEF n
<1>2. /\ h \in H /\ k \in H /\ gr.eg[h].w = w /\ gr.eg[k].w = w
      /\ gr.eg[h].indw = a /\ gr.eg[k].indw = a + 1
  BY <1>1, ChainsHoldEdges, ZenonT(60)
<1>3. h # k
  BY <1>1, <1>2
<1>4. InnerEnd(gr, h, "B") \in End /\ InnerEnd(gr, k, "A") \in End
  BY DEF InnerEnd, Opp, End
<1>5. gr.eg[h].vv[InnerEnd(gr, h, "B")] = v /\ gr.eg[k].vv[InnerEnd(gr, k, "A")] = v
      /\ Cardinality(EndsAt(v)) = 2
  BY InnerVertices, Zenon DEF VertexAtOuter
<1>6. v \in V
  BY <1>2, <1>4, <1>5, EdgeTypes, Zenon DEF End
<1> HIDE DEF h, k, v
<1>7. x \in EndsAt(v) /\ y \in EndsAt(v) /\ x # y
  BY <1>2, <1>3, <1>4, <1>5 DEF EndsAt, Ends, VertexOf, H
<1>8. IsFiniteSet(EndsAt(v))
  BY EndsAreFinite
<1> HIDE DEF x, y
<1>9. EndsAt(v) = {x, y}
  BY <1>5, <1>7, <1>8, TwoElements
<1> QED BY <1>2, <1>3, <1>4, <1>6, <1>9 DEF h, k, v, x, y

\* A chain does not end at an inner vertex of a chain.
LEMMA EndIsNotInside ==
  ASSUME TypeOK, EdgeIndexesAgree, DescriptorsAgree, ChainsAreMaximal, NEW s \in EndSlots(gr),
         NEW w \in DOMAIN gr.cn, NEW a \in 1..Length(gr, w) - 1
  PROVE  VertexAtEnd(gr, s) # VertexAtBulk(gr, w, a)
<1> SUFFICES ASSUME VertexAtEnd(gr, s) = VertexAtBulk(gr, w, a) PROVE FALSE
  OBVIOUS
<1> DEFINE h == gr.cn[w].g[a]
           k == gr.cn[w].g[a + 1]
           f == EndEdge(gr, s)
           n == Length(gr, w)
<1>1. /\ h \in H /\ k \in H /\ h # k
      /\ gr.eg[h].w = w /\ gr.eg[k].w = w /\ gr.eg[h].indw = a /\ gr.eg[k].indw = a + 1
      /\ EndsAt(VertexAtBulk(gr, w, a)) = {<<h, InnerEnd(gr, h, "B")>>, <<k, InnerEnd(gr, k, "A")>>}
  BY EndsAtInnerVertex
<1>2. /\ s[2] \in {"A", "B"} /\ f \in H /\ gr.eg[f].w = s[1]
      /\ gr.eg[f].indw = IF s[2] = "A" THEN 1 ELSE Length(gr, s[1])
      /\ <<f, InnerEnd(gr, f, s[2])>> \in EndsAt(VertexAtEnd(gr, s))
  BY SlotsAreEnds DEF EndOf
<1>3. n \in Nat \ {0}
  BY ChainsHoldEdges
<1> HIDE DEF h, k, f
<1>4. \/ f = h /\ InnerEnd(gr, h, s[2]) = InnerEnd(gr, h, "B")
      \/ f = k /\ InnerEnd(gr, k, s[2]) = InnerEnd(gr, k, "A")
  BY <1>1, <1>2
<1>5. \A x \in H : InnerEnd(gr, x, "A") # InnerEnd(gr, x, "B")
  BY DEF InnerEnd, Opp
<1>6. CASE f = h /\ s[2] = "B"
  <2>1. a = n
    BY <1>1, <1>2, <1>6
  <2> HIDE DEF n
  <2> QED BY <1>3, <2>1 DEF n
<1>7. CASE f = k /\ s[2] = "A"
  <2>1. a + 1 = 1
    BY <1>1, <1>2, <1>7
  <2> HIDE DEF n
  <2> QED BY <1>3, <2>1 DEF n
<1> QED BY <1>1, <1>2, <1>4, <1>5, <1>6, <1>7

\* Where a chain ends, all edges are at the ends of their chains.
LEMMA EndsAtChainEnd ==
  ASSUME TypeOK, EdgeIndexesAgree, DescriptorsAgree, ChainsAreMaximal, NEW s \in EndSlots(gr),
         NEW h \in H, NEW e \in End, gr.eg[h].vv[e] = VertexAtEnd(gr, s)
  PROVE  LET t == <<gr.eg[h].w, OuterEnd(gr, h, e)>>
         IN  t \in EndSlots(gr) /\ EndOf(t) = <<h, e>> /\ EndEdge(gr, t) = h
             /\ VertexAtEnd(gr, t) = VertexAtEnd(gr, s)
<1> DEFINE w == gr.eg[h].w
           p == gr.eg[h].indw
           n == Length(gr, w)
           o == OuterEnd(gr, h, e)
<1>1. /\ w \in DOMAIN gr.cn /\ n \in Nat \ {0} /\ p \in 1..n /\ o \in {"A", "B"}
      /\ (o = "A" /\ p = 1) \/ (o = "B" /\ p = n)
           => /\ <<w, o>> \in EndSlots(gr) /\ EndOf(<<w, o>>) = <<h, e>>
              /\ EndEdge(gr, <<w, o>>) = h
              /\ VertexAtEnd(gr, <<w, o>>) = gr.eg[h].vv[e]
      /\ o = "A" /\ p > 1 => p - 1 \in 1..n - 1 /\ VertexAtBulk(gr, w, p - 1) = gr.eg[h].vv[e]
      /\ o = "B" /\ p < n => p \in 1..n - 1 /\ VertexAtBulk(gr, w, p) = gr.eg[h].vv[e]
  BY EndsOfEdgesAreEndsOrInside
<1>2. \A a \in 1..n - 1 : VertexAtBulk(gr, w, a) # VertexAtEnd(gr, s)
  BY <1>1, EndIsNotInside
<1> HIDE DEF w, p, n, o
<1>3. (o = "A" /\ p = 1) \/ (o = "B" /\ p = n)
  BY <1>1, <1>2
<1> QED BY <1>1, <1>3 DEF w, o

LEMMA EndsAreOfOneSlot ==
  ASSUME TypeOK, EdgeIndexesAgree,
         NEW t \in EndSlots(gr), NEW u \in EndSlots(gr), EndOf(t) = EndOf(u)
  PROVE  t = u
<1>1. EndEdge(gr, t) = EndEdge(gr, u)
      /\ InnerEnd(gr, EndEdge(gr, t), t[2]) = InnerEnd(gr, EndEdge(gr, u), u[2])
  BY DEF EndOf
<1>2. t[2] \in {"A", "B"} /\ t = <<t[1], t[2]>> /\ gr.eg[EndEdge(gr, t)].w = t[1]
  BY SlotsAreEnds
<1>3. u[2] \in {"A", "B"} /\ u = <<u[1], u[2]>> /\ gr.eg[EndEdge(gr, u)].w = u[1]
  BY SlotsAreEnds
<1>4. t[2] = u[2]
  BY <1>1, <1>2, <1>3 DEF InnerEnd, Opp
<1> QED BY <1>1, <1>2, <1>3, <1>4

-----------------------------------------------------------------------------
(* Adjacency                                                               *)

LEMMA ComponentOfVertex ==
  ASSUME EdgeIndexesAgree, DescriptorsAgree, NEW v \in V, NEW h \in H, NEW e \in End,
         gr.eg[h].vv[e] = v
  PROVE  gr.eg[h].c = gr.vx[v].c /\ gr.cn[gr.eg[h].w].c = gr.vx[v].c
<1> DEFINE d == <<h, e>>
<1>1. d \in EndsAt(v)
  BY DEF EndsAt, Ends, VertexOf, H
<1>2. \A x \in EndsAt(v) : gr.eg[x[1]].c = gr.vx[v].c
  BY DEF DescriptorsAgree, V
<1>3. gr.eg[h].c = gr.cn[gr.eg[h].w].c
  BY IndexesLeadToEdge
<1> QED BY <1>1, <1>2, <1>3

LEMMA NearIsByEdges ==
  ASSUME DescriptorsAgree, NEW u \in V, NEW v \in V
  PROVE  Near(u, v) <=>
           u = v \/ \E h \in H : \E e \in End, f \in End : gr.eg[h].vv[e] = u /\ gr.eg[h].vv[f] = v
<1>1. DOMAIN gr.vx[u].eds = EndsAt(u) /\ DOMAIN gr.vx[v].eds = EndsAt(v)
  BY DEF DescriptorsAgree, V
<1>2. CommonEdges(gr, u, v) # {} <=> \E x \in EndsAt(u) : \E y \in EndsAt(v) : y[1] = x[1]
  BY <1>1 DEF CommonEdges
<1>3. ASSUME NEW x \in EndsAt(u), NEW y \in EndsAt(v), y[1] = x[1]
      PROVE  \E h \in H : \E e \in End, f \in End : gr.eg[h].vv[e] = u /\ gr.eg[h].vv[f] = v
  <2>1. /\ x[1] \in H /\ x[2] \in End /\ gr.eg[x[1]].vv[x[2]] = u
        /\ y[2] \in End /\ gr.eg[y[1]].vv[y[2]] = v
    BY DEF EndsAt, Ends, VertexOf, H
  <2> QED BY <1>3, <2>1
<1>4. ASSUME NEW h \in H, NEW e \in End, NEW f \in End, gr.eg[h].vv[e] = u, gr.eg[h].vv[f] = v
      PROVE  \E x \in EndsAt(u) : \E y \in EndsAt(v) : y[1] = x[1]
  <2> DEFINE x == <<h, e>>
             y == <<h, f>>
  <2>1. x \in EndsAt(u) /\ y \in EndsAt(v)
    BY <1>4 DEF EndsAt, Ends, VertexOf, H
  <2>2. x[1] = y[1]
    OBVIOUS
  <2> QED BY <2>1, <2>2
<1> QED BY <1>2, <1>3, <1>4 DEF Near

\* The two ends of a chain of one edge.
LEMMA ShortChains ==
  ASSUME TypeOK, EdgeIndexesAgree, NEW s \in EndSlots(gr)
  PROVE  /\ IsShort(gr, s[1]) <=> EndEdge(gr, s) = EndEdge(gr, OppSlot(s))
         /\ \A t \in EndSlots(gr) : EndEdge(gr, s) = EndEdge(gr, t)
              => t = s \/ (t = OppSlot(s) /\ IsShort(gr, s[1]))
<1> DEFINE w == s[1]
           n == Length(gr, w)
<1>1. /\ w \in DOMAIN gr.cn /\ s[2] \in {"A", "B"} /\ s = <<w, s[2]>>
      /\ OppSlot(s) \in EndSlots(gr)
  BY SlotsAreEnds
<1>2. /\ n \in Nat \ {0}
      /\ EndEdge(gr, <<w, "A">>) = gr.cn[w].g[1] /\ EndEdge(gr, <<w, "B">>) = gr.cn[w].g[n]
      /\ \A a \in 1..n : gr.eg[gr.cn[w].g[a]].indw = a
  BY <1>1, ChainsHoldEdges
<1>3. 1 \in 1..n /\ n \in 1..n
  BY <1>2
<1>4. EndEdge(gr, <<w, "A">>) = EndEdge(gr, <<w, "B">>) <=> n = 1
  BY <1>2, <1>3
<1>5. IsShort(gr, w) <=> n = 1
  BY <1>2 DEF IsShort
<1>6. \/ s = <<w, "A">> /\ OppSlot(s) = <<w, "B">>
      \/ s = <<w, "B">> /\ OppSlot(s) = <<w, "A">>
  BY <1>1 DEF OppSlot, Opp
<1>7. ASSUME NEW t \in EndSlots(gr), EndEdge(gr, s) = EndEdge(gr, t)
      PROVE  t = s \/ (t = OppSlot(s) /\ IsShort(gr, s[1]))
  <2>1. gr.eg[EndEdge(gr, s)].w = s[1]
    BY SlotsAreEnds
  <2>2. gr.eg[EndEdge(gr, t)].w = t[1] /\ t[2] \in {"A", "B"} /\ t = <<t[1], t[2]>>
    BY SlotsAreEnds
  <2>3. t = <<w, "A">> \/ t = <<w, "B">>
    BY <1>7, <2>1, <2>2
  <2> QED BY <1>4, <1>5, <1>6, <1>7, <2>3
<1> QED BY <1>4, <1>5, <1>6, <1>7

\* Every end of a chain is at an edge that has the two vertices of a short chain.
LEMMA ShortChainsJoin ==
  ASSUME TypeOK, EdgeIndexesAgree, DescriptorsAgree, NEW s \in EndSlots(gr), IsShort(gr, s[1])
  PROVE  Near(VertexAtEnd(gr, s), VertexAtEnd(gr, OppSlot(s)))
<1> DEFINE t == OppSlot(s)
           h == EndEdge(gr, s)
<1>1. t \in EndSlots(gr) /\ EndEdge(gr, t) = h
  BY ShortChains, SlotsAreEnds
<1>2. h \in H /\ InnerEnd(gr, h, s[2]) \in End /\ VertexAtEnd(gr, s) \in V
  BY SlotsAreEnds
<1>3. InnerEnd(gr, h, t[2]) \in End /\ VertexAtEnd(gr, t) \in V
  <2>1. InnerEnd(gr, EndEdge(gr, t), t[2]) \in End /\ VertexAtEnd(gr, t) \in V
    BY <1>1, SlotsAreEnds
  <2> QED BY <1>1, <2>1
<1>4. VertexAtEnd(gr, s) = gr.eg[h].vv[InnerEnd(gr, h, s[2])]
      /\ VertexAtEnd(gr, t) = gr.eg[h].vv[InnerEnd(gr, h, t[2])]
  BY <1>1 DEF VertexAtEnd, VertexAtOuter
<1> HIDE DEF h, t
<1>5. Near(VertexAtEnd(gr, s), VertexAtEnd(gr, t))
  BY <1>2, <1>3, <1>4, NearIsByEdges
<1> QED BY <1>5 DEF t

\* Two different vertices at chain ends that an edge joins: it is a chain of its own.
LEMMA JoinedEnds ==
  ASSUME TypeOK, EdgeIndexesAgree, DescriptorsAgree, ChainsAreMaximal,
         NEW s \in EndSlots(gr), NEW t \in EndSlots(gr),
         VertexAtEnd(gr, s) # VertexAtEnd(gr, t),
         Near(VertexAtEnd(gr, s), VertexAtEnd(gr, t))
  PROVE  \E x \in EndSlots(gr) :
           /\ IsShort(gr, x[1])
           /\ VertexAtEnd(gr, x) = VertexAtEnd(gr, s)
           /\ VertexAtEnd(gr, OppSlot(x)) = VertexAtEnd(gr, t)
<1> DEFINE u == VertexAtEnd(gr, s)
           v == VertexAtEnd(gr, t)
<1>1. u \in V /\ v \in V
  BY SlotsAreEnds
<1>2. PICK h \in H : \E e \in End, f \in End : gr.eg[h].vv[e] = u /\ gr.eg[h].vv[f] = v
  BY <1>1, NearIsByEdges
<1>3. PICK e \in End, f \in End : gr.eg[h].vv[e] = u /\ gr.eg[h].vv[f] = v
  BY <1>2
<1> DEFINE x == <<gr.eg[h].w, OuterEnd(gr, h, e)>>
           y == <<gr.eg[h].w, OuterEnd(gr, h, f)>>
<1>4. x \in EndSlots(gr) /\ EndEdge(gr, x) = h /\ VertexAtEnd(gr, x) = u
  BY <1>3, EndsAtChainEnd
<1>5. y \in EndSlots(gr) /\ EndEdge(gr, y) = h /\ VertexAtEnd(gr, y) = v
  BY <1>3, EndsAtChainEnd
<1> HIDE DEF x, y
<1>6. y = OppSlot(x) /\ IsShort(gr, x[1])
  BY <1>4, <1>5, ShortChains
<1> QED BY <1>4, <1>5, <1>6

\* Chain ends at one vertex are of one component.
LEMMA ComponentOfEnd ==
  ASSUME TypeOK, EdgeIndexesAgree, DescriptorsAgree, NEW s \in EndSlots(gr)
  PROVE  gr.cn[s[1]].c = gr.vx[VertexAtEnd(gr, s)].c
<1> DEFINE h == EndEdge(gr, s)
           e == InnerEnd(gr, h, s[2])
<1>1. h \in H /\ e \in End /\ VertexAtEnd(gr, s) \in V /\ gr.eg[h].w = s[1]
  BY SlotsAreEnds
<1>2. gr.eg[h].vv[e] = VertexAtEnd(gr, s)
  BY DEF VertexAtEnd, VertexAtOuter
<1> HIDE DEF h, e
<1>3. gr.cn[gr.eg[h].w].c = gr.vx[VertexAtEnd(gr, s)].c
  BY <1>1, <1>2, ComponentOfVertex
<1> QED BY <1>1, <1>3

LEMMA NgsAreSlots ==
  ASSUME TypeOK, NEW s \in EndSlots(gr)
  PROVE  Ngs(gr, s) \subseteq EndSlots(gr)
<1>1. PICK G, N, W, C : gr.cn \in Seq([g : G, ngs : [A : SUBSET EndSlots(gr), B : SUBSET EndSlots(gr)],
                                         idw : W, idc : N, c : C])
  BY DEF TypeOK
<1> DEFINE R == [g : G, ngs : [A : SUBSET EndSlots(gr), B : SUBSET EndSlots(gr)],
                 idw : W, idc : N, c : C]
           m == gr.cn[s[1]]
<1>2. gr.cn \in Seq(R)
  BY <1>1
<1>3. s[1] \in DOMAIN gr.cn /\ s[2] \in {"A", "B"}
  BY DEF EndSlots, End
<1> HIDE DEF R, m
<1>4. s[1] \in 1..Len(gr.cn)
  BY <1>2, <1>3
<1>5. m \in R
  BY <1>2, <1>4, ElementOfSeq DEF m
<1>6. m.ngs \in [A : SUBSET EndSlots(gr), B : SUBSET EndSlots(gr)]
  BY <1>5 DEF R
<1> DEFINE q == m.ngs
<1>7. q["A"] \subseteq EndSlots(gr) /\ q["B"] \subseteq EndSlots(gr)
  <2> HIDE DEF q
  <2>1. q \in [A : SUBSET EndSlots(gr), B : SUBSET EndSlots(gr)]
    BY <1>6 DEF q
  <2> QED BY <2>1
<1> QED BY <1>3, <1>7 DEF Ngs, q, m

LEMMA EndsAdjacentByRecords ==
  ASSUME TypeOK, EdgeIndexesAgree, DescriptorsAgree, NeighboursShareVertex, ChainsAreMaximal,
         NEW s \in EndSlots(gr), NEW t \in EndSlots(gr), s[1] # t[1]
  PROVE  EndsAdjacent(gr, s, t) <=> Near(VertexAtEnd(gr, s), VertexAtEnd(gr, t))
<1> DEFINE At(x) == VertexAtEnd(gr, x)
<1>1. \A x, y \in EndSlots(gr) : y \in Ngs(gr, x) <=> x # y /\ At(x) = At(y)
  BY DEF NeighboursShareVertex
<1>2. \A x \in EndSlots(gr) : /\ OppSlot(x) \in EndSlots(gr) /\ OppSlot(x)[1] = x[1]
                              /\ OppSlot(OppSlot(x)) = x /\ At(x) \in V
                              /\ gr.cn[x[1]].c = gr.vx[At(x)].c
                              /\ x[2] \in {"A", "B"} /\ x = <<x[1], x[2]>>
  <2> SUFFICES ASSUME NEW x \in EndSlots(gr)
               PROVE  /\ OppSlot(x) \in EndSlots(gr) /\ OppSlot(x)[1] = x[1]
                      /\ OppSlot(OppSlot(x)) = x /\ At(x) \in V
                      /\ gr.cn[x[1]].c = gr.vx[At(x)].c
                      /\ x[2] \in {"A", "B"} /\ x = <<x[1], x[2]>>
    OBVIOUS
  <2>1. OppSlot(x) \in EndSlots(gr) /\ At(x) \in V /\ x[2] \in {"A", "B"} /\ x = <<x[1], x[2]>>
    BY SlotsAreEnds
  <2>2. gr.cn[x[1]].c = gr.vx[At(x)].c
    BY ComponentOfEnd
  <2>3. OppSlot(x)[1] = x[1] /\ OppSlot(OppSlot(x)) = x
    BY <2>1 DEF OppSlot, Opp
  <2> QED BY <2>1, <2>2, <2>3
<1>3. \A x \in EndSlots(gr) : Ngs(gr, x) \subseteq EndSlots(gr)
  BY NgsAreSlots
<1>4. EndsAdjacent(gr, s, t) <=>
        /\ SameComponent(gr, s[1], t[1])
        /\ \/ \E n \in Ngs(gr, s) :
                \/ n[1] = t[1] /\ (n[2] = t[2] \/ IsShort(gr, n[1]))
                \/ n[1] # t[1] /\ IsShort(gr, n[1]) /\ t \in Ngs(gr, OppSlot(n))
           \/ IsShort(gr, s[1]) /\ t \in Ngs(gr, OppSlot(s))
  BY DEF EndsAdjacent
<1>5. \A x \in EndSlots(gr) : IsShort(gr, x[1]) => Near(At(x), At(OppSlot(x)))
  BY ShortChainsJoin
<1>6. ASSUME EndsAdjacent(gr, s, t) PROVE Near(At(s), At(t))
  <2>1. CASE IsShort(gr, s[1]) /\ t \in Ngs(gr, OppSlot(s))
    <3>1. At(OppSlot(s)) = At(t)
      BY <1>1, <1>2, <2>1
    <3>2. Near(At(s), At(OppSlot(s)))
      BY <1>5, <2>1
    <3> QED BY <3>1, <3>2
  <2>2. CASE \E n \in Ngs(gr, s) :
               \/ n[1] = t[1] /\ (n[2] = t[2] \/ IsShort(gr, n[1]))
               \/ n[1] # t[1] /\ IsShort(gr, n[1]) /\ t \in Ngs(gr, OppSlot(n))
    <3>1. PICK n \in Ngs(gr, s) :
               \/ n[1] = t[1] /\ (n[2] = t[2] \/ IsShort(gr, n[1]))
               \/ n[1] # t[1] /\ IsShort(gr, n[1]) /\ t \in Ngs(gr, OppSlot(n))
      BY <2>2
    <3>2. n \in EndSlots(gr) /\ At(n) = At(s)
      BY <1>1, <1>3
    <3>3. CASE n[1] = t[1] /\ n[2] = t[2]
      <4>1. n = t
        BY <1>2, <3>2, <3>3
      <4> QED BY <3>2, <4>1 DEF Near
    <3>4. CASE n[1] = t[1] /\ n[2] # t[2] /\ IsShort(gr, n[1])
      <4>1. t = OppSlot(n)
        <5>1. n[2] \in {"A", "B"} /\ n = <<n[1], n[2]>>
          BY <1>2, <3>2
        <5>2. t[2] \in {"A", "B"} /\ t = <<t[1], t[2]>>
          BY <1>2
        <5> QED BY <3>4, <5>1, <5>2 DEF OppSlot, Opp
      <4> QED BY <1>5, <3>2, <3>4, <4>1
    <3>5. CASE n[1] # t[1] /\ IsShort(gr, n[1]) /\ t \in Ngs(gr, OppSlot(n))
      <4>1. At(OppSlot(n)) = At(t)
        BY <1>1, <1>2, <3>2, <3>5
      <4>2. Near(At(n), At(OppSlot(n)))
        BY <1>5, <3>2, <3>5
      <4> QED BY <3>2, <4>1, <4>2
    <3> QED BY <3>1, <3>3, <3>4, <3>5
  <2> QED BY <1>4, <1>6, <2>1, <2>2
<1>7. ASSUME Near(At(s), At(t)) PROVE EndsAdjacent(gr, s, t)
  <2>1. CASE At(s) = At(t)
    <3>1. t \in Ngs(gr, s)
      BY <1>1, <2>1
    <3>2. SameComponent(gr, s[1], t[1])
      BY <1>2, <2>1 DEF SameComponent
    <3> QED BY <1>4, <3>1, <3>2
  <2>2. CASE At(s) # At(t)
    <3>1. PICK x \in EndSlots(gr) : IsShort(gr, x[1]) /\ At(x) = At(s) /\ At(OppSlot(x)) = At(t)
      BY <1>7, <2>2, JoinedEnds
    <3> DEFINE y == OppSlot(x)
    <3>2. y \in EndSlots(gr) /\ y[1] = x[1]
      BY <1>2
    <3>3. gr.cn[s[1]].c = gr.cn[x[1]].c /\ gr.cn[t[1]].c = gr.cn[y[1]].c
      BY <1>2, <3>1, <3>2
    <3>4. SameComponent(gr, s[1], t[1])
      BY <3>2, <3>3 DEF SameComponent
    <3> HIDE DEF y
    <3>5. y = t \/ t \in Ngs(gr, y)
      BY <1>1, <3>1, <3>2 DEF y
    <3>6. CASE x = s
      <4>1. y # t
        BY <3>2, <3>6
      <4> QED BY <1>4, <3>1, <3>4, <3>5, <3>6, <4>1 DEF y
    <3>7. CASE x # s
      <4>1. x \in Ngs(gr, s)
        BY <1>1, <3>1, <3>7
      <4>2. CASE y = t
        BY <1>4, <3>1, <3>2, <3>4, <4>1, <4>2
      <4>3. CASE y # t
        <5>1. t \in Ngs(gr, OppSlot(x))
          BY <3>5, <4>3 DEF y
        <5> QED BY <1>4, <3>1, <3>4, <4>1, <5>1
      <4> QED BY <4>2, <4>3
    <3> QED BY <3>6, <3>7
  <2> QED BY <2>1, <2>2
<1> QED BY <1>6, <1>7

LEMMA BulksAdjacentByRecords ==
  ASSUME TypeOK, EdgeIndexesAgree, DescriptorsAgree, ChainsAreMaximal,
         NEW w \in DOMAIN gr.cn, NEW a \in 1..Length(gr, w) - 1,
         NEW m \in DOMAIN gr.cn, NEW b \in 1..Length(gr, m) - 1
  PROVE  BulksAdjacent(<<w, a>>, <<m, b>>) <=> Near(VertexAtBulk(gr, w, a), VertexAtBulk(gr, m, b))
<1> DEFINE h1 == gr.cn[w].g[a]
           k1 == gr.cn[w].g[a + 1]
           h2 == gr.cn[m].g[b]
           k2 == gr.cn[m].g[b + 1]
           u == VertexAtBulk(gr, w, a)
           v == VertexAtBulk(gr, m, b)
<1>1. /\ h1 \in H /\ k1 \in H /\ h1 # k1
      /\ gr.eg[h1].w = w /\ gr.eg[k1].w = w /\ gr.eg[h1].indw = a /\ gr.eg[k1].indw = a + 1
      /\ InnerEnd(gr, h1, "B") \in End /\ InnerEnd(gr, k1, "A") \in End
      /\ u \in V
      /\ EndsAt(u) = {<<h1, InnerEnd(gr, h1, "B")>>, <<k1, InnerEnd(gr, k1, "A")>>}
  BY EndsAtInnerVertex
<1>2. /\ h2 \in H /\ k2 \in H /\ h2 # k2
      /\ gr.eg[h2].w = m /\ gr.eg[k2].w = m /\ gr.eg[h2].indw = b /\ gr.eg[k2].indw = b + 1
      /\ InnerEnd(gr, h2, "B") \in End /\ InnerEnd(gr, k2, "A") \in End
      /\ v \in V
      /\ EndsAt(v) = {<<h2, InnerEnd(gr, h2, "B")>>, <<k2, InnerEnd(gr, k2, "A")>>}
  BY EndsAtInnerVertex
<1>3. a \in Nat /\ b \in Nat
  <2>1. Length(gr, w) \in Nat /\ Length(gr, m) \in Nat
    BY ChainsHoldEdges
  <2> QED BY <2>1
<1>4. w = m /\ a = b => u = v
  OBVIOUS
<1>5. w = m /\ a = b + 1 => h1 = k2
  OBVIOUS
<1>6. w = m /\ b = a + 1 => h2 = k1
  OBVIOUS
<1> HIDE DEF h1, k1, h2, k2, u, v
<1>7. Near(u, v) <=>
        u = v \/ \E h \in H : \E e \in End, f \in End : gr.eg[h].vv[e] = u /\ gr.eg[h].vv[f] = v
  BY <1>1, <1>2, NearIsByEdges
<1>8. \A h \in H, e \in End, x \in V : gr.eg[h].vv[e] = x <=> <<h, e>> \in EndsAt(x)
  BY DEF EndsAt, Ends, VertexOf, H
<1>9. BulksAdjacent(<<w, a>>, <<m, b>>) <=> w = m /\ (a = b \/ a = b + 1 \/ b = a + 1)
  BY DEF BulksAdjacent
<1>10. ASSUME w = m, a = b \/ a = b + 1 \/ b = a + 1 PROVE Near(u, v)
  <2>1. CASE a = b
    BY <1>4, <1>7, <1>10, <2>1
  <2>2. CASE a = b + 1
    <3>1. gr.eg[h1].vv[InnerEnd(gr, h1, "B")] = u
      BY <1>1, <1>8
    <3>2. gr.eg[k2].vv[InnerEnd(gr, k2, "A")] = v
      BY <1>2, <1>8
    <3> QED BY <1>1, <1>2, <1>5, <1>7, <1>10, <2>2, <3>1, <3>2
  <2>3. CASE b = a + 1
    <3>1. gr.eg[k1].vv[InnerEnd(gr, k1, "A")] = u
      BY <1>1, <1>8
    <3>2. gr.eg[h2].vv[InnerEnd(gr, h2, "B")] = v
      BY <1>2, <1>8
    <3> QED BY <1>1, <1>2, <1>6, <1>7, <1>10, <2>3, <3>1, <3>2
  <2> QED BY <1>10, <2>1, <2>2, <2>3
<1>11. ASSUME Near(u, v) PROVE w = m /\ (a = b \/ a = b + 1 \/ b = a + 1)
  <2>1. \E h \in H : (h = h1 \/ h = k1) /\ (h = h2 \/ h = k2)
    <3> DEFINE p1 == InnerEnd(gr, h1, "B")
               q1 == InnerEnd(gr, k1, "A")
               p2 == InnerEnd(gr, h2, "B")
               q2 == InnerEnd(gr, k2, "A")
    <3>3. EndsAt(u) = {<<h1, p1>>, <<k1, q1>>} /\ EndsAt(v) = {<<h2, p2>>, <<k2, q2>>}
      BY <1>1, <1>2
    <3> HIDE DEF p1, q1, p2, q2
    <3>1. CASE u = v
      <4>1. <<h1, p1>> \in {<<h2, p2>>, <<k2, q2>>}
        BY <3>1, <3>3
      <4> QED BY <1>1, <4>1
    <3>2. CASE u # v
      <4>1. PICK h \in H : \E e \in End, f \in End : gr.eg[h].vv[e] = u /\ gr.eg[h].vv[f] = v
        BY <1>7, <1>11, <3>2
      <4>2. PICK e \in End, f \in End : gr.eg[h].vv[e] = u /\ gr.eg[h].vv[f] = v
        BY <4>1
      <4>3. <<h, e>> \in EndsAt(u)
        BY <4>2 DEF EndsAt, Ends, VertexOf, H
      <4>4. <<h, f>> \in EndsAt(v)
        BY <4>2 DEF EndsAt, Ends, VertexOf, H
      <4> QED BY <3>3, <4>3, <4>4
    <3> QED BY <3>1, <3>2
  <2>2. PICK h \in H : (h = h1 \/ h = k1) /\ (h = h2 \/ h = k2)
    BY <2>1
  <2>3. gr.eg[h].w = w /\ (gr.eg[h].indw = a \/ gr.eg[h].indw = a + 1)
    BY <1>1, <2>2
  <2>4. gr.eg[h].w = m /\ (gr.eg[h].indw = b \/ gr.eg[h].indw = b + 1)
    BY <1>2, <2>2
  <2> QED BY <1>3, <2>3, <2>4
<1>12. BulksAdjacent(<<w, a>>, <<m, b>>) <=> Near(u, v)
  BY <1>9, <1>10, <1>11
<1> QED BY <1>12 DEF u, v

\* An end and an inner vertex are taken for adjacent exactly when they are near.
LEMMA EndAndBulkByRecords ==
  ASSUME TypeOK, EdgeIndexesAgree, DescriptorsAgree, NeighboursShareVertex, ChainsAreMaximal,
         NEW s \in EndSlots(gr), NEW w \in DOMAIN gr.cn, NEW a \in 1..Length(gr, w) - 1
  PROVE  EndAndBulkAdjacent(gr, s, <<w, a>>) <=> Near(VertexAtEnd(gr, s), VertexAtBulk(gr, w, a))
<1> DEFINE At(x) == VertexAtEnd(gr, x)
           n == Length(gr, w)
           h == gr.cn[w].g[a]
           k == gr.cn[w].g[a + 1]
           v == VertexAtBulk(gr, w, a)
           sA == <<w, "A">>
           sB == <<w, "B">>
           first == a = 1
           last == a = n - 1
           p == InnerEnd(gr, h, "B")
           q == InnerEnd(gr, k, "A")
<1>1. /\ h \in H /\ k \in H /\ h # k
      /\ gr.eg[h].w = w /\ gr.eg[k].w = w /\ gr.eg[h].indw = a /\ gr.eg[k].indw = a + 1
      /\ p \in End /\ q \in End
      /\ v \in V /\ EndsAt(v) = {<<h, p>>, <<k, q>>}
  BY EndsAtInnerVertex
<1>2. /\ n \in Nat \ {0}
      /\ EndEdge(gr, sA) = gr.cn[w].g[1] /\ EndEdge(gr, sB) = gr.cn[w].g[n]
  BY ChainsHoldEdges
<1>3. a \in Nat /\ 1 <= a /\ a < n
  BY <1>2
<1>4. sA \in EndSlots(gr) /\ sB \in EndSlots(gr)
  BY DEF EndSlots, End
<1>5. /\ At(s) \in V /\ At(sA) \in V /\ At(sB) \in V /\ At(s) # v /\ At(sA) # v
  BY <1>4, SlotsAreEnds, EndIsNotInside
<1>6. \A x \in EndSlots(gr) : s \in Ngs(gr, x) <=> x # s /\ At(x) = At(s)
  BY DEF NeighboursShareVertex
<1>7. /\ HasSuchNeig(gr, sA, w) <=> At(sA) = At(sB)
      /\ s[1] = w => s = sA \/ s = sB
  <2>1. sA # sB
    OBVIOUS
  <2>2. sB \in Ngs(gr, sA) <=> At(sA) = At(sB)
    BY <1>4, <2>1 DEF NeighboursShareVertex
  <2>3. ASSUME NEW x \in Ngs(gr, sA), x[1] = w PROVE x = sB
    <3>1. x \in EndSlots(gr)
      BY <1>4, NgsAreSlots
    <3>2. x # sA
      BY <1>4, <2>3, <3>1 DEF NeighboursShareVertex
    <3>3. x[2] \in {"A", "B"} /\ x = <<x[1], x[2]>>
      BY <3>1 DEF EndSlots, End
    <3> QED BY <2>3, <3>2, <3>3
  <2>4. sB[1] = w
    OBVIOUS
  <2>5. s[2] \in {"A", "B"} /\ s = <<s[1], s[2]>>
    BY DEF EndSlots, End
  <2>6. s[1] = w => s = sA \/ s = sB
    BY <2>5
  <2> QED BY <2>2, <2>3, <2>4, <2>6 DEF HasSuchNeig
<1>8. EndAndBulkAdjacent(gr, s, <<w, a>>) <=>
        \/ s = sA /\ first
        \/ s = sB /\ last
        \/ s[1] = w /\ At(sA) = At(sB) /\ (first \/ last)
        \/ /\ s[1] # w /\ SameComponent(gr, s[1], w)
           /\ \/ first /\ s \in Ngs(gr, sA)
              \/ last /\ s \in Ngs(gr, sB)
  <2>1. s[2] \in {"A", "B"} /\ s = <<s[1], s[2]>>
    BY DEF EndSlots, End
  <2>2. EndAndBulkAdjacent(gr, s, <<w, a>>) <=>
          IF s[1] = w
          THEN \/ s[2] = "A" /\ first
               \/ s[2] = "B" /\ last
               \/ HasSuchNeig(gr, <<s[1], "A">>, s[1]) /\ (first \/ last)
          ELSE /\ SameComponent(gr, s[1], w)
               /\ \/ first /\ s \in Ngs(gr, sA)
                  \/ last /\ s \in Ngs(gr, sB)
    BY DEF EndAndBulkAdjacent
  <2>3. CASE s[1] = w
    <3>1. s = sA <=> s[2] = "A"
      BY <2>1, <2>3
    <3>2. s = sB <=> s[2] = "B"
      BY <2>1, <2>3
    <3> HIDE DEF sA, sB, first, last, At
    <3> QED BY <1>7, <2>2, <2>3, <3>1, <3>2 DEF sA
  <2>4. CASE s[1] # w
    <3>1. s # sA /\ s # sB
      BY <2>4
    <3> HIDE DEF sA, sB, first, last, At
    <3> QED BY <2>2, <2>4, <3>1
  <2> QED BY <2>3, <2>4
<1>9. s[1] # w => (At(s) = At(sA) \/ At(s) = At(sB) => SameComponent(gr, s[1], w))
  <2>1. gr.cn[s[1]].c = gr.vx[At(s)].c
    BY ComponentOfEnd
  <2>2. gr.cn[sA[1]].c = gr.vx[At(sA)].c
    BY <1>4, ComponentOfEnd
  <2>3. gr.cn[sB[1]].c = gr.vx[At(sB)].c
    BY <1>4, ComponentOfEnd
  <2> QED BY <2>1, <2>2, <2>3 DEF SameComponent
<1>10. EndAndBulkAdjacent(gr, s, <<w, a>>) <=>
         (first /\ At(s) = At(sA)) \/ (last /\ At(s) = At(sB))
  <2>1. s # sA => (s \in Ngs(gr, sA) <=> At(sA) = At(s))
    BY <1>4, <1>6
  <2>2. s # sB => (s \in Ngs(gr, sB) <=> At(sB) = At(s))
    BY <1>4, <1>6
  <2>3. s[1] = w <=> s = sA \/ s = sB
    BY <1>7
  <2> HIDE DEF sA, sB, first, last, At
  <2> QED BY <1>8, <1>9, <2>1, <2>2, <2>3
<1>11. Near(At(s), v) <=>
         \E f \in H : \E e \in End, d \in End : gr.eg[f].vv[e] = At(s) /\ gr.eg[f].vv[d] = v
  BY <1>1, <1>5, NearIsByEdges
<1>12. /\ gr.eg[h].vv[p] = v /\ gr.eg[k].vv[q] = v
       /\ \A f \in H : \A d \in End : gr.eg[f].vv[d] = v => (f = h /\ d = p) \/ (f = k /\ d = q)
  <2> HIDE DEF h, k, v, p, q
  <2>1. <<h, p>> \in EndsAt(v) /\ <<k, q>> \in EndsAt(v)
    BY <1>1
  <2>2. \A f \in H : \A d \in End : gr.eg[f].vv[d] = v => <<f, d>> \in EndsAt(v)
    BY DEF EndsAt, Ends, VertexOf, H
  <2>3. gr.eg[h].vv[p] = v /\ gr.eg[k].vv[q] = v
    BY <2>1 DEF EndsAt, VertexOf
  <2>4. ASSUME NEW f \in H, NEW d \in End, gr.eg[f].vv[d] = v
        PROVE  (f = h /\ d = p) \/ (f = k /\ d = q)
    <3>1. <<f, d>> \in {<<h, p>>, <<k, q>>}
      BY <1>1, <2>2, <2>4
    <3> QED BY <3>1
  <2> QED BY <2>3, <2>4
<1>13. /\ first => gr.eg[h].vv[InnerEnd(gr, h, "A")] = At(sA) /\ InnerEnd(gr, h, "A") \in End
       /\ last => gr.eg[k].vv[InnerEnd(gr, k, "B")] = At(sB) /\ InnerEnd(gr, k, "B") \in End
  <2>1. InnerEnd(gr, h, "A") \in End /\ InnerEnd(gr, k, "B") \in End
    BY DEF InnerEnd, Opp, End
  <2>2. first => EndEdge(gr, sA) = h
    BY <1>2
  <2>3. last => EndEdge(gr, sB) = k
    <3>1. last => a + 1 = n
      <4> HIDE DEF n
      <4> QED BY <1>2 DEF n
    <3> QED BY <1>2, <3>1
  <2> HIDE DEF h, k, first, last
  <2> QED BY <2>1, <2>2, <2>3 DEF VertexAtEnd, VertexAtOuter
<1>14. ASSUME (first /\ At(s) = At(sA)) \/ (last /\ At(s) = At(sB)) PROVE Near(At(s), v)
  <2> HIDE DEF h, k, first, last, At, v, p, q
  <2> QED BY <1>1, <1>11, <1>12, <1>13, <1>14
<1>15. ASSUME Near(At(s), v) PROVE (first /\ At(s) = At(sA)) \/ (last /\ At(s) = At(sB))
  <2>1. PICK f \in H : \E e \in End, d \in End : gr.eg[f].vv[e] = At(s) /\ gr.eg[f].vv[d] = v
    BY <1>11, <1>15
  <2>2. PICK e \in End : gr.eg[f].vv[e] = At(s)
    BY <2>1
  <2>3. f = h \/ f = k
    BY <1>12, <2>1
  <2> DEFINE t == <<gr.eg[f].w, OuterEnd(gr, f, e)>>
  <2>4. t \in EndSlots(gr) /\ EndEdge(gr, t) = f /\ At(t) = At(s)
    BY <2>2, EndsAtChainEnd
  <2>5. gr.eg[f].w = w
    BY <1>1, <2>3
  <2>6. t = sA \/ t = sB
    BY <2>4, <2>5 DEF EndSlots, End
  <2>7. gr.eg[EndEdge(gr, sA)].indw = 1 /\ gr.eg[EndEdge(gr, sB)].indw = n
    <3>1. gr.eg[EndEdge(gr, sA)].indw = IF sA[2] = "A" THEN 1 ELSE Length(gr, sA[1])
      BY <1>4, SlotsAreEnds
    <3>2. gr.eg[EndEdge(gr, sB)].indw = IF sB[2] = "A" THEN 1 ELSE Length(gr, sB[1])
      BY <1>4, SlotsAreEnds
    <3> QED BY <3>1, <3>2
  <2>8. gr.eg[f].indw = a \/ gr.eg[f].indw = a + 1
    BY <1>1, <2>3
  <2> HIDE DEF t, n, h, k, v
  <2>9. CASE t = sA
    <3>1. a = 1
      BY <1>3, <2>4, <2>7, <2>8, <2>9
    <3> QED BY <2>4, <2>9, <3>1
  <2>10. CASE t = sB
    <3>1. a = n - 1
      BY <1>2, <1>3, <2>4, <2>7, <2>8, <2>10
    <3> QED BY <2>4, <2>10, <3>1
  <2> QED BY <2>6, <2>9, <2>10
<1> QED BY <1>10, <1>14, <1>15

LEMMA BulkSlotsArePlaces ==
  ASSUME NEW b \in BulkSlots(gr)
  PROVE  \E w \in DOMAIN gr.cn : \E a \in 1..Length(gr, w) - 1 : b = <<w, a>>
BY DEF BulkSlots

LEMMA AdjacencyFromRecords ==
  ASSUME TypeOK, EdgeIndexesAgree, DescriptorsAgree, NeighboursShareVertex, ChainsAreMaximal
  PROVE  AdjacencyIsByEdges
<1>1. ASSUME NEW s \in EndSlots(gr), NEW t \in EndSlots(gr), s[1] # t[1]
      PROVE  EndsAdjacent(gr, s, t) <=> Near(VertexAtEnd(gr, s), VertexAtEnd(gr, t))
  BY <1>1, EndsAdjacentByRecords
<1>2. ASSUME NEW b1 \in BulkSlots(gr), NEW b2 \in BulkSlots(gr)
      PROVE  BulksAdjacent(b1, b2) <=>
               Near(VertexAtBulk(gr, b1[1], b1[2]), VertexAtBulk(gr, b2[1], b2[2]))
  <2>1. PICK w \in DOMAIN gr.cn : \E a \in 1..Length(gr, w) - 1 : b1 = <<w, a>>
    BY BulkSlotsArePlaces
  <2>2. PICK a \in 1..Length(gr, w) - 1 : b1 = <<w, a>>
    BY <2>1
  <2>3. PICK m \in DOMAIN gr.cn : \E b \in 1..Length(gr, m) - 1 : b2 = <<m, b>>
    BY BulkSlotsArePlaces
  <2>4. PICK b \in 1..Length(gr, m) - 1 : b2 = <<m, b>>
    BY <2>3
  <2>5. BulksAdjacent(<<w, a>>, <<m, b>>)
          <=> Near(VertexAtBulk(gr, w, a), VertexAtBulk(gr, m, b))
    BY BulksAdjacentByRecords
  <2> QED BY <2>2, <2>4, <2>5
<1>3. ASSUME NEW s \in EndSlots(gr), NEW b \in BulkSlots(gr)
      PROVE  EndAndBulkAdjacent(gr, s, b) <=>
               Near(VertexAtEnd(gr, s), VertexAtBulk(gr, b[1], b[2]))
  <2>1. PICK w \in DOMAIN gr.cn : \E a \in 1..Length(gr, w) - 1 : b = <<w, a>>
    BY BulkSlotsArePlaces
  <2>2. PICK a \in 1..Length(gr, w) - 1 : b = <<w, a>>
    BY <2>1
  <2>3. EndAndBulkAdjacent(gr, s, <<w, a>>)
          <=> Near(VertexAtEnd(gr, s), VertexAtBulk(gr, w, a))
    BY EndAndBulkByRecords
  <2> QED BY <2>2, <2>3
<1> QED BY <1>1, <1>2, <1>3 DEF AdjacencyIsByEdges

-----------------------------------------------------------------------------
(* Cycles                                                                  *)

LEMMA ChainsAreFinite ==
  ASSUME TypeOK
  PROVE  IsFiniteSet(DOMAIN gr.cn)
<1>1. PICK X : gr.cn \in Seq(X)
  BY DEF TypeOK
<1>2. DOMAIN gr.cn = 1..Len(gr.cn) /\ Len(gr.cn) \in Nat
  BY <1>1
<1>3. IsFiniteSet(1..Len(gr.cn))
  BY <1>2, FS_Interval
<1> QED BY <1>2, <1>3

LEMMA NgsAreFinite ==
  ASSUME TypeOK, NEW s \in EndSlots(gr)
  PROVE  IsFiniteSet(Ngs(gr, s)) /\ Ngs(gr, s) \subseteq EndSlots(gr)
<1>1. IsFiniteSet(DOMAIN gr.cn)
  BY ChainsAreFinite
<1>2. IsFiniteSet(End)
  BY CardinalityOfTwo DEF End
<1>3. IsFiniteSet(EndSlots(gr))
  BY <1>1, <1>2, FS_Product DEF EndSlots
<1>4. Ngs(gr, s) \in SUBSET EndSlots(gr)
  BY NgsAreSlots
<1> QED BY <1>3, <1>4, FS_Subset

\* As many chains end at the vertex as the links say, and as many edges.
LEMMA DegreesByLinks ==
  ASSUME TypeOK, EdgeIndexesAgree, DescriptorsAgree, NeighboursShareVertex, ChainsAreMaximal,
         NEW s \in EndSlots(gr)
  PROVE  DegreeAtEnd(gr, s) = Deg(gr, VertexAtEnd(gr, s))
         /\ Deg(gr, VertexAtEnd(gr, s)) = Cardinality(EndsAt(VertexAtEnd(gr, s)))
<1> DEFINE v == VertexAtEnd(gr, s)
           S == {t \in EndSlots(gr) : VertexAtEnd(gr, t) = v}
           f == [t \in S |-> EndOf(t)]
<1>1. S = Ngs(gr, s) \cup {s} /\ s \notin Ngs(gr, s)
  BY NgsAreSlots DEF NeighboursShareVertex
<1>2. IsFiniteSet(S) /\ Cardinality(S) = Cardinality(Ngs(gr, s)) + 1
  BY <1>1, NgsAreFinite, FS_AddElement
<1>3. \A t \in S : EndOf(t) \in EndsAt(v)
  BY SlotsAreEnds
<1>4. \A t, u \in S : EndOf(t) = EndOf(u) => t = u
  BY EndsAreOfOneSlot
<1>5. ASSUME NEW d \in EndsAt(v) PROVE \E t \in S : EndOf(t) = d
  <2>1. d[1] \in H /\ d[2] \in End /\ d = <<d[1], d[2]>> /\ gr.eg[d[1]].vv[d[2]] = v
    BY DEF EndsAt, Ends, VertexOf, H
  <2> DEFINE t == <<gr.eg[d[1]].w, OuterEnd(gr, d[1], d[2])>>
  <2>2. t \in EndSlots(gr) /\ EndOf(t) = <<d[1], d[2]>> /\ VertexAtEnd(gr, t) = VertexAtEnd(gr, s)
    BY <2>1, EndsAtChainEnd
  <2> HIDE DEF t
  <2> QED BY <2>1, <2>2
<1>6. f \in Bijection(S, EndsAt(v))
  <2>1. f \in [S -> EndsAt(v)] /\ \A d \in EndsAt(v) : \E t \in S : f[t] = d
    BY <1>3, <1>5
  <2>2. \A t, u \in S : f[t] = f[u] => t = u
    BY <1>4
  <2> HIDE DEF f, S
  <2> QED BY <2>1, <2>2 DEF Bijection, Injection, Surjection, IsInjective
<1> HIDE DEF f, S
<1>7. Cardinality(EndsAt(v)) = Cardinality(S)
  BY <1>2, <1>6, FS_Bijection DEF ExistsBijection
<1>8. v \in V
  BY SlotsAreEnds
<1>9. Deg(gr, v) = Cardinality(EndsAt(v))
  BY <1>8 DEF Deg, DescriptorsAgree, V
<1> QED BY <1>2, <1>7, <1>9 DEF DegreeAtEnd

LEMMA CyclesFromRecords ==
  ASSUME TypeOK, EdgeIndexesAgree, DescriptorsAgree, NeighboursShareVertex, ChainsAreMaximal
  PROVE  CyclesAreRecognised
<1> SUFFICES ASSUME NEW w \in DOMAIN gr.cn
             PROVE  /\ IsCycle(gr, w)
                         <=> VertexAtEnd(gr, <<w, "A">>) = VertexAtEnd(gr, <<w, "B">>)
                    /\ IsUnconnectedCycle(gr, w) => Deg(gr, VertexAtEnd(gr, <<w, "A">>)) = 2
  BY Zenon DEF CyclesAreRecognised
<1> DEFINE sA == <<w, "A">>
           sB == <<w, "B">>
           At(s) == VertexAtEnd(gr, s)
           v == At(sA)
<1>1. sA \in EndSlots(gr) /\ sB \in EndSlots(gr) /\ sA # sB
  BY DEF EndSlots, End
<1>2. /\ \A t \in EndSlots(gr) : t \in Ngs(gr, sA) <=> sA # t /\ v = At(t)
      /\ \A t \in EndSlots(gr) : t \in Ngs(gr, sB) <=> sB # t /\ At(sB) = At(t)
      /\ Ngs(gr, sA) \subseteq EndSlots(gr) /\ Ngs(gr, sB) \subseteq EndSlots(gr)
      /\ IsFiniteSet(Ngs(gr, sA))
  BY <1>1, NgsAreFinite DEF NeighboursShareVertex
<1>3. Cardinality(Ngs(gr, sA)) + 1 = Deg(gr, v) /\ Deg(gr, v) = Cardinality(EndsAt(v))
      /\ Cardinality(Ngs(gr, sA)) \in Nat
  BY <1>1, <1>2, DegreesByLinks, FS_CardinalityType DEF DegreeAtEnd
<1> HIDE DEF sA, sB, At, v
<1>4. ASSUME NEW s \in EndSlots(gr), s[1] = w PROVE s = sA \/ s = sB
  BY <1>4 DEF EndSlots, End, sA, sB
<1>5. ASSUME IsUnconnectedCycle(gr, w) PROVE v = At(sB) /\ Deg(gr, v) = 2
  <2>1. PICK s \in EndSlots(gr) : s[1] = w /\ Ngs(gr, sA) = {s}
    BY <1>5 DEF IsUnconnectedCycle, sA
  <2>2. s = sB
    BY <1>2, <1>4, <2>1
  <2>3. Cardinality(Ngs(gr, sA)) = 1
    BY <2>1, FS_Singleton
  <2> QED BY <1>1, <1>2, <1>3, <2>1, <2>2, <2>3
<1>6. ASSUME IsConnectedCycle(gr, w) PROVE v = At(sB)
  <2>1. PICK t : t \in Ngs(gr, sA) /\ t \in Ngs(gr, sB)
    BY <1>6 DEF IsConnectedCycle, sA, sB
  <2> QED BY <1>2, <2>1
<1>7. ASSUME v = At(sB) PROVE IsCycle(gr, w)
  <2>1. CASE Deg(gr, v) = 2
    <3>1. \A s \in EndSlots(gr) :
            Cardinality(EndsAt(VertexAtEnd(gr, s))) = 2 => IsUnconnectedCycle(gr, s[1])
      BY DEF ChainsAreMaximal
    <3>2. IsUnconnectedCycle(gr, sA[1])
      BY <1>1, <1>3, <2>1, <3>1 DEF v, At
    <3> QED BY <3>2 DEF IsCycle, sA
  <2>2. CASE Deg(gr, v) # 2
    <3>1. sB \in Ngs(gr, sA)
      BY <1>1, <1>2, <1>7
    <3>2. Cardinality(Ngs(gr, sA)) # 0
      BY <1>2, <3>1, FS_EmptySet
    <3>3. Cardinality(Ngs(gr, sA)) > 1
      BY <1>3, <2>2, <3>2
    <3>4. Ngs(gr, sA) # {sB}
      <4>1. Cardinality({sB}) = 1
        BY FS_Singleton
      <4> QED BY <3>3, <4>1
    <3>5. PICK t \in Ngs(gr, sA) : t # sB
      BY <3>1, <3>4
    <3>6. t \in Ngs(gr, sB)
      BY <1>2, <1>7, <3>5
    <3> QED BY <3>3, <3>5, <3>6 DEF IsCycle, IsConnectedCycle, sA, sB
  <2> QED BY <2>1, <2>2
<1> QED BY <1>5, <1>6, <1>7 DEF IsCycle, sA, sB, v, At

-----------------------------------------------------------------------------
(* Neighbours of edges                                                     *)

\* The component indexes of the ends at vertex v other than end d.
Met(v, d) == {gr.eg[x[1]].indc : x \in EndsAt(v) \ {d}}

LEMMA MetAtChainEnd ==
  ASSUME TypeOK, EdgeIndexesAgree, DescriptorsAgree, NeighboursShareVertex, ChainsAreMaximal,
         NEW s \in EndSlots(gr)
  PROVE  IndcsNextTo(gr, s) = Met(VertexAtEnd(gr, s), EndOf(s))
<1> DEFINE v == VertexAtEnd(gr, s)
<1>1. \A t \in EndSlots(gr) : t \in Ngs(gr, s) <=> s # t /\ v = VertexAtEnd(gr, t)
  BY DEF NeighboursShareVertex
<1>2. Ngs(gr, s) \subseteq EndSlots(gr)
  BY NgsAreSlots
<1>3. \A t \in EndSlots(gr) : EndOf(t) \in EndsAt(VertexAtEnd(gr, t)) /\ EndOf(t)[1] = EndEdge(gr, t)
  BY SlotsAreEnds DEF EndOf
<1>4. ASSUME NEW t \in Ngs(gr, s) PROVE gr.eg[EndEdge(gr, t)].indc \in Met(v, EndOf(s))
  <2>1. t \in EndSlots(gr) /\ t # s /\ VertexAtEnd(gr, t) = v
    BY <1>1, <1>2
  <2>2. EndOf(t) # EndOf(s)
    BY <2>1, EndsAreOfOneSlot
  <2>3. EndOf(t) \in EndsAt(v) /\ EndOf(t)[1] = EndEdge(gr, t)
    BY <1>3, <2>1
  <2> QED BY <2>2, <2>3 DEF Met
<1>5. ASSUME NEW d \in EndsAt(v), d # EndOf(s)
      PROVE  \E t \in Ngs(gr, s) : EndEdge(gr, t) = d[1]
  <2>1. d[1] \in H /\ d[2] \in End /\ d = <<d[1], d[2]>> /\ gr.eg[d[1]].vv[d[2]] = v
    BY DEF EndsAt, Ends, VertexOf, H
  <2> DEFINE t == <<gr.eg[d[1]].w, OuterEnd(gr, d[1], d[2])>>
  <2>2. t \in EndSlots(gr) /\ EndOf(t) = <<d[1], d[2]>> /\ EndEdge(gr, t) = d[1]
        /\ VertexAtEnd(gr, t) = VertexAtEnd(gr, s)
    BY <2>1, EndsAtChainEnd
  <2> HIDE DEF t
  <2>3. t # s
    BY <1>5, <2>1, <2>2
  <2>4. t \in Ngs(gr, s)
    BY <1>1, <2>2, <2>3
  <2> QED BY <2>2, <2>4
<1>6. IndcsNextTo(gr, s) \subseteq Met(v, EndOf(s))
  BY <1>4 DEF IndcsNextTo
<1>7. Met(v, EndOf(s)) \subseteq IndcsNextTo(gr, s)
  <2> SUFFICES ASSUME NEW d \in EndsAt(v), d # EndOf(s)
               PROVE  gr.eg[d[1]].indc \in IndcsNextTo(gr, s)
    BY DEF Met
  <2> QED BY <1>5 DEF IndcsNextTo
<1> QED BY <1>6, <1>7

\* What list_edges takes for the neighbours of an edge at either end.
LEMMA MetAtEdge ==
  ASSUME TypeOK, EdgeIndexesAgree, DescriptorsAgree, NeighboursShareVertex, ChainsAreMaximal,
         NEW h \in H
  PROVE  EdgesNextTo(gr, gr.eg[h].w, gr.eg[h].indw)
           = Met(gr.eg[h].vv["A"], <<h, "A">>) \cup Met(gr.eg[h].vv["B"], <<h, "B">>)
<1> DEFINE w == gr.eg[h].w
           p == gr.eg[h].indw
           n == Length(gr, w)
           g == gr.cn[w].g
           eA == InnerEnd(gr, h, "A")
           eB == InnerEnd(gr, h, "B")
           sideA == IF p = 1 THEN IndcsNextTo(gr, <<w, "A">>) ELSE {IndcAt(gr, w, p - 1)}
           sideB == IF p = n THEN IndcsNextTo(gr, <<w, "B">>) ELSE {IndcAt(gr, w, p + 1)}
<1>1. w \in DOMAIN gr.cn
  BY EdgeTypes
<1>2. /\ n \in Nat \ {0} /\ DOMAIN g = 1..n
      /\ EndEdge(gr, <<w, "A">>) = g[1] /\ EndEdge(gr, <<w, "B">>) = g[n]
  BY <1>1, ChainsHoldEdges
<1>3. p \in 1..n /\ g[p] = h
  BY <1>2, IndexesLeadToEdge, Zenon
<1>4. {eA, eB} = {"A", "B"} /\ eA # eB /\ eA \in End /\ eB \in End
  BY DEF InnerEnd, Opp, End
<1>5. sideA = Met(gr.eg[h].vv[eA], <<h, eA>>)
  <2>1. CASE p = 1
    <3> DEFINE s == <<w, "A">>
    <3>1. s \in EndSlots(gr)
      BY <1>1 DEF EndSlots, End
    <3>2. EndEdge(gr, s) = h
      BY <1>2, <1>3, <2>1
    <3>3. EndOf(s) = <<h, eA>> /\ VertexAtEnd(gr, s) = gr.eg[h].vv[eA]
      BY <3>2 DEF EndOf, VertexAtEnd, VertexAtOuter
    <3> HIDE DEF s
    <3>4. IndcsNextTo(gr, s) = Met(VertexAtEnd(gr, s), EndOf(s))
      BY <3>1, MetAtChainEnd
    <3> QED BY <2>1, <3>3, <3>4 DEF s
  <2>2. CASE p # 1
    <3> DEFINE a == p - 1
               x == g[a]
               k == g[a + 1]
    <3>1. a \in 1..n - 1 /\ a + 1 = p
      <4> HIDE DEF p, n
      <4> QED BY <1>2, <1>3, <2>2
    <3>2. k = h
      BY <1>3, <3>1
    <3>3. /\ x # k
          /\ InnerEnd(gr, x, "B") \in End
          /\ EndsAt(VertexAtBulk(gr, w, a)) = {<<x, InnerEnd(gr, x, "B")>>, <<k, InnerEnd(gr, k, "A")>>}
      <4>1. a \in 1..Length(gr, w) - 1
        BY <3>1
      <4> HIDE DEF a, w, n
      <4> QED BY <1>1, <4>1, EndsAtInnerVertex
    <3>4. VertexAtBulk(gr, w, a) = gr.eg[h].vv[eA]
      BY <3>2 DEF VertexAtBulk, VertexAtOuter
    <3>5. EndsAt(gr.eg[h].vv[eA]) \ {<<h, eA>>} = {<<x, InnerEnd(gr, x, "B")>>}
      <4> HIDE DEF x, k
      <4> QED BY <3>2, <3>3, <3>4
    <3>6. IndcAt(gr, w, p - 1) = gr.eg[x].indc
      BY DEF IndcAt
    <3>7. Met(gr.eg[h].vv[eA], <<h, eA>>) = {gr.eg[x].indc}
      <4> DEFINE z == <<x, InnerEnd(gr, x, "B")>>
      <4>1. z[1] = x /\ EndsAt(gr.eg[h].vv[eA]) \ {<<h, eA>>} = {z}
        BY <3>5
      <4> HIDE DEF z
      <4> QED BY <4>1, Zenon DEF Met
    <3> QED BY <2>2, <3>6, <3>7, Zenon
  <2> QED BY <2>1, <2>2
<1>6. sideB = Met(gr.eg[h].vv[eB], <<h, eB>>)
  <2>1. CASE p = n
    <3> DEFINE s == <<w, "B">>
    <3>1. s \in EndSlots(gr)
      BY <1>1 DEF EndSlots, End
    <3>2. EndEdge(gr, s) = h
      BY <1>2, <1>3, <2>1
    <3>3. EndOf(s) = <<h, eB>> /\ VertexAtEnd(gr, s) = gr.eg[h].vv[eB]
      BY <3>2 DEF EndOf, VertexAtEnd, VertexAtOuter
    <3> HIDE DEF s
    <3>4. IndcsNextTo(gr, s) = Met(VertexAtEnd(gr, s), EndOf(s))
      BY <3>1, MetAtChainEnd
    <3> QED BY <2>1, <3>3, <3>4 DEF s
  <2>2. CASE p # n
    <3> DEFINE x == g[p]
               k == g[p + 1]
    <3>1. p \in 1..n - 1
      <4> HIDE DEF p, n
      <4> QED BY <1>2, <1>3, <2>2
    <3>2. x = h
      BY <1>3
    <3>3. /\ x # k
          /\ InnerEnd(gr, k, "A") \in End
          /\ EndsAt(VertexAtBulk(gr, w, p)) = {<<x, InnerEnd(gr, x, "B")>>, <<k, InnerEnd(gr, k, "A")>>}
          /\ x \in H
      BY <1>1, <3>1, EndsAtInnerVertex, ZenonT(60)
    <3>4. VertexAtBulk(gr, w, p) = gr.eg[h].vv[eB]
      BY <1>1, <3>1, <3>2, InnerVertices, Zenon DEF VertexAtOuter
    <3>5. EndsAt(gr.eg[h].vv[eB]) \ {<<h, eB>>} = {<<k, InnerEnd(gr, k, "A")>>}
      <4> HIDE DEF x, k
      <4> QED BY <3>2, <3>3, <3>4
    <3>6. IndcAt(gr, w, p + 1) = gr.eg[k].indc
      BY DEF IndcAt
    <3>7. Met(gr.eg[h].vv[eB], <<h, eB>>) = {gr.eg[k].indc}
      <4> DEFINE z == <<k, InnerEnd(gr, k, "A")>>
      <4>1. z[1] = k /\ EndsAt(gr.eg[h].vv[eB]) \ {<<h, eB>>} = {z}
        BY <3>5, Zenon
      <4> HIDE DEF z
      <4> QED BY <4>1, Zenon DEF Met
    <3> QED BY <2>2, <3>6, <3>7, Zenon
  <2> QED BY <2>1, <2>2
<1>7. EdgesNextTo(gr, w, p) = sideA \cup sideB
  BY DEF EdgesNextTo
<1> HIDE DEF sideA, sideB, eA, eB, w, p
<1>8. CASE eA = "A" /\ eB = "B"
  BY <1>5, <1>6, <1>7, <1>8 DEF w, p
<1>9. CASE eA = "B" /\ eB = "A"
  BY <1>5, <1>6, <1>7, <1>9 DEF w, p
<1> QED BY <1>4, <1>8, <1>9

\* A chain has no more edges than its component.
LEMMA ChainIsWithinComponent ==
  ASSUME TypeOK, EdgeIndexesAgree, NEW w \in DOMAIN gr.cn, NEW c \in DOMAIN gr.ct, gr.cn[w].c = c
  PROVE  Length(gr, w) <= NumEdges(gr, c)
<1> DEFINE n == Length(gr, w)
           m == NumEdges(gr, c)
           g == gr.cn[w].g
           f == [a \in 1..n |-> gr.eg[g[a]].indc]
<1>1. n \in Nat /\ \A a \in 1..n : g[a] \in H /\ gr.eg[g[a]].w = w /\ gr.eg[g[a]].indw = a
  BY ChainsHoldEdges, ZenonT(60)
<1>2. m \in Nat /\ DOMAIN gr.ct[c].egl = 1..m
  BY ComponentListTypes DEF NumEdges
<1>3. ASSUME NEW a \in 1..n PROVE gr.eg[g[a]].c = c /\ gr.eg[g[a]].indc \in 1..m
  <2>1. PICK h \in H : h = g[a] /\ gr.eg[h].w = w
    BY <1>1
  <2>2. gr.eg[h].c = gr.cn[gr.eg[h].w].c /\ gr.eg[h].indc \in DOMAIN gr.ct[gr.eg[h].c].egl
    BY IndexesLeadToEdge, Zenon
  <2> HIDE DEF m, n, g
  <2> QED BY <1>2, <2>1, <2>2
<1>4. ASSUME NEW a \in 1..n, NEW b \in 1..n, gr.eg[g[a]].indc = gr.eg[g[b]].indc PROVE a = b
  <2>1. gr.eg[g[a]].c = gr.eg[g[b]].c
    BY <1>3
  <2>2. g[a] = g[b]
    BY <1>1, <1>4, <2>1, ComponentIndexesAreOfOneEdge, Zenon
  <2> QED BY <1>1, <2>2
<1>5. f \in Injection(1..n, 1..m)
  <2>1. \A a \in 1..n : f[a] \in 1..m
    BY <1>3
  <2>2. \A a, b \in 1..n : f[a] = f[b] => a = b
    BY <1>4
  <2> HIDE DEF n, m
  <2> QED BY <2>1, <2>2 DEF Injection, IsInjective
<1> HIDE DEF n, m, f
<1>6. /\ IsFiniteSet(1..m) /\ Cardinality(1..m) = m
      /\ Cardinality(1..n) = n
  <2>1. 1 \in Int /\ n \in Int /\ m \in Int /\ (1 > n => n = 0) /\ (1 > m => m = 0)
    BY <1>1, <1>2
  <2> QED BY <1>1, <1>2, <2>1, FS_Interval
<1>7. Cardinality(1..n) <= Cardinality(1..m)
  BY <1>5, <1>6, FS_Injection
<1> QED BY <1>6, <1>7 DEF n, m

LEMMA NeighboursFromRecords ==
  ASSUME TypeOK, RecordsAgree, DescriptorsAgree, NeighboursShareVertex, ChainsAreMaximal
  PROVE  NeighboursOfEdgesAgree
<1>0. EdgeIndexesAgree /\ ChainIndexesAgree
  BY DEF RecordsAgree
<1> SUFFICES ASSUME NEW c \in DOMAIN gr.ct, NEW i \in 1..NumEdges(gr, c)
    PROVE  LET list == ListEdges(gr, c)
               h == EdgeAtIndc(gr, c, i)
               met(e) == LET v == gr.eg[h].vv[e]
                         IN  {gr.vx[v].eds[d] : d \in EdgesConnectedTo(gr, v, <<h, e>>)}
           IN  /\ list[i] = met("A") \cup met("B")
               /\ \A k \in DOMAIN gr.eg \ {h} :
                    IsNeigOf(gr, h, k) <=> gr.eg[k].c = c /\ gr.eg[k].indc \in list[i]
  BY Zenon DEF NeighboursOfEdgesAgree
<1>1. DOMAIN gr.ct[c].egl = 1..NumEdges(gr, c)
  BY ComponentListTypes DEF NumEdges
<1>2. PICK h \in H : gr.eg[h].c = c /\ gr.eg[h].indc = i
  BY <1>0, <1>1, ComponentListIsFull
<1> DEFINE w == gr.eg[h].w
           p == gr.eg[h].indw
           m == NumEdges(gr, c)
<1>3. /\ EdgeAtIndc(gr, c, i) = h
      /\ p \in 1..Length(gr, w) /\ gr.cn[w].g[p] = h /\ w \in DOMAIN gr.cn /\ gr.cn[w].c = c
  <2>1. /\ gr.ct[gr.eg[h].c].egl[gr.eg[h].indc].w = w /\ gr.ct[gr.eg[h].c].egl[gr.eg[h].indc].a = p
        /\ p \in DOMAIN gr.cn[w].g /\ gr.cn[w].g[p] = h /\ gr.eg[h].c = gr.cn[w].c
    BY <1>0, IndexesLeadToEdge, Zenon
  <2>2. w \in DOMAIN gr.cn
    BY EdgeTypes
  <2>3. DOMAIN gr.cn[w].g = 1..Length(gr, w)
    BY <1>0, <2>2, ChainsHoldEdges
  <2> QED BY <1>2, <2>1, <2>2, <2>3, Zenon DEF EdgeAtIndc
<1>4. ToSet(gr.ct[c].ww) = {u \in DOMAIN gr.cn : gr.cn[u].c = c}
  BY <1>0 DEF ChainIndexesAgree
<1> DEFINE at == {x \in ToSet(gr.ct[c].ww) \X (1..m) :
                    x[2] <= Length(gr, x[1]) /\ IndcAt(gr, x[1], x[2]) = i}
<1>5. ListEdges(gr, c)[i] = UNION {EdgesNextTo(gr, x[1], x[2]) : x \in at}
  BY DEF ListEdges
<1>6. at = {<<w, p>>}
  <2>1. <<w, p>> \in at
    <3>1. Length(gr, w) <= m /\ Length(gr, w) \in Nat /\ m \in Nat
      BY <1>0, <1>3, ChainIsWithinComponent, ChainsHoldEdges, ComponentListTypes DEF NumEdges
    <3>2. p \in 1..m /\ p <= Length(gr, w)
      <4> HIDE DEF p, m
      <4> QED BY <1>3, <3>1
    <3>3. IndcAt(gr, w, p) = i
      BY <1>2, <1>3 DEF IndcAt
    <3> HIDE DEF w, p, m
    <3> QED BY <1>3, <1>4, <3>2, <3>3
  <2>2. ASSUME NEW x \in at PROVE x = <<w, p>>
    <3>1. /\ x[1] \in DOMAIN gr.cn /\ gr.cn[x[1]].c = c /\ x[2] \in 1..m /\ x[2] <= Length(gr, x[1])
          /\ IndcAt(gr, x[1], x[2]) = i /\ x = <<x[1], x[2]>>
      <4> HIDE DEF m
      <4> QED BY <1>4
    <3>2. Length(gr, x[1]) \in Nat /\ m \in Nat
      BY <1>0, <3>1, ChainsHoldEdges, ComponentListTypes DEF NumEdges
    <3>3. x[2] \in 1..Length(gr, x[1])
      <4> HIDE DEF m
      <4> QED BY <3>1, <3>2
    <3>4. PICK k \in H : k = gr.cn[x[1]].g[x[2]] /\ gr.eg[k].w = x[1] /\ gr.eg[k].indw = x[2]
      <4> DEFINE u == x[1]
      <4>1. u \in DOMAIN gr.cn
        BY <3>1
      <4> HIDE DEF u
      <4>2. \A a \in 1..Length(gr, u) :
              gr.cn[u].g[a] \in H /\ gr.eg[gr.cn[u].g[a]].w = u /\ gr.eg[gr.cn[u].g[a]].indw = a
        BY <1>0, <4>1, ChainsHoldEdges, ZenonT(60)
      <4> QED BY <3>3, <4>2 DEF u
    <3>5. gr.eg[k].indc = i
      BY <3>1, <3>4 DEF IndcAt
    <3>6. gr.eg[k].c = gr.cn[gr.eg[k].w].c
      BY <1>0, IndexesLeadToEdge, Zenon
    <3>7. gr.eg[k].c = gr.eg[h].c /\ gr.eg[k].indc = gr.eg[h].indc
      BY <1>2, <3>1, <3>4, <3>5, <3>6
    <3>8. k = h
      BY <1>0, <3>7, ComponentIndexesAreOfOneEdge
    <3> QED BY <3>1, <3>4, <3>8
  <2> HIDE DEF at
  <2> QED BY <2>1, <2>2
<1>7. ListEdges(gr, c)[i] = EdgesNextTo(gr, w, p)
  <2> HIDE DEF at, w, p
  <2> QED BY <1>5, <1>6
<1> DEFINE met(e) == LET v == gr.eg[h].vv[e]
                     IN  {gr.vx[v].eds[d] : d \in EdgesConnectedTo(gr, v, <<h, e>>)}
           list == ListEdges(gr, c)[i]
<1>8. ASSUME NEW e \in End
      PROVE  /\ gr.eg[h].vv[e] \in V
             /\ DOMAIN gr.vx[gr.eg[h].vv[e]].eds = EndsAt(gr.eg[h].vv[e])
             /\ \A d \in EndsAt(gr.eg[h].vv[e]) : gr.eg[d[1]].c = c /\ d[1] \in H
             /\ met(e) = Met(gr.eg[h].vv[e], <<h, e>>)
  <2> DEFINE v == gr.eg[h].vv[e]
  <2>1. v \in V
    BY EdgeTypes DEF End
  <2> HIDE DEF v
  <2>2. gr.vx[v].eds = [d \in EndsAt(v) |-> gr.eg[d[1]].indc]
    BY <2>1 DEF DescriptorsAgree, V
  <2>3. \A d \in EndsAt(v) : gr.eg[d[1]].c = gr.vx[v].c /\ d[1] \in H
    BY <2>1 DEF DescriptorsAgree, V, EndsAt, Ends, H
  <2>4. gr.vx[v].c = c
    BY <1>0, <1>2, <2>1, ComponentOfVertex DEF v
  <2>5. {gr.vx[v].eds[d] : d \in EdgesConnectedTo(gr, v, <<h, e>>)} = Met(v, <<h, e>>)
    BY <2>2 DEF EdgesConnectedTo, Met
  <2> QED BY <2>1, <2>2, <2>3, <2>4, <2>5 DEF v
<1>9. list = Met(gr.eg[h].vv["A"], <<h, "A">>) \cup Met(gr.eg[h].vv["B"], <<h, "B">>)
  BY <1>0, <1>7, MetAtEdge
<1>10. list = met("A") \cup met("B")
  <2>1. "A" \in End /\ "B" \in End
    BY DEF End
  <2> HIDE DEF list, met
  <2> QED BY <1>8, <1>9, <2>1
<1>11. ASSUME NEW k \in H, k # h
       PROVE  IsNeigOf(gr, h, k) <=> gr.eg[k].c = c /\ gr.eg[k].indc \in list
  <2>1. ASSUME NEW e \in End, NEW d \in End, <<k, d>> \in DOMAIN gr.vx[gr.eg[h].vv[e]].eds
        PROVE  gr.eg[k].c = c /\ gr.eg[k].indc \in Met(gr.eg[h].vv[e], <<h, e>>)
    <3>1. <<k, d>> \in EndsAt(gr.eg[h].vv[e]) \ {<<h, e>>}
      BY <1>8, <1>11, <2>1
    <3>2. gr.eg[k].indc \in Met(gr.eg[h].vv[e], <<h, e>>)
      <4> DEFINE x == <<k, d>>
      <4>1. x \in EndsAt(gr.eg[h].vv[e]) \ {<<h, e>>} /\ x[1] = k
        BY <3>1
      <4> HIDE DEF x
      <4> QED BY <4>1 DEF Met
    <3>3. gr.eg[<<k, d>>[1]].c = c
      BY <1>8, <3>1
    <3> QED BY <3>2, <3>3
  <2>2. ASSUME NEW e \in End, gr.eg[k].c = c, gr.eg[k].indc \in Met(gr.eg[h].vv[e], <<h, e>>)
        PROVE  \E d \in End : <<k, d>> \in DOMAIN gr.vx[gr.eg[h].vv[e]].eds
    <3>1. PICK d \in EndsAt(gr.eg[h].vv[e]) : gr.eg[k].indc = gr.eg[d[1]].indc
      BY <2>2 DEF Met
    <3>2. d[1] \in H /\ gr.eg[d[1]].c = c
      BY <1>8
    <3>3. d[1] = k
      BY <1>0, <2>2, <3>1, <3>2, ComponentIndexesAreOfOneEdge
    <3>4. d[2] \in End /\ d = <<d[1], d[2]>>
      BY DEF EndsAt, Ends
    <3> QED BY <1>8, <3>3, <3>4
  <2>3. gr.eg[k].indc \in list <=> \E e \in End : gr.eg[k].indc \in Met(gr.eg[h].vv[e], <<h, e>>)
    <3> HIDE DEF list
    <3> QED BY <1>9 DEF End
  <2> HIDE DEF list
  <2> QED BY <2>1, <2>2, <2>3 DEF IsNeigOf
<1>12. \A k \in DOMAIN gr.eg \ {h} :
         IsNeigOf(gr, h, k) <=> gr.eg[k].c = c /\ gr.eg[k].indc \in list
  BY <1>11 DEF H
<1> QED BY <1>3, <1>10, <1>12, ZenonT(60)

-----------------------------------------------------------------------------
(* Triangles of chains                                                     *)

\* The vertices at the ends of chain w.
EndsOfChain(w) == {VertexAtEnd(gr, <<w, e>>) : e \in End}

LEMMA TwoEnds ==
  ASSUME NEW w
  PROVE  EndsOfChain(w) = {VertexAtEnd(gr, <<w, "A">>), VertexAtEnd(gr, <<w, "B">>)}
BY DEF EndsOfChain, End

\* What makes a chain eligible, by the vertices.
LEMMA EligibleByRecords ==
  ASSUME TypeOK, EdgeIndexesAgree, DescriptorsAgree, NeighboursShareVertex, ChainsAreMaximal,
         NEW w \in DOMAIN gr.cn
  PROVE  IsEligible(gr, w) <=>
           /\ VertexAtEnd(gr, <<w, "A">>) # VertexAtEnd(gr, <<w, "B">>)
           /\ Deg(gr, VertexAtEnd(gr, <<w, "A">>)) >= 3
           /\ Deg(gr, VertexAtEnd(gr, <<w, "B">>)) >= 3
<1>1. <<w, "A">> \in EndSlots(gr) /\ <<w, "B">> \in EndSlots(gr)
  BY DEF EndSlots, End
<1>2. DegreeAtEnd(gr, <<w, "A">>) = Deg(gr, VertexAtEnd(gr, <<w, "A">>))
  BY <1>1, DegreesByLinks
<1>3. DegreeAtEnd(gr, <<w, "B">>) = Deg(gr, VertexAtEnd(gr, <<w, "B">>))
  BY <1>1, DegreesByLinks
<1>4. IsCycle(gr, w) <=> VertexAtEnd(gr, <<w, "A">>) = VertexAtEnd(gr, <<w, "B">>)
  BY CyclesFromRecords DEF CyclesAreRecognised
<1>5. IsEligible(gr, w) <=> /\ ~IsCycle(gr, w)
                            /\ DegreeAtEnd(gr, <<w, "A">>) >= 3 /\ DegreeAtEnd(gr, <<w, "B">>) >= 3
  BY DEF IsEligible, End
<1> QED BY <1>2, <1>3, <1>4, <1>5

\* A slot of a chain with a given vertex, and the vertex at its other end.
LEMMA SlotAtVertex ==
  ASSUME NEW w \in DOMAIN gr.cn, NEW a, NEW b, a # b, EndsOfChain(w) = {a, b}
  PROVE  \E s \in EndSlots(gr) : /\ s[1] = w /\ VertexAtEnd(gr, s) = a
                                 /\ VertexAtEnd(gr, OppSlot(s)) = b
<1> DEFINE sA == <<w, "A">>
           sB == <<w, "B">>
<1>1. sA \in EndSlots(gr) /\ sB \in EndSlots(gr) /\ OppSlot(sA) = sB /\ OppSlot(sB) = sA
      /\ sA[1] = w /\ sB[1] = w
  BY DEF EndSlots, End, OppSlot, Opp
<1>2. {VertexAtEnd(gr, sA), VertexAtEnd(gr, sB)} = {a, b}
  BY TwoEnds
<1> HIDE DEF sA, sB
<1>3. CASE VertexAtEnd(gr, sA) = a
  <2>1. VertexAtEnd(gr, sB) = b
    BY <1>2, <1>3
  <2> QED BY <1>1, <1>3, <2>1
<1>4. CASE VertexAtEnd(gr, sA) # a
  <2>1. VertexAtEnd(gr, sB) = a /\ VertexAtEnd(gr, sA) = b
    BY <1>2, <1>4
  <2> QED BY <1>1, <2>1
<1> QED BY <1>3, <1>4

\* Three chains that join three vertices pairwise, as the search by links finds them.
FoundTriangle(c, w, s, t) ==
  /\ s \in Ngs(gr, <<w, "A">>) /\ t \in Ngs(gr, <<w, "B">>)
  /\ Cardinality({w, s[1], t[1]}) = 3
  /\ \A u \in {w, s[1], t[1]} : IsEligible(gr, u)
  /\ ClosesTriangle(gr, s, t)
  /\ VertexAtEnd(gr, OppSlot(s)) \notin {VertexAtEnd(gr, <<w, "A">>), VertexAtEnd(gr, <<w, "B">>)}

\* The same by the vertices.
IsTriangle(X) ==
  LET joined == UNION {EndsOfChain(w) : w \in X}
  IN  /\ \A w \in X : Cardinality(EndsOfChain(w)) = 2
      /\ Cardinality({EndsOfChain(w) : w \in X}) = 3
      /\ Cardinality(joined) = 3
      /\ \A v \in joined : Deg(gr, v) >= 3

LEMMA FoundIsTriangle ==
  ASSUME TypeOK, RecordsAgree, DescriptorsAgree, NeighboursShareVertex, ChainsAreMaximal,
         NEW c \in DOMAIN gr.ct, NEW w \in ToSet(gr.ct[c].ww),
         NEW s \in EndSlots(gr), NEW t \in EndSlots(gr), FoundTriangle(c, w, s, t)
  PROVE  LET X == {w, s[1], t[1]}
         IN  /\ X \in SUBSET ToSet(gr.ct[c].ww) /\ Cardinality(X) = 3 /\ IsTriangle(X)
             /\ UNION {EndsOfChain(u) : u \in X}
                  = {VertexAtEnd(gr, <<w, "A">>), VertexAtEnd(gr, <<w, "B">>),
                     VertexAtEnd(gr, OppSlot(s))}
<1>0. EdgeIndexesAgree /\ ChainIndexesAgree
  BY DEF RecordsAgree
<1> DEFINE At(x) == VertexAtEnd(gr, x)
           sA == <<w, "A">>
           sB == <<w, "B">>
           a == At(sA)
           b == At(sB)
           r == At(OppSlot(s))
           X == {w, s[1], t[1]}
<1>1. \A u : u \in ToSet(gr.ct[c].ww) <=> u \in DOMAIN gr.cn /\ gr.cn[u].c = c
  BY <1>0 DEF ChainIndexesAgree
<1>2. sA \in EndSlots(gr) /\ sB \in EndSlots(gr) /\ sA[1] = w /\ sB[1] = w
  BY <1>1 DEF EndSlots, End
<1>3. \A x \in EndSlots(gr) : /\ OppSlot(x) \in EndSlots(gr) /\ x[1] \in DOMAIN gr.cn
                              /\ gr.cn[x[1]].c = gr.vx[At(x)].c
                              /\ EndsOfChain(x[1]) = {At(x), At(OppSlot(x))}
  <2> SUFFICES ASSUME NEW x \in EndSlots(gr)
               PROVE  /\ OppSlot(x) \in EndSlots(gr) /\ x[1] \in DOMAIN gr.cn
                      /\ gr.cn[x[1]].c = gr.vx[At(x)].c
                      /\ EndsOfChain(x[1]) = {At(x), At(OppSlot(x))}
    OBVIOUS
  <2>1. OppSlot(x) \in EndSlots(gr) /\ x[1] \in DOMAIN gr.cn /\ x[2] \in {"A", "B"}
        /\ x = <<x[1], x[2]>>
    BY <1>0, SlotsAreEnds
  <2>2. gr.cn[x[1]].c = gr.vx[At(x)].c
    BY <1>0, ComponentOfEnd
  <2>3. EndsOfChain(x[1]) = {At(<<x[1], "A">>), At(<<x[1], "B">>)}
    BY TwoEnds
  <2>4. EndsOfChain(x[1]) = {At(x), At(OppSlot(x))}
    <3>1. CASE x[2] = "A"
      <4>1. x = <<x[1], "A">> /\ OppSlot(x) = <<x[1], "B">>
        BY <2>1, <3>1 DEF OppSlot, Opp
      <4> QED BY <2>3, <4>1
    <3>2. CASE x[2] = "B"
      <4>1. x = <<x[1], "B">> /\ OppSlot(x) = <<x[1], "A">>
        BY <2>1, <3>2 DEF OppSlot, Opp
      <4> QED BY <2>3, <4>1
    <3> QED BY <2>1, <3>1, <3>2
  <2> QED BY <2>1, <2>2, <2>4
<1>4. \A x, y \in EndSlots(gr) : y \in Ngs(gr, x) <=> x # y /\ At(x) = At(y)
  BY DEF NeighboursShareVertex
<1>5. At(s) = a /\ At(t) = b /\ At(OppSlot(t)) = r /\ r # a /\ r # b
  <2>1. /\ s \in Ngs(gr, sA) /\ t \in Ngs(gr, sB) /\ OppSlot(t) \in Ngs(gr, OppSlot(s))
        /\ r \notin {a, b}
    BY DEF FoundTriangle, ClosesTriangle
  <2> HIDE DEF sA, sB, a, b, r, At
  <2> QED BY <1>2, <1>3, <1>4, <2>1 DEF a, b, r
<1>6. /\ EndsOfChain(w) = {a, b} /\ EndsOfChain(s[1]) = {a, r} /\ EndsOfChain(t[1]) = {b, r}
  <2>1. EndsOfChain(w) = {a, b}
    BY TwoEnds
  <2>2. EndsOfChain(s[1]) = {a, r}
    <3>1. EndsOfChain(s[1]) = {At(s), At(OppSlot(s))}
      BY <1>3
    <3> HIDE DEF At, a, r
    <3> QED BY <1>5, <3>1 DEF r
  <2>3. EndsOfChain(t[1]) = {b, r}
    <3>1. EndsOfChain(t[1]) = {At(t), At(OppSlot(t))}
      BY <1>3
    <3> HIDE DEF At, b, r
    <3> QED BY <1>5, <3>1
  <2> HIDE DEF a, b, r
  <2> QED BY <2>1, <2>2, <2>3
<1>7. w # s[1] /\ w # t[1] /\ s[1] # t[1] /\ Cardinality(X) = 3
  <2>1. Cardinality({w, s[1], t[1]}) = 3
    BY DEF FoundTriangle
  <2> DEFINE y == s[1]
             z == t[1]
  <2>2. Cardinality({w, y, z}) = 3
    BY <2>1
  <2>3. Cardinality({w, y, z}) = 3 <=> w # y /\ w # z /\ y # z
    BY CardinalityOfThree
  <2> HIDE DEF y, z
  <2>4. w # y /\ w # z /\ y # z
    BY <2>2, <2>3
  <2> QED BY <2>1, <2>4 DEF y, z
<1>8. w \in DOMAIN gr.cn /\ s[1] \in DOMAIN gr.cn /\ t[1] \in DOMAIN gr.cn
  BY <1>1, <1>3
<1>9. X \in SUBSET ToSet(gr.ct[c].ww)
  <2>1. gr.cn[w].c = gr.vx[a].c /\ gr.cn[w].c = gr.vx[b].c
    BY <1>2, <1>3
  <2>2. gr.cn[s[1]].c = gr.vx[a].c /\ gr.cn[t[1]].c = gr.vx[b].c
    BY <1>3, <1>5
  <2> HIDE DEF a, b
  <2> QED BY <1>1, <1>8, <2>1, <2>2
<1>10. a # b /\ Deg(gr, a) >= 3 /\ Deg(gr, b) >= 3
  <2>1. IsEligible(gr, w)
    BY DEF FoundTriangle
  <2> QED BY <1>0, <1>8, <2>1, EligibleByRecords
<1>11. Deg(gr, r) >= 3
  <2>1. IsEligible(gr, s[1])
    BY DEF FoundTriangle
  <2>2. Deg(gr, At(<<s[1], "A">>)) >= 3 /\ Deg(gr, At(<<s[1], "B">>)) >= 3
    BY <1>0, <1>8, <2>1, EligibleByRecords
  <2>3. {At(<<s[1], "A">>), At(<<s[1], "B">>)} = {a, r}
    BY <1>6, TwoEnds
  <2>4. r = At(<<s[1], "A">>) \/ r = At(<<s[1], "B">>)
    <3> HIDE DEF a, r
    <3> QED BY <2>3
  <2> HIDE DEF r
  <2> QED BY <2>2, <2>4
<1> HIDE DEF a, b, r
<1>12. {EndsOfChain(u) : u \in X} = {{a, b}, {a, r}, {b, r}}
  BY <1>6
<1>13. UNION {EndsOfChain(u) : u \in X} = {a, b, r}
  <2> HIDE DEF X
  <2> QED BY <1>12
<1>14. IsTriangle(X)
  <2>1. \A u \in X : Cardinality(EndsOfChain(u)) = 2
    <3>1. Cardinality({a, b}) = 2
      BY <1>10, CardinalityOfTwo
    <3>2. Cardinality({a, r}) = 2
      BY <1>5, CardinalityOfTwo
    <3>3. Cardinality({b, r}) = 2
      BY <1>5, CardinalityOfTwo
    <3> QED BY <1>6, <3>1, <3>2, <3>3
  <2>2. Cardinality({{a, b}, {a, r}, {b, r}}) = 3
    <3>1. {a, b} # {a, r} /\ {a, b} # {b, r} /\ {a, r} # {b, r}
      BY <1>5, <1>10
    <3> QED BY <3>1, CardinalityOfThree
  <2>3. Cardinality({a, b, r}) = 3
    BY <1>5, <1>10, CardinalityOfThree
  <2>4. \A v \in {a, b, r} : Deg(gr, v) >= 3
    BY <1>10, <1>11
  <2> HIDE DEF X
  <2> QED BY <1>12, <1>13, <2>1, <2>2, <2>3, <2>4 DEF IsTriangle
<1> QED BY <1>7, <1>9, <1>13, <1>14 DEF a, b, r

LEMMA TriangleIsFound ==
  ASSUME TypeOK, RecordsAgree, DescriptorsAgree, NeighboursShareVertex, ChainsAreMaximal,
         NEW c \in DOMAIN gr.ct, NEW X \in SUBSET ToSet(gr.ct[c].ww),
         IsFiniteSet(X), Cardinality(X) = 3, IsTriangle(X)
  PROVE  \E w \in X : \E s \in EndSlots(gr), t \in EndSlots(gr) :
           FoundTriangle(c, w, s, t) /\ X = {w, s[1], t[1]}
<1>0. EdgeIndexesAgree /\ ChainIndexesAgree
  BY DEF RecordsAgree
<1> DEFINE At(x) == VertexAtEnd(gr, x)
           J == UNION {EndsOfChain(u) : u \in X}
<1>1. \A u : u \in ToSet(gr.ct[c].ww) <=> u \in DOMAIN gr.cn /\ gr.cn[u].c = c
  BY <1>0 DEF ChainIndexesAgree
<1>2. PICK w, w2, w3 \in X : w # w2 /\ w # w3 /\ w2 # w3 /\ X = {w, w2, w3}
  BY ThreeElements
<1>3. \A u \in X : u \in DOMAIN gr.cn
  BY <1>1
<1>4. \A u \in X : Cardinality(EndsOfChain(u)) = 2
  BY DEF IsTriangle
<1>5. Cardinality({EndsOfChain(u) : u \in X}) = 3
  BY DEF IsTriangle
<1>6. Cardinality(J) = 3 /\ \A v \in J : Deg(gr, v) >= 3
  BY DEF IsTriangle
<1> DEFINE sA == <<w, "A">>
           sB == <<w, "B">>
           a == At(sA)
           b == At(sB)
<1>7. sA \in EndSlots(gr) /\ sB \in EndSlots(gr)
  BY <1>3 DEF EndSlots, End
<1>8. \A u \in X : EndsOfChain(u) = {At(<<u, "A">>), At(<<u, "B">>)}
  BY TwoEnds
<1>9. \A u \in X : At(<<u, "A">>) # At(<<u, "B">>)
  <2> SUFFICES ASSUME NEW u \in X, At(<<u, "A">>) = At(<<u, "B">>) PROVE FALSE
    BY Zenon
  <2> DEFINE z == At(<<u, "A">>)
  <2>1. Cardinality({z, z}) = 1
    BY CardinalityOfTwo
  <2>2. EndsOfChain(u) = {z, z}
    BY <1>8
  <2> HIDE DEF z
  <2> QED BY <1>4, <2>1, <2>2
<1>10. EndsOfChain(w) # EndsOfChain(w2) /\ EndsOfChain(w) # EndsOfChain(w3) /\ EndsOfChain(w2) # EndsOfChain(w3)
  <2>1. {EndsOfChain(u) : u \in X} = {EndsOfChain(w), EndsOfChain(w2), EndsOfChain(w3)}
    BY <1>2
  <2>2. Cardinality({EndsOfChain(w), EndsOfChain(w2), EndsOfChain(w3)}) = 3
    BY <1>5, <2>1
  <2> DEFINE x == EndsOfChain(w)
             y == EndsOfChain(w2)
             z == EndsOfChain(w3)
  <2>3. Cardinality({x, y, z}) = 3
    BY <2>2
  <2>4. Cardinality({x, y, z}) = 3 <=> x # y /\ x # z /\ y # z
    BY CardinalityOfThree
  <2> HIDE DEF x, y, z
  <2>5. x # y /\ x # z /\ y # z
    BY <2>3, <2>4
  <2> QED BY <2>5 DEF x, y, z
<1>11. J = EndsOfChain(w) \cup EndsOfChain(w2) \cup EndsOfChain(w3)
  BY <1>2
<1>12. IsFiniteSet(J)
  <2>1. IsFiniteSet(EndsOfChain(w)) /\ IsFiniteSet(EndsOfChain(w2)) /\ IsFiniteSet(EndsOfChain(w3))
    <3>1. \A u \in X : IsFiniteSet({At(<<u, "A">>), At(<<u, "B">>)})
      BY CardinalityOfTwo
    <3> HIDE DEF At
    <3> QED BY <1>8, <3>1
  <2>2. IsFiniteSet(EndsOfChain(w) \cup EndsOfChain(w2))
    BY <2>1, FS_Union
  <2>3. IsFiniteSet(EndsOfChain(w) \cup EndsOfChain(w2) \cup EndsOfChain(w3))
    BY <2>1, <2>2, FS_Union
  <2> HIDE DEF J
  <2> QED BY <1>11, <2>3
<1>13. EndsOfChain(w) = {a, b} /\ a # b
  BY <1>8, <1>9
<1> HIDE DEF J, At, a, b, sA, sB
<1>14. a \in J /\ b \in J
  BY <1>11, <1>13
<1>15. PICK r \in J : r # a /\ r # b /\ J = {a, b, r}
  BY <1>6, <1>12, <1>13, <1>14, ThirdElement
<1>16. ASSUME NEW u \in X, u # w
       PROVE  EndsOfChain(u) = {a, r} \/ EndsOfChain(u) = {b, r}
  <2>1. EndsOfChain(u) # EndsOfChain(w)
    BY <1>2, <1>10, <1>16
  <2>2. PICK x, y : x # y /\ EndsOfChain(u) = {x, y}
    BY <1>8, <1>9
  <2>3. x \in {a, b, r} /\ y \in {a, b, r}
    <3>1. EndsOfChain(u) \subseteq J
      BY <1>2, <1>11
    <3> QED BY <1>15, <2>2, <3>1
  <2> QED BY <1>13, <2>1, <2>2, <2>3
<1>17. PICK u \in X, m \in X : u # w /\ m # w /\ u # m /\ X = {w, u, m} /\ EndsOfChain(u) = {a, r} /\ EndsOfChain(m) = {b, r}
  <2>1. EndsOfChain(w2) = {a, r} \/ EndsOfChain(w2) = {b, r}
    BY <1>2, <1>16
  <2>2. EndsOfChain(w3) = {a, r} \/ EndsOfChain(w3) = {b, r}
    BY <1>2, <1>16
  <2>3. CASE EndsOfChain(w2) = {a, r}
    <3>1. EndsOfChain(w3) = {b, r}
      BY <1>10, <2>2, <2>3
    <3> QED BY <1>2, <2>3, <3>1
  <2>4. CASE EndsOfChain(w2) = {b, r}
    <3>1. EndsOfChain(w3) = {a, r}
      BY <1>10, <2>2, <2>4
    <3>2. X = {w, w3, w2}
      BY <1>2
    <3> QED BY <1>2, <2>4, <3>1, <3>2
  <2> QED BY <2>1, <2>3, <2>4
<1>18. PICK s \in EndSlots(gr) : s[1] = u /\ At(s) = a /\ At(OppSlot(s)) = r
  <2>1. u \in DOMAIN gr.cn /\ a # r
    BY <1>3, <1>15
  <2>2. \E s \in EndSlots(gr) : /\ s[1] = u /\ VertexAtEnd(gr, s) = a
                                 /\ VertexAtEnd(gr, OppSlot(s)) = r
    BY <1>17, <2>1, SlotAtVertex
  <2> QED BY <2>2 DEF At
<1>19. PICK t \in EndSlots(gr) : t[1] = m /\ At(t) = b /\ At(OppSlot(t)) = r
  <2>1. m \in DOMAIN gr.cn /\ b # r
    BY <1>3, <1>15
  <2>2. \E t \in EndSlots(gr) : /\ t[1] = m /\ VertexAtEnd(gr, t) = b
                                 /\ VertexAtEnd(gr, OppSlot(t)) = r
    BY <1>17, <2>1, SlotAtVertex
  <2> QED BY <2>2 DEF At
<1>20. \A x, y \in EndSlots(gr) : y \in Ngs(gr, x) <=> x # y /\ At(x) = At(y)
  BY DEF NeighboursShareVertex, At
<1>21. OppSlot(s) \in EndSlots(gr) /\ OppSlot(t) \in EndSlots(gr)
       /\ OppSlot(s)[1] = u /\ OppSlot(t)[1] = m
  <2>1. OppSlot(s) \in EndSlots(gr) /\ OppSlot(t) \in EndSlots(gr)
    BY <1>0, SlotsAreEnds
  <2> QED BY <1>18, <1>19, <2>1 DEF OppSlot
<1>22. s # sA /\ t # sB /\ At(sA) = a /\ At(sB) = b
  BY <1>17, <1>18, <1>19 DEF sA, sB, a, b
<1>23. s \in Ngs(gr, sA) /\ t \in Ngs(gr, sB) /\ OppSlot(t) \in Ngs(gr, OppSlot(s))
  BY <1>7, <1>17, <1>18, <1>19, <1>20, <1>21, <1>22
<1>24. Cardinality({w, s[1], t[1]}) = 3
  BY <1>17, <1>18, <1>19, CardinalityOfThree
<1>25. \A x \in X : IsEligible(gr, x)
  <2> SUFFICES ASSUME NEW x \in X PROVE IsEligible(gr, x)
    OBVIOUS
  <2>1. At(<<x, "A">>) # At(<<x, "B">>)
    BY <1>9
  <2>2. At(<<x, "A">>) \in J /\ At(<<x, "B">>) \in J
    BY <1>2, <1>8, <1>11
  <2>3. Deg(gr, At(<<x, "A">>)) >= 3 /\ Deg(gr, At(<<x, "B">>)) >= 3
    BY <1>6, <2>2
  <2> QED BY <1>0, <1>3, <2>1, <2>3, EligibleByRecords DEF At
<1>26. FoundTriangle(c, w, s, t)
  <2>1. \A x \in {w, s[1], t[1]} : IsEligible(gr, x)
    BY <1>17, <1>18, <1>19, <1>25
  <2>2. At(OppSlot(s)) \notin {a, b}
    BY <1>15, <1>18
  <2> QED BY <1>23, <1>24, <2>1, <2>2 DEF FoundTriangle, ClosesTriangle, sA, sB, a, b, At
<1> QED BY <1>17, <1>18, <1>19, <1>26

LEMMA TrianglesFromRecords ==
  ASSUME TypeOK, RecordsAgree, DescriptorsAgree, NeighboursShareVertex, ChainsAreMaximal
  PROVE  TrianglesAreFound
<1> SUFFICES ASSUME NEW c \in DOMAIN gr.ct
    PROVE  LET ends(w) == {VertexAtEnd(gr, <<w, e>>) : e \in End}
               threes == {W \in SUBSET ToSet(gr.ct[c].ww) : Cardinality(W) = 3}
               joined(W) == UNION {ends(w) : w \in W}
           IN  ChainTriangles(gr, c) =
                 {<<W, joined(W)>> : W \in
                    {X \in threes : /\ \A w \in X : Cardinality(ends(w)) = 2
                                    /\ Cardinality({ends(w) : w \in X}) = 3
                                    /\ Cardinality(joined(X)) = 3
                                    /\ \A v \in joined(X) : Deg(gr, v) >= 3}}
  BY DEF TrianglesAreFound
<1> DEFINE ww == ToSet(gr.ct[c].ww)
           joined(W) == UNION {EndsOfChain(w) : w \in W}
           threes == {W \in SUBSET ww : Cardinality(W) = 3}
           R == {<<W, joined(W)>> : W \in {X \in threes : IsTriangle(X)}}
           F == {x \in ww \X EndSlots(gr) \X EndSlots(gr) : FoundTriangle(c, x[1], x[2], x[3])}
           out(x) == <<{x[1], x[2][1], x[3][1]},
                       {VertexAtEnd(gr, <<x[1], "A">>), VertexAtEnd(gr, <<x[1], "B">>),
                        VertexAtEnd(gr, OppSlot(x[2]))}>>
<1>1. ChainTriangles(gr, c) = {out(x) : x \in F}
  BY DEF ChainTriangles, FoundTriangle
<1>2. ASSUME NEW x \in F PROVE out(x) \in R
  <2>1. x[1] \in ww /\ x[2] \in EndSlots(gr) /\ x[3] \in EndSlots(gr)
        /\ FoundTriangle(c, x[1], x[2], x[3])
    OBVIOUS
  <2> DEFINE X == {x[1], x[2][1], x[3][1]}
  <2>2. /\ X \in SUBSET ww /\ Cardinality(X) = 3 /\ IsTriangle(X)
        /\ joined(X) = {VertexAtEnd(gr, <<x[1], "A">>), VertexAtEnd(gr, <<x[1], "B">>),
                        VertexAtEnd(gr, OppSlot(x[2]))}
    BY <2>1, FoundIsTriangle, ZenonT(60)
  <2>3. out(x) = <<X, joined(X)>>
    BY <2>2
  <2> HIDE DEF X, joined, out
  <2> QED BY <2>2, <2>3
<1>3. ASSUME NEW X \in threes, IsTriangle(X) PROVE \E x \in F : <<X, joined(X)>> = out(x)
  <2>1. X \in SUBSET ww /\ Cardinality(X) = 3
    OBVIOUS
  <2>2. IsFiniteSet(X)
    <3>1. X \in SUBSET DOMAIN gr.cn
      BY <2>1 DEF RecordsAgree, ChainIndexesAgree
    <3> HIDE DEF threes
    <3> QED BY <3>1, ChainsAreFinite, FS_Subset
  <2>3. PICK w \in X : \E s \in EndSlots(gr), t \in EndSlots(gr) :
           FoundTriangle(c, w, s, t) /\ X = {w, s[1], t[1]}
    BY <1>3, <2>1, <2>2, TriangleIsFound
  <2>4. PICK s \in EndSlots(gr), t \in EndSlots(gr) :
           FoundTriangle(c, w, s, t) /\ X = {w, s[1], t[1]}
    BY <2>3
  <2>5. w \in ww
    BY <2>1
  <2> DEFINE x == <<w, s, t>>
  <2>6. x \in F
    BY <2>4, <2>5
  <2>7. joined({w, s[1], t[1]}) = {VertexAtEnd(gr, <<w, "A">>), VertexAtEnd(gr, <<w, "B">>),
                                   VertexAtEnd(gr, OppSlot(s))}
    BY <2>4, <2>5, FoundIsTriangle
  <2>8. <<X, joined(X)>> = out(x)
    <3> HIDE DEF joined
    <3> QED BY <2>4, <2>7
  <2> QED BY <2>6, <2>8
<1>4. {out(x) : x \in F} = R
  <2> HIDE DEF F, out, joined, threes
  <2> QED BY <1>2, <1>3
<1>5. ChainTriangles(gr, c) = R
  BY <1>1, <1>4
<1> QED BY <1>5 DEF IsTriangle, EndsOfChain

\* What the analysers answer from links and lists (list_edges, is_neig_of,
\* are_adjacent, is_cycle, the triangles of a component) is what the vertices of the
\* edges say, for a graph of any size whose records agree.
THEOREM QueriesFollowTheRecords ==
  TypeOK /\ RecordsAgree /\ DescriptorsAgree /\ NeighboursShareVertex /\ ChainsAreMaximal
    => QueriesAgree
BY NeighboursFromRecords, AdjacencyFromRecords, CyclesFromRecords, TrianglesFromRecords
   DEF RecordsAgree, QueriesAgree
=============================================================================
