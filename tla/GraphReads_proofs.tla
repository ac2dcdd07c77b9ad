-------------------------- MODULE GraphReads_proofs --------------------------
(***************************************************************************)
(* What is read of a graph whose records agree, of any size: the cached    *)
(* list of vertices with its hints, and what transformations look up.      *)
(***************************************************************************)
EXTENDS VertexDescriptors, GraphLookups, SharedLemmas, SequenceTheorems, TLAPS

-----------------------------------------------------------------------------
(* Places in a list of pairs                                               *)

\* The places given to the pairs of a finite set are 1 to their number, each once.
LEMMA PlacesAreDense ==
  ASSUME NEW S, S \subseteq Nat \X Nat, IsFiniteSet(S)
  PROVE  /\ Cardinality(S) \in Nat
         /\ \A x \in S : Place(S, x) \in 1..Cardinality(S)
         /\ \A x, y \in S : Place(S, x) = Place(S, y) => x = y
         /\ \A i \in 1..Cardinality(S) : \E x \in S : Place(S, x) = i
<1> DEFINE n == Cardinality(S)
           before(x) == {y \in S : IsBefore(y, x)}
<1>1. n \in Nat
  BY FS_CardinalityType
<1>2. ASSUME NEW x \in S
      PROVE  IsFiniteSet(before(x)) /\ Cardinality(before(x)) \in Nat /\ Cardinality(before(x)) < n
  <2>1. x \notin before(x)
    BY DEF IsBefore
  <2>2. before(x) \in SUBSET S
    OBVIOUS
  <2> HIDE DEF before
  <2>3. IsFiniteSet(before(x)) /\ Cardinality(before(x)) <= n
        /\ (n = Cardinality(before(x)) => S = before(x))
    BY <2>2, FS_Subset
  <2>4. Cardinality(before(x)) \in Nat
    BY <2>3, FS_CardinalityType
  <2> HIDE DEF n
  <2> QED BY <1>1, <2>1, <2>3, <2>4
<1>3. ASSUME NEW x \in S, NEW y \in S, IsBefore(x, y)
      PROVE  Cardinality(before(x)) < Cardinality(before(y))
  <2>1. before(x) \in SUBSET before(y)
    <3> SUFFICES ASSUME NEW z \in S, IsBefore(z, x) PROVE IsBefore(z, y)
      OBVIOUS
    <3>1. /\ x[1] \in Nat /\ x[2] \in Nat /\ y[1] \in Nat /\ y[2] \in Nat
          /\ z[1] \in Nat /\ z[2] \in Nat
      OBVIOUS
    <3> QED BY <1>3, <3>1 DEF IsBefore
  <2>2. x \in before(y) /\ x \notin before(x)
    BY <1>3 DEF IsBefore
  <2> HIDE DEF before
  <2>3. Cardinality(before(x)) <= Cardinality(before(y))
        /\ (Cardinality(before(y)) = Cardinality(before(x)) => before(y) = before(x))
    BY <1>2, <2>1, FS_Subset
  <2> QED BY <1>2, <2>2, <2>3
<1>4. \A x \in S : Place(S, x) = 1 + Cardinality(before(x))
  BY DEF Place
<1>5. \A x \in S : Place(S, x) \in 1..n
  <2> HIDE DEF before, n
  <2> QED BY <1>1, <1>2, <1>4
<1>6. ASSUME NEW x \in S, NEW y \in S, Place(S, x) = Place(S, y) PROVE x = y
  <2>1. x = y \/ IsBefore(x, y) \/ IsBefore(y, x)
    <3>1. x[1] \in Nat /\ x[2] \in Nat /\ y[1] \in Nat /\ y[2] \in Nat
          /\ x = <<x[1], x[2]>> /\ y = <<y[1], y[2]>>
      OBVIOUS
    <3> QED BY <3>1 DEF IsBefore
  <2> HIDE DEF before
  <2> QED BY <1>2, <1>3, <1>4, <1>6, <2>1
<1> DEFINE f == [x \in S |-> Place(S, x)]
<1>7. f \in Injection(S, 1..n)
  <2> HIDE DEF n
  <2> QED BY <1>5, <1>6 DEF Injection, IsInjective
<1>8. IsFiniteSet(1..n) /\ Cardinality(1..n) = n
  <2> HIDE DEF n
  <2>1. 0 \in Int /\ 1 \in Int /\ n \in Int /\ (1 > n => n = 0)
    BY <1>1
  <2> QED BY <1>1, <2>1, FS_Interval
<1>9. f \in Surjection(S, 1..n)
  <2> HIDE DEF f
  <2> QED BY <1>7, <1>8, FS_Injection
<1>10. \A i \in 1..n : \E x \in S : Place(S, x) = i
  <2> HIDE DEF n
  <2> QED BY <1>9 DEF Surjection
<1> QED BY <1>1, <1>5, <1>6, <1>10

-----------------------------------------------------------------------------
(* The listing of the vertices                                             *)

V == DOMAIN gr.vx
NumV == Cardinality(V)

\* Every vertex of the graph is in the list ids, once.
ListsEachOnce(ids) ==
  /\ NumV \in Nat /\ DOMAIN ids = 1..NumV
  /\ \A i \in 1..NumV : ids[i] \in V
  /\ \A i, j \in 1..NumV : ids[i] = ids[j] => i = j
  /\ \A v \in V : \E i \in 1..NumV : ids[i] = v

LEMMA VertexTypes ==
  ASSUME TypeOK
  PROVE  /\ V \subseteq Nat /\ IsFiniteSet(V) /\ NumV \in Nat
         /\ \A v \in V : gr.vx[v].c \in DOMAIN gr.ct
         /\ DOMAIN gr.ct \subseteq Nat
<1>1. gr.nextV \in Nat /\ V \subseteq 1..gr.nextV - 1
  BY DEF TypeOK, V
<1>2. IsFiniteSet(1..gr.nextV - 1)
  BY <1>1, FS_Interval
<1>3. V \subseteq Nat /\ IsFiniteSet(V)
  <2>1. V \in SUBSET (1..gr.nextV - 1) /\ V \subseteq Nat
    BY <1>1
  <2> QED BY <1>2, <2>1, FS_Subset
<1>4. NumV \in Nat
  BY <1>3, FS_CardinalityType DEF NumV
<1>5. \A v \in V : gr.vx[v].c \in DOMAIN gr.ct
  <2>1. \A v \in DOMAIN gr.vx :
          gr.vx[v] \in [c : DOMAIN gr.ct, eds : [DOMAIN gr.vx[v].eds -> 1..gr.ne]]
    BY DEF TypeOK
  <2> QED BY <2>1 DEF V
<1>6. DOMAIN gr.ct \subseteq Nat
  <2>1. PICK X : gr.ct \in Seq(X)
    BY DEF TypeOK
  <2> QED BY <2>1
<1> QED BY <1>3, <1>4, <1>5, <1>6

LEMMA ListingListsEachOnce ==
  ASSUME TypeOK, DescriptorsAgree
  PROVE  ListsEachOnce(Listing(gr))
<1> DEFINE S == Listed(gr)
           pair(v) == <<gr.vx[v].c, v>>
           b == [v \in V |-> pair(v)]
           ids == Listing(gr)
<1>1. S = {pair(v) : v \in V}
  <2>1. \A c \in DOMAIN gr.ct : gr.ct[c].vv = {v \in V : gr.vx[v].c = c}
    BY DEF DescriptorsAgree, V
  <2>2. S \subseteq {pair(v) : v \in V}
    <3> SUFFICES ASSUME NEW c \in DOMAIN gr.ct, NEW v \in gr.ct[c].vv
                 PROVE  \E u \in V : <<c, v>> = pair(u)
      BY DEF Listed
    <3> QED BY <2>1
  <2>3. ASSUME NEW v \in V PROVE pair(v) \in S
    <3>1. gr.vx[v].c \in DOMAIN gr.ct /\ v \in gr.ct[gr.vx[v].c].vv
      BY <2>1, VertexTypes
    <3> QED BY <3>1 DEF Listed
  <2> QED BY <2>2, <2>3
<1>2. S \subseteq Nat \X Nat
  BY <1>1, VertexTypes
<1>3. b \in Bijection(V, S)
  BY <1>1 DEF Bijection, Injection, Surjection, IsInjective
<1>4. IsFiniteSet(S) /\ Cardinality(S) = NumV
  BY <1>3, VertexTypes, FS_Bijection DEF ExistsBijection, NumV
<1> HIDE DEF S
<1>5. /\ \A x, y \in S : Place(S, x) = Place(S, y) => x = y
      /\ \A i \in 1..NumV : \E x \in S : Place(S, x) = i
      /\ \A x \in S : Place(S, x) \in 1..NumV
  BY <1>2, <1>4, PlacesAreDense
<1> DEFINE at(i) == CHOOSE x \in S : Place(S, x) = i
<1>6. \A i \in 1..NumV : at(i) \in S /\ Place(S, at(i)) = i
  BY <1>5
<1>7. ids = [i \in 1..NumV |-> at(i)[2]]
  BY <1>4 DEF Listing, S
<1> HIDE DEF at, ids
<1>8. \A i \in 1..NumV : \E v \in V : at(i) = pair(v) /\ ids[i] = v
  BY <1>1, <1>6, <1>7
<1>9. \A i \in 1..NumV : ids[i] \in V /\ at(i) = pair(ids[i])
  BY <1>8
<1>10. ASSUME NEW i \in 1..NumV, NEW j \in 1..NumV, ids[i] = ids[j] PROVE i = j
  <2>1. at(i) = at(j)
    BY <1>9, <1>10
  <2> QED BY <1>6, <2>1
<1>11. ASSUME NEW v \in V PROVE \E i \in 1..NumV : ids[i] = v
  <2>1. pair(v) \in S
    BY <1>1
  <2> DEFINE i == Place(S, pair(v))
  <2>2. i \in 1..NumV
    BY <1>5, <2>1
  <2>3. at(i) = pair(v)
    BY <1>5, <1>6, <2>1, <2>2
  <2>4. ids[i] = v
    BY <1>7, <2>2, <2>3
  <2> QED BY <2>2, <2>4
<1> QED BY <1>7, <1>9, <1>10, <1>11, VertexTypes DEF ListsEachOnce, ids

-----------------------------------------------------------------------------
(* The cached list as a rebuild leaves it                                  *)

\* The hints lead to the vertices of the list ids.
HintsLeadTo(hints, ids) ==
  \A i \in DOMAIN ids : ids[i] \in DOMAIN hints /\ hints[ids[i]] = i

\* The list and its hints are those of the graph.
Rebuilt ==
  /\ ved = Linked(gr, Unlinked(gr, Listing(gr)), index)
  /\ HintsLeadTo(index, Listing(gr))

\* A hint is a place, if not of this list then of an earlier one.
HintsArePlaces == \A v \in DOMAIN index : index[v] \in Nat \ {0}

\* The inductive invariant: whoever changes the graph marks the list.
CacheIsMarked == HintsArePlaces /\ (~vedStale /\ ~hooked => Rebuilt)

H == DOMAIN gr.eg

LEMMA EdgeTypes ==
  ASSUME TypeOK
  PROVE  \A h \in H : /\ gr.eg[h].vv["A"] \in V /\ gr.eg[h].vv["B"] \in V
                      /\ gr.eg[h].ind \in 1..gr.ne
                      /\ gr.eg[h].c \in DOMAIN gr.ct /\ gr.eg[h].w \in DOMAIN gr.cn
                      /\ gr.eg[h].fwd \in BOOLEAN
<1>1. gr.eg \in [H -> [ind : 1..gr.ne, indc : 1..gr.ne, indw : 1..gr.ne,
                       w : DOMAIN gr.cn, c : DOMAIN gr.ct, fwd : BOOLEAN,
                       vv : [A : V, B : V]]]
  BY DEF TypeOK, H, V
<1> QED BY <1>1

\* The lists lead to the edge.
LEMMA IndexesLeadToEdge ==
  ASSUME EdgeIndexesAgree, NEW h \in H
  PROVE  /\ gr.egl[gr.eg[h].ind].w = gr.eg[h].w /\ gr.egl[gr.eg[h].ind].a = gr.eg[h].indw
         /\ gr.egl[gr.eg[h].ind].h = h
         /\ gr.eg[h].indw \in DOMAIN gr.cn[gr.eg[h].w].g
         /\ gr.cn[gr.eg[h].w].g[gr.eg[h].indw] = h
         /\ gr.eg[h].indc \in DOMAIN gr.ct[gr.eg[h].c].egl
         /\ gr.ct[gr.eg[h].c].egl[gr.eg[h].indc].w = gr.eg[h].w
         /\ gr.ct[gr.eg[h].c].egl[gr.eg[h].indc].a = gr.eg[h].indw
         /\ gr.ct[gr.eg[h].c].egl[gr.eg[h].indc].i = gr.eg[h].ind
         /\ gr.eg[h].c = gr.cn[gr.eg[h].w].c
<1>1. /\ gr.egl[gr.eg[h].ind] = [w |-> gr.eg[h].w, a |-> gr.eg[h].indw, h |-> h]
      /\ gr.eg[h].indw \in DOMAIN gr.cn[gr.eg[h].w].g
      /\ gr.cn[gr.eg[h].w].g[gr.eg[h].indw] = h
      /\ gr.eg[h].indc \in DOMAIN gr.ct[gr.eg[h].c].egl
      /\ gr.ct[gr.eg[h].c].egl[gr.eg[h].indc] = EdgeDescr(gr, h)
      /\ gr.eg[h].c = gr.cn[gr.eg[h].w].c
  BY Zenon DEF EdgeIndexesAgree, H
<1> DEFINE b == gr.egl[gr.eg[h].ind]
           d == gr.ct[gr.eg[h].c].egl[gr.eg[h].indc]
<1>2. b.w = gr.eg[h].w /\ b.a = gr.eg[h].indw /\ b.h = h
  <2>1. b = [w |-> gr.eg[h].w, a |-> gr.eg[h].indw, h |-> h]
    BY <1>1, Zenon
  <2> HIDE DEF b
  <2> QED BY <2>1
<1>3. d = [w |-> gr.eg[h].w, a |-> gr.eg[h].indw, i |-> gr.eg[h].ind]
  BY <1>1, Zenon DEF EdgeDescr
<1>4. d.w = gr.eg[h].w /\ d.a = gr.eg[h].indw /\ d.i = gr.eg[h].ind
  <2> HIDE DEF d
  <2> QED BY <1>3
<1> QED BY <1>1, <1>2, <1>4, Zenon

\* A vertex holds the ends that refer to it, and each leads to its edge.
LEMMA EndsLeadToEdges ==
  ASSUME TypeOK, EdgeIndexesAgree, DescriptorsAgree, NEW v \in V
  PROVE  /\ DOMAIN gr.vx[v].eds = EndsAt(v)
         /\ \A x \in EndsAt(v) :
              /\ x[1] \in H /\ x[2] \in End /\ x = <<x[1], x[2]>> /\ gr.eg[x[1]].vv[x[2]] = v
              /\ gr.egl[gr.ct[gr.vx[v].c].egl[gr.vx[v].eds[x]].i].h = x[1]
<1>1. gr.vx[v].eds = [d \in EndsAt(v) |-> gr.eg[d[1]].indc]
      /\ \A d \in EndsAt(v) : gr.eg[d[1]].c = gr.vx[v].c
  BY DEF DescriptorsAgree, V
<1>2. \A x \in EndsAt(v) : /\ x[1] \in H /\ x[2] \in End /\ x = <<x[1], x[2]>>
                           /\ gr.eg[x[1]].vv[x[2]] = v
  BY DEF EndsAt, Ends, VertexOf, H
<1>3. ASSUME NEW x \in EndsAt(v)
      PROVE  gr.egl[gr.ct[gr.vx[v].c].egl[gr.vx[v].eds[x]].i].h = x[1]
  <2>1. x[1] \in H /\ gr.vx[v].eds[x] = gr.eg[x[1]].indc /\ gr.eg[x[1]].c = gr.vx[v].c
    BY <1>1, <1>2
  <2>2. gr.ct[gr.eg[x[1]].c].egl[gr.eg[x[1]].indc].i = gr.eg[x[1]].ind
        /\ gr.egl[gr.eg[x[1]].ind].h = x[1]
    BY <2>1, IndexesLeadToEdge, Zenon
  <2> QED BY <2>1, <2>2, Zenon
<1> QED BY <1>1, <1>2, <1>3, Zenon

\* The entries of the list and what they say, for the list ids of the vertices.
LEMMA EntriesOfList ==
  ASSUME NEW ids, ListsEachOnce(ids), NEW hints, HintsLeadTo(hints, ids)
  PROVE  LET list == Unlinked(gr, ids)
             full == Linked(gr, list, hints)
         IN  /\ DOMAIN list = 1..NumV /\ Len(list) = NumV
             /\ DOMAIN full = 1..NumV /\ Len(full) = NumV
             /\ \A i \in 1..NumV :
                  /\ list[i].idh = ids[i]
                  /\ full[i].idh = ids[i] /\ full[i].ind = i /\ full[i].ci = gr.vx[ids[i]].c
                  /\ full[i].d = Cardinality(DOMAIN gr.vx[ids[i]].eds)
                  /\ full[i].links = Links(gr, ids[i], list, hints)
                  /\ find(list, hints, ids[i]) = i /\ find(full, hints, ids[i]) = i
<1> DEFINE list == Unlinked(gr, ids)
           full == Linked(gr, list, hints)
           entry(i) == [ci |-> gr.vx[ids[i]].c, ind |-> i, idh |-> ids[i],
                        d |-> Cardinality(DOMAIN gr.vx[ids[i]].eds), links |-> {}]
<1>1. NumV \in Nat /\ DOMAIN ids = 1..NumV
  BY DEF ListsEachOnce
<1>2. list = [i \in 1..NumV |-> entry(i)]
  BY <1>1 DEF Unlinked
<1>3. full = [i \in 1..NumV |-> [entry(i) EXCEPT !.links = Links(gr, ids[i], list, hints)]]
  <2>1. DOMAIN list = 1..NumV /\ \A i \in 1..NumV : list[i] = entry(i) /\ list[i].idh = ids[i]
    BY <1>2
  <2> HIDE DEF list, entry
  <2> QED BY <2>1 DEF Linked
<1>4. DOMAIN list = 1..NumV /\ Len(list) = NumV
  <2> DEFINE X == {entry(i) : i \in 1..NumV}
  <2>1. list \in [1..NumV -> X]
    BY <1>2
  <2> HIDE DEF list, X
  <2>2. list \in Seq(X)
    BY <1>1, <2>1, SeqDef
  <2> QED BY <1>1, <2>1, <2>2, LenProperties
<1>5. DOMAIN full = 1..NumV /\ Len(full) = NumV
  <2> DEFINE X == {full[i] : i \in 1..NumV}
  <2>1. full \in [1..NumV -> X]
    BY <1>3
  <2> HIDE DEF full, X
  <2>2. full \in Seq(X)
    BY <1>1, <2>1, SeqDef
  <2> QED BY <1>1, <2>1, <2>2, LenProperties
<1>6. ASSUME NEW i \in 1..NumV
      PROVE  /\ list[i].idh = ids[i]
             /\ full[i].idh = ids[i] /\ full[i].ind = i /\ full[i].ci = gr.vx[ids[i]].c
             /\ full[i].d = Cardinality(DOMAIN gr.vx[ids[i]].eds)
             /\ full[i].links = Links(gr, ids[i], list, hints)
  <2>1. list[i] = entry(i) /\ full[i] = [entry(i) EXCEPT !.links = Links(gr, ids[i], list, hints)]
    BY <1>2, <1>3
  <2> HIDE DEF list, full
  <2> QED BY <2>1
<1>7. ASSUME NEW i \in 1..NumV
      PROVE  find(list, hints, ids[i]) = i /\ find(full, hints, ids[i]) = i
  <2>1. ids[i] \in DOMAIN hints /\ hints[ids[i]] = i /\ i <= NumV
    BY <1>1 DEF HintsLeadTo
  <2> HIDE DEF list, full
  <2> QED BY <1>4, <1>5, <1>6, <2>1 DEF find
<1> QED BY <1>4, <1>5, <1>6, <1>7

\* The link of the list that edge end x makes, from its vertex to the other one.
LinkOf(hints, x) ==
  [egid |-> gr.eg[x[1]].ind, vid |-> hints[gr.eg[x[1]].vv[Opp(x[2])]]]

LEMMA LinksAreOfEnds ==
  ASSUME TypeOK, EdgeIndexesAgree, DescriptorsAgree, NEW v \in V,
         NEW ids, ListsEachOnce(ids), NEW hints, HintsLeadTo(hints, ids)
  PROVE  Links(gr, v, Unlinked(gr, ids), hints) = {LinkOf(hints, x) : x \in EndsAt(v)}
<1> DEFINE list == Unlinked(gr, ids)
           edge(x) == gr.egl[gr.ct[gr.vx[v].c].egl[gr.vx[v].eds[x]].i].h
           link(x) == [egid |-> gr.eg[edge(x)].ind,
                       vid |-> find(list, hints, OppositeVertex(gr, x, edge(x)))]
<1>1. Links(gr, v, list, hints) = {link(x) : x \in DOMAIN gr.vx[v].eds}
  BY DEF Links
<1>2. DOMAIN gr.vx[v].eds = EndsAt(v) /\ \A x \in EndsAt(v) : edge(x) = x[1]
  BY EndsLeadToEdges, Zenon
<1>3. ASSUME NEW u \in V PROVE find(list, hints, u) = hints[u]
  <2>1. PICK i \in 1..NumV : ids[i] = u
    BY DEF ListsEachOnce
  <2>2. find(list, hints, u) = i
    BY <2>1, EntriesOfList
  <2>3. hints[u] = i
    BY <2>1 DEF HintsLeadTo, ListsEachOnce
  <2> QED BY <2>2, <2>3
<1>4. ASSUME NEW x \in EndsAt(v) PROVE link(x) = LinkOf(hints, x)
  <2> DEFINE u == gr.eg[x[1]].vv[Opp(x[2])]
  <2>1. u \in V
    BY EndsLeadToEdges, EdgeTypes, Zenon DEF End, Opp
  <2>2. OppositeVertex(gr, x, edge(x)) = u
    BY <1>2, Zenon DEF OppositeVertex
  <2> HIDE DEF edge, u, list
  <2>3. find(list, hints, OppositeVertex(gr, x, edge(x))) = hints[u]
    BY <1>3, <2>1, <2>2
  <2> QED BY <1>2, <2>3 DEF LinkOf, u
<1> HIDE DEF link, list, edge
<1>5. Links(gr, v, list, hints) = {LinkOf(hints, x) : x \in EndsAt(v)}
  BY <1>1, <1>2, <1>4
<1> QED BY <1>5 DEF list

LEMMA EndsAreFinite ==
  ASSUME TypeOK, NEW v
  PROVE  IsFiniteSet(EndsAt(v)) /\ Cardinality(EndsAt(v)) \in Nat
<1>1. gr.nextH \in Nat /\ H \subseteq 1..gr.nextH - 1
  BY DEF TypeOK, H
<1>2. IsFiniteSet(1..gr.nextH - 1) /\ H \in SUBSET (1..gr.nextH - 1)
  BY <1>1, FS_Interval
<1>3. IsFiniteSet(H)
  BY <1>2, FS_Subset
<1>4. IsFiniteSet(End)
  <2>1. IsFiniteSet({"A"})
    BY FS_Singleton
  <2>2. End = {"A"} \cup {"B"}
    BY DEF End
  <2> QED BY <2>1, <2>2, FS_AddElement
<1>5. IsFiniteSet(Ends)
  BY <1>3, <1>4, FS_Product DEF Ends, H
<1>6. EndsAt(v) \in SUBSET Ends
  BY DEF EndsAt
<1> QED BY <1>5, <1>6, FS_Subset, FS_CardinalityType

\* No two ends at a vertex make the same link.
LEMMA LinksAreAsManyAsEnds ==
  ASSUME TypeOK, EdgeIndexesAgree, DescriptorsAgree, NEW v \in V, NEW hints
  PROVE  Cardinality({LinkOf(hints, x) : x \in EndsAt(v)}) = Cardinality(EndsAt(v))
<1> DEFINE T == {LinkOf(hints, x) : x \in EndsAt(v)}
           f == [x \in EndsAt(v) |-> LinkOf(hints, x)]
<1>1. ASSUME NEW x \in EndsAt(v), NEW y \in EndsAt(v), LinkOf(hints, x) = LinkOf(hints, y)
      PROVE  x = y
  <2>1. gr.eg[x[1]].ind = gr.eg[y[1]].ind
    BY <1>1 DEF LinkOf
  <2>2. /\ x[1] \in H /\ x[2] \in End /\ x = <<x[1], x[2]>> /\ gr.eg[x[1]].vv[x[2]] = v
        /\ y[1] \in H /\ y[2] \in End /\ y = <<y[1], y[2]>> /\ gr.eg[y[1]].vv[y[2]] = v
    BY EndsLeadToEdges, Zenon
  <2>3. x[1] = y[1]
    <3>1. \A h \in H : gr.egl[gr.eg[h].ind].h = h
      BY IndexesLeadToEdge, Zenon
    <3>2. gr.egl[gr.eg[x[1]].ind].h = x[1]
      BY <2>2, <3>1, Zenon
    <3>3. gr.egl[gr.eg[y[1]].ind].h = y[1]
      BY <2>2, <3>1, Zenon
    <3> QED BY <2>1, <3>2, <3>3
  <2>4. gr.eg[x[1]].vv["A"] # gr.eg[x[1]].vv["B"]
    <3>1. LoopFree
      BY DEF DescriptorsAgree
    <3> QED BY <2>2, <3>1, Zenon DEF LoopFree, H
  <2>5. x[2] = y[2]
    BY <2>2, <2>3, <2>4 DEF End
  <2> QED BY <2>2, <2>3, <2>5
<1>2. f \in Bijection(EndsAt(v), T)
  <2>1. f \in [EndsAt(v) -> T] /\ \A t \in T : \E x \in EndsAt(v) : f[x] = t
    OBVIOUS
  <2>2. \A x, y \in EndsAt(v) : f[x] = f[y] => x = y
    BY <1>1
  <2> HIDE DEF f, T
  <2> QED BY <2>1, <2>2 DEF Bijection, Injection, Surjection, IsInjective
<1> HIDE DEF T, f
<1>3. Cardinality(T) = Cardinality(EndsAt(v))
  BY <1>2, EndsAreFinite, FS_Bijection DEF ExistsBijection
<1> QED BY <1>3 DEF T

\* A rebuilt list is the graph's.
LEMMA RebuiltIsCurrent ==
  ASSUME TypeOK, EdgeIndexesAgree, DescriptorsAgree, Rebuilt
  PROVE  ListsTheVertices /\ LinksFollowEdges
<1> DEFINE ids == Listing(gr)
           list == Unlinked(gr, ids)
<1>1. ListsEachOnce(ids) /\ HintsLeadTo(index, ids)
  BY ListingListsEachOnce DEF Rebuilt
<1> HIDE DEF ids
<1>2. NumV \in Nat /\ DOMAIN ids = 1..NumV
      /\ (\A i \in 1..NumV : ids[i] \in V) /\ (\A v \in V : \E i \in 1..NumV : ids[i] = v)
  BY <1>1 DEF ListsEachOnce
<1>3. DOMAIN ved = 1..NumV /\ Len(ved) = NumV
      /\ \A i \in 1..NumV :
           /\ ved[i].idh = ids[i] /\ ved[i].ind = i /\ ved[i].ci = gr.vx[ids[i]].c
           /\ ved[i].d = Cardinality(DOMAIN gr.vx[ids[i]].eds)
           /\ ved[i].links = Links(gr, ids[i], list, index)
  <2>1. ved = Linked(gr, list, index)
    BY DEF Rebuilt, ids
  <2> QED BY <1>1, <2>1, EntriesOfList
<1> HIDE DEF list
<1>4. \A i \in 1..NumV : DOMAIN gr.vx[ids[i]].eds = EndsAt(ids[i])
  BY <1>2, EndsLeadToEdges, Zenon
<1>5. \A i \in 1..NumV : ved[i].links = {LinkOf(index, x) : x \in EndsAt(ids[i])}
  BY <1>1, <1>2, <1>3, LinksAreOfEnds DEF list
<1>6. \A i \in 1..NumV : Cardinality(ved[i].links) = ved[i].d
  <2> SUFFICES ASSUME NEW i \in 1..NumV PROVE Cardinality(ved[i].links) = ved[i].d
    OBVIOUS
  <2>1. Cardinality({LinkOf(index, x) : x \in EndsAt(ids[i])}) = Cardinality(EndsAt(ids[i]))
    BY <1>2, LinksAreAsManyAsEnds
  <2>2. ved[i].d = Cardinality(EndsAt(ids[i]))
    BY <1>3, <1>4
  <2> QED BY <1>5, <2>1, <2>2
<1>7. \A i \in 1..NumV : index[ids[i]] = i
  BY <1>1, <1>2 DEF HintsLeadTo
<1>8. ListsTheVertices
  <2>1. {ved[i].idh : i \in DOMAIN ved} = V
    BY <1>2, <1>3
  <2>2. \A i \in 1..NumV : ids[i] \in gr.ct[gr.vx[ids[i]].c].vv
    <3>1. \A c \in DOMAIN gr.ct : gr.ct[c].vv = {v \in V : gr.vx[v].c = c}
      BY DEF DescriptorsAgree, V
    <3> QED BY <1>2, <3>1, VertexTypes
  <2> QED BY <1>3, <1>4, <2>1, <2>2 DEF ListsTheVertices, V, NumV
<1>9. ASSUME NEW i \in 1..NumV, NEW l \in ved[i].links
      PROVE  /\ {ved[i].idh, ved[l.vid].idh} = {gr.eg[gr.egl[l.egid].h].vv[e] : e \in End}
             /\ [egid |-> l.egid, vid |-> i] \in ved[l.vid].links
  <2>1. PICK x \in EndsAt(ids[i]) : l = LinkOf(index, x)
    BY <1>5
  <2> DEFINE h == x[1]
             e == x[2]
             u == gr.eg[h].vv[Opp(e)]
  <2>2. h \in H /\ e \in End /\ gr.eg[h].vv[e] = ids[i]
    BY <1>2, EndsLeadToEdges, Zenon
  <2>3. u \in V /\ Opp(e) \in End /\ Opp(Opp(e)) = e /\ End = {e, Opp(e)}
    BY <2>2, EdgeTypes DEF End, Opp
  <2>4. l.egid = gr.eg[h].ind /\ l.vid = index[u]
    BY <2>1 DEF LinkOf
  <2>5. gr.egl[l.egid].h = h
    BY <2>2, <2>4, IndexesLeadToEdge, Zenon
  <2>6. PICK j \in 1..NumV : ids[j] = u /\ l.vid = j
    BY <1>2, <1>7, <2>3, <2>4
  <2> HIDE DEF h, e
  <2>7. {ved[i].idh, ved[l.vid].idh} = {gr.eg[gr.egl[l.egid].h].vv[k] : k \in End}
    BY <1>3, <2>2, <2>3, <2>5, <2>6
  <2> DEFINE y == <<h, Opp(e)>>
  <2>8. y \in EndsAt(ids[j])
    BY <2>2, <2>3, <2>6 DEF EndsAt, Ends, VertexOf, H
  <2>9. LinkOf(index, y) = [egid |-> l.egid, vid |-> i]
    <3>1. y[1] = h /\ y[2] = Opp(e)
      OBVIOUS
    <3> HIDE DEF y
    <3> QED BY <1>7, <2>2, <2>3, <2>4, <3>1 DEF LinkOf
  <2>10. LinkOf(index, y) \in ved[j].links
    BY <1>5, <2>8
  <2> QED BY <2>6, <2>7, <2>9, <2>10
<1>10. LinksFollowEdges
  BY <1>3, <1>6, <1>9 DEF LinksFollowEdges
<1> QED BY <1>8, <1>10

\* A rebuilt list finds the vertices of the graph and no others.
LEMMA RebuiltFindsLiveOnly ==
  ASSUME TypeOK, DescriptorsAgree, Rebuilt, HintsArePlaces, NEW v
  PROVE  IF v \in V
         THEN /\ find(ved, index, v) \in DOMAIN ved /\ ved[find(ved, index, v)].idh = v
              /\ v \in DOMAIN index /\ ved[index[v]].idh = v
         ELSE find(ved, index, v) = undefined
<1> DEFINE ids == Listing(gr)
           list == Unlinked(gr, ids)
<1>1. ListsEachOnce(ids) /\ HintsLeadTo(index, ids)
  BY ListingListsEachOnce DEF Rebuilt
<1> HIDE DEF ids
<1>2. NumV \in Nat /\ DOMAIN ids = 1..NumV
      /\ (\A i \in 1..NumV : ids[i] \in V) /\ (\A u \in V : \E i \in 1..NumV : ids[i] = u)
  BY <1>1 DEF ListsEachOnce
<1>3. DOMAIN ved = 1..NumV /\ Len(ved) = NumV
      /\ \A i \in 1..NumV : ved[i].idh = ids[i] /\ find(ved, index, ids[i]) = i
  <2>1. ved = Linked(gr, list, index)
    BY DEF Rebuilt, ids
  <2> QED BY <1>1, <2>1, EntriesOfList
<1>4. CASE v \in V
  <2>1. PICK i \in 1..NumV : ids[i] = v
    BY <1>2, <1>4
  <2>2. v \in DOMAIN index /\ index[v] = i
    BY <1>1, <1>2, <2>1 DEF HintsLeadTo
  <2> QED BY <1>3, <1>4, <2>1, <2>2
<1>5. CASE v \notin V
  <2>1. \A i \in 1..Len(ved) : ved[i].idh # v
    BY <1>2, <1>3, <1>5
  <2>2. ~(v \in DOMAIN index /\ index[v] <= Len(ved) /\ ved[index[v]].idh = v)
    BY <1>2, <1>3, <2>1 DEF HintsArePlaces
  <2>3. find(ved, index, v) = SelectInSeq(ved, LAMBDA d : d.idh = v)
    BY <2>2 DEF find
  <2>4. SelectInSeq(ved, LAMBDA d : d.idh = v) = 0
    BY <2>1 DEF SelectInSeq
  <2> QED BY <1>5, <2>3, <2>4 DEF undefined
<1> QED BY <1>4, <1>5
-----------------------------------------------------------------------------
(* The mark                                                                *)

LEMMA CacheIsMarkedAtFirst == DescriptorsInit => CacheIsMarked
<1> SUFFICES ASSUME DescriptorsInit PROVE CacheIsMarked
  OBVIOUS
<1>1. DOMAIN index = {} /\ vedStale = TRUE
  BY DEF DescriptorsInit
<1> QED BY <1>1 DEF CacheIsMarked, HintsArePlaces

LEMMA TransformationMarks ==
  ASSUME CacheIsMarked, Transformation \/ CycleMerger \/ UpdateAfterHook
  PROVE  CacheIsMarked'
<1>1. index' = index
  BY DEF Transformation, CycleMerger, UpdateAfterHook
<1>2. HintsArePlaces'
  BY <1>1 DEF CacheIsMarked, HintsArePlaces
<1>3. vedStale' = TRUE \/ hooked' = TRUE
  <2>1. CASE Transformation
    BY <2>1, Zenon DEF Transformation, ChainMerger, OtherMerger, Split, EdgeChange, ComponentChange,
                MarkedByMerger, update, update_vertex_descriptors
  <2>2. CASE CycleMerger
    BY <2>2 DEF CycleMerger
  <2>3. CASE UpdateAfterHook
    BY <2>3 DEF UpdateAfterHook, update, update_vertex_descriptors
  <2> QED BY <2>1, <2>2, <2>3, Zenon
<1> QED BY <1>2, <1>3 DEF CacheIsMarked

LEMMA ReadRebuilds ==
  ASSUME TypeOK, DescriptorsAgree, CacheIsMarked, Read
  PROVE  CacheIsMarked'
<1> DEFINE ids == Listing(gr)
           hints == set_index(index, ids)
           place(v) == CHOOSE i \in DOMAIN ids : ids[i] = v
<1>1. ListsEachOnce(ids)
  BY ListingListsEachOnce
<1>2. gr' = gr /\ ved' = Linked(gr, Unlinked(gr, ids), hints) /\ index' = hints
  BY DEF Read, refresh_vertex_descriptors, set
<1>3. (Listing(gr))' = ids
  BY <1>2
<1> HIDE DEF ids
<1>4. DOMAIN ids = 1..NumV /\ \A i, j \in DOMAIN ids : ids[i] = ids[j] => i = j
  BY <1>1 DEF ListsEachOnce
<1>5. \A i \in DOMAIN ids : ids[i] \in ToSet(ids) /\ place(ids[i]) = i
  BY <1>4 DEF ToSet
<1>6. hints = [v \in ToSet(ids) \cup DOMAIN index |->
                 IF v \in ToSet(ids) THEN place(v) ELSE index[v]]
  BY DEF set_index
<1>7. \A v \in ToSet(ids) : place(v) \in DOMAIN ids
  BY DEF ToSet
<1>8. \A i \in DOMAIN ids : i \in Nat \ {0}
  BY <1>1, <1>4 DEF ListsEachOnce
<1> HIDE DEF place, hints
<1>9. HintsArePlaces'
  <2>1. \A v \in DOMAIN hints : hints[v] \in Nat \ {0}
    BY <1>6, <1>7, <1>8 DEF CacheIsMarked, HintsArePlaces
  <2> QED BY <1>2, <2>1 DEF HintsArePlaces
<1>10. HintsLeadTo(hints, ids)
  BY <1>5, <1>6 DEF HintsLeadTo
<1>11. Rebuilt'
  <2>1. ved' = Linked(gr', Unlinked(gr', ids), index')
    BY <1>2
  <2>2. HintsLeadTo(index', ids)
    BY <1>2, <1>10
  <2> QED BY <1>3, <2>1, <2>2 DEF Rebuilt
<1> QED BY <1>9, <1>11 DEF CacheIsMarked

LEMMA CacheStaysMarked ==
  ASSUME TypeOK, DescriptorsAgree, CacheIsMarked, [DescriptorsNext]_vars
  PROVE  CacheIsMarked'
<1>1. CASE Transformation \/ CycleMerger \/ UpdateAfterHook
  BY <1>1, TransformationMarks
<1>2. CASE Read
  BY <1>2, ReadRebuilds
<1>3. CASE UNCHANGED vars
  BY <1>3 DEF vars, CacheIsMarked, HintsArePlaces, Rebuilt
<1> QED BY <1>1, <1>2, <1>3 DEF DescriptorsNext

\* Whatever is called and read in whatever order: the descriptors of vertices that are
\* read between calls describe the graph as it is, if its other records agree
\* (containers/vertices_in_graph.h, graph/descriptors.h).
THEOREM VertexDescriptorsReadsAreCurrent ==
  DescriptorsSpec /\ [](TypeOK /\ RecordsAgree /\ DescriptorsAgree) => []ReadsAreCurrent
<1>1. DescriptorsInit => CacheIsMarked
  BY CacheIsMarkedAtFirst
<1>2. TypeOK /\ RecordsAgree /\ DescriptorsAgree /\ CacheIsMarked /\ [DescriptorsNext]_vars
        => CacheIsMarked'
  BY CacheStaysMarked
<1>3. TypeOK /\ RecordsAgree /\ DescriptorsAgree /\ CacheIsMarked => ReadsAreCurrent
  BY RebuiltIsCurrent DEF RecordsAgree, CacheIsMarked, ReadsAreCurrent
<1> QED BY <1>1, <1>2, <1>3, PTL DEF DescriptorsSpec

\* A vertex is found by its number exactly while it is in the graph, however many
\* hints of removed vertices the table still has (find, containers/vertices_in_graph.h).
THEOREM VertexDescriptorsFindLiveOnly ==
  DescriptorsSpec /\ [](TypeOK /\ RecordsAgree /\ DescriptorsAgree)
    => []OnlyLiveVerticesAreFound
<1>1. DescriptorsInit => CacheIsMarked
  BY CacheIsMarkedAtFirst
<1>2. TypeOK /\ RecordsAgree /\ DescriptorsAgree /\ CacheIsMarked /\ [DescriptorsNext]_vars
        => CacheIsMarked'
  BY CacheStaysMarked
<1>3. TypeOK /\ RecordsAgree /\ DescriptorsAgree /\ CacheIsMarked => OnlyLiveVerticesAreFound
  BY RebuiltFindsLiveOnly DEF CacheIsMarked, OnlyLiveVerticesAreFound, V
<1> QED BY <1>1, <1>2, <1>3, PTL DEF DescriptorsSpec

-----------------------------------------------------------------------------
(* Small sets                                                              *)

LEMMA CardinalityOfTwo ==
  ASSUME NEW x, NEW y
  PROVE  /\ IsFiniteSet({x, y})
         /\ Cardinality({x, y}) = IF x = y THEN 1 ELSE 2
<1>1. IsFiniteSet({x}) /\ Cardinality({x}) = 1
  BY FS_Singleton
<1>2. {x, y} = {x} \cup {y}
  OBVIOUS
<1>3. /\ IsFiniteSet({x} \cup {y})
      /\ Cardinality({x} \cup {y}) = IF y \in {x} THEN Cardinality({x}) ELSE Cardinality({x}) + 1
  BY <1>1, FS_AddElement
<1>4. CASE x = y
  BY <1>1, <1>2, <1>3, <1>4
<1>5. CASE x # y
  <2>1. y \notin {x}
    BY <1>5
  <2> QED BY <1>1, <1>2, <1>3, <1>5, <2>1
<1> QED BY <1>4, <1>5

\* What is the only other element of a set of two.
LEMMA TwoElements ==
  ASSUME NEW S, IsFiniteSet(S), Cardinality(S) = 2, NEW x \in S, NEW y \in S, x # y
  PROVE  S = {x, y}
<1>1. {x, y} \in SUBSET S
  OBVIOUS
<1>2. Cardinality({x, y}) = 2
  BY CardinalityOfTwo
<1> QED BY <1>1, <1>2, FS_Subset

LEMMA CardinalityOfThree ==
  ASSUME NEW x, NEW y, NEW z
  PROVE  /\ IsFiniteSet({x, y, z})
         /\ Cardinality({x, y, z}) = 3 <=> x # y /\ x # z /\ y # z
<1>1. IsFiniteSet({x, y}) /\ Cardinality({x, y}) = IF x = y THEN 1 ELSE 2
  BY CardinalityOfTwo
<1>2. {x, y, z} = {x, y} \cup {z}
  OBVIOUS
<1>3. /\ IsFiniteSet({x, y} \cup {z})
      /\ Cardinality({x, y} \cup {z})
           = IF z \in {x, y} THEN Cardinality({x, y}) ELSE Cardinality({x, y}) + 1
  BY <1>1, FS_AddElement
<1>4. z \in {x, y} <=> z = x \/ z = y
  OBVIOUS
<1> DEFINE p == {x, y}
           c == Cardinality(p)
           c3 == Cardinality(p \cup {z})
<1>5. c3 = 3 <=> x # y /\ x # z /\ y # z
  <2>1. c = IF x = y THEN 1 ELSE 2
    BY <1>1
  <2>2. c3 = IF z \in p THEN c ELSE c + 1
    BY <1>3
  <2>3. z \in p <=> z = x \/ z = y
    BY <1>4
  <2> HIDE DEF p, c, c3
  <2> QED BY <2>1, <2>2, <2>3
<1> QED BY <1>2, <1>3, <1>5

LEMMA ThirdElement ==
  ASSUME NEW S, Cardinality(S) = 3, IsFiniteSet(S), NEW x \in S, NEW y \in S, x # y
  PROVE  \E z \in S : z # x /\ z # y /\ S = {x, y, z}
<1>1. Cardinality({x, y}) = 2
  BY CardinalityOfTwo
<1>2. S # {x, y}
  BY <1>1
<1>3. PICK z \in S : z # x /\ z # y
  BY <1>2
<1>4. {x, y, z} \in SUBSET S
  OBVIOUS
<1>5. Cardinality({x, y, z}) = 3
  BY <1>3, CardinalityOfThree
<1>6. S = {x, y, z}
  BY <1>4, <1>5, FS_Subset
<1> QED BY <1>3, <1>6

\* A set of three has three elements.
LEMMA ThreeElements ==
  ASSUME NEW S, IsFiniteSet(S), Cardinality(S) = 3
  PROVE  \E x, y, z \in S : x # y /\ x # z /\ y # z /\ S = {x, y, z}
<1>1. S # {}
  BY FS_EmptySet
<1>2. PICK x \in S : TRUE
  BY <1>1
<1>3. Cardinality({x}) = 1
  BY FS_Singleton
<1>4. S # {x}
  BY <1>3
<1>5. PICK y \in S : y # x
  BY <1>2, <1>4
<1>6. PICK z \in S : z # x /\ z # y /\ S = {x, y, z}
  BY <1>5, ThirdElement
<1> QED BY <1>5, <1>6

-----------------------------------------------------------------------------
(* Where edges are found                                                   *)

\* Edges and their indexes in a chain of a graph whose indexes agree.
LEMMA ChainsHoldEdges ==
  ASSUME TypeOK, EdgeIndexesAgree, NEW w \in DOMAIN gr.cn
  PROVE  /\ Length(gr, w) \in Nat \ {0}
         /\ DOMAIN gr.cn[w].g = 1..Length(gr, w)
         /\ \A a \in 1..Length(gr, w) :
              /\ gr.cn[w].g[a] \in H
              /\ gr.eg[gr.cn[w].g[a]].w = w /\ gr.eg[gr.cn[w].g[a]].indw = a
         /\ EndEdge(gr, <<w, "A">>) = gr.cn[w].g[1]
         /\ EndEdge(gr, <<w, "B">>) = gr.cn[w].g[Length(gr, w)]
         /\ Head(gr.cn[w].g) = gr.cn[w].g[1]
         /\ Last(gr.cn[w].g) = gr.cn[w].g[Length(gr, w)]
<1> DEFINE g == gr.cn[w].g
<1>1. g \in Seq(H) \ {<<>>}
  <2>1. PICK N, W, C : gr.cn \in Seq([g : Seq(H) \ {<<>>}, ngs : N, idw : W, idc : W, c : C])
    BY DEF TypeOK, H
  <2>2. gr.cn[w] \in [g : Seq(H) \ {<<>>}, ngs : N, idw : W, idc : W, c : C]
    <3> DEFINE R == [g : Seq(H) \ {<<>>}, ngs : N, idw : W, idc : W, c : C]
    <3>1. gr.cn \in Seq(R)
      BY <2>1
    <3> HIDE DEF R
    <3>2. w \in 1..Len(gr.cn)
      BY <3>1
    <3>3. gr.cn[w] \in R
      BY <3>1, <3>2, ElementOfSeq
    <3> QED BY <3>3 DEF R
  <2> DEFINE m == gr.cn[w]
  <2>3. m.g \in Seq(H) \ {<<>>}
    <3> HIDE DEF m
    <3>1. m \in [g : Seq(H) \ {<<>>}, ngs : N, idw : W, idc : W, c : C]
      BY <2>2 DEF m
    <3> QED BY <3>1
  <2> QED BY <2>3
<1>2. \A a \in DOMAIN g : gr.eg[g[a]].w = w /\ gr.eg[g[a]].indw = a
  BY Zenon DEF EdgeIndexesAgree
<1> HIDE DEF g
<1>3. Len(g) \in Nat \ {0} /\ DOMAIN g = 1..Len(g) /\ \A a \in 1..Len(g) : g[a] \in H
  <2>1. Len(g) # 0
    BY <1>1, EmptySeq
  <2> QED BY <1>1, <2>1
<1>4. Head(g) = g[1] /\ Last(g) = g[Len(g)]
  BY <1>1 DEF Last
<1> QED BY <1>2, <1>3, <1>4 DEF g, Length, EndEdge

LEMMA IndexesAreOfOneEdge ==
  ASSUME EdgeIndexesAgree, NEW h \in H, NEW k \in H, gr.eg[h].ind = gr.eg[k].ind
  PROVE  h = k
<1>1. gr.egl[gr.eg[h].ind].h = h
  BY IndexesLeadToEdge, Zenon
<1>2. gr.egl[gr.eg[k].ind].h = k
  BY IndexesLeadToEdge, ZenonT(60)
<1> QED BY <1>1, <1>2

LEMMA ComponentIndexesAreOfOneEdge ==
  ASSUME EdgeIndexesAgree, NEW h \in H, NEW k \in H,
         gr.eg[h].indc = gr.eg[k].indc, gr.eg[h].c = gr.eg[k].c
  PROVE  h = k
<1>1. gr.ct[gr.eg[h].c].egl[gr.eg[h].indc].i = gr.eg[h].ind
  BY IndexesLeadToEdge, Zenon
<1>2. gr.ct[gr.eg[k].c].egl[gr.eg[k].indc].i = gr.eg[k].ind
  BY IndexesLeadToEdge, Zenon
<1> QED BY <1>1, <1>2, IndexesAreOfOneEdge

\* The only one there is, is the first.
LEMMA OnlyIsFirst ==
  ASSUME NEW S, NEW x \in Nat, S = {x}
  PROVE  FirstOrUndefined(S) = x
<1>1. x <= x
  OBVIOUS
<1>2. (CHOOSE y \in {x} : \A z \in {x} : y <= z) = x
  BY <1>1
<1> QED BY <1>2 DEF FirstOrUndefined

\* The vertex at an outer end of an edge is that at the inner end it is.
LEMMA OuterEnds ==
  ASSUME TypeOK, NEW h \in H, NEW e \in End
  PROVE  /\ OuterEnd(gr, h, e) \in End
         /\ InnerEnd(gr, h, OuterEnd(gr, h, e)) = e
         /\ VertexAtOuter(gr, h, OuterEnd(gr, h, e)) = gr.eg[h].vv[e]
         /\ OuterEnd(gr, h, e) = "A" <=> gr.eg[h].fwd = (e = "A")
         /\ OuterEnd(gr, h, e) = "B" <=> gr.eg[h].fwd = (e = "B")
<1>1. gr.eg[h].fwd \in BOOLEAN
  BY EdgeTypes
<1> QED BY <1>1 DEF OuterEnd, InnerEnd, VertexAtOuter, End, Opp

-----------------------------------------------------------------------------
(* The edges at a vertex                                                   *)

\* An edge whose outer end e is not the end of its chain meets the next edge there,
\* and nothing else does.
LEMMA InnerVertices ==
  ASSUME TypeOK, EdgeIndexesAgree, ChainsAreMaximal,
         NEW w \in DOMAIN gr.cn, NEW a \in 1..Length(gr, w) - 1
  PROVE  /\ VertexAtOuter(gr, gr.cn[w].g[a], "B") = VertexAtOuter(gr, gr.cn[w].g[a + 1], "A")
         /\ VertexAtBulk(gr, w, a) = VertexAtOuter(gr, gr.cn[w].g[a + 1], "A")
         /\ Cardinality(EndsAt(VertexAtBulk(gr, w, a))) = 2
<1>1. <<w, a>> \in BulkSlots(gr)
  BY DEF BulkSlots
<1> QED BY <1>1 DEF ChainsAreMaximal, VertexAtBulk

-----------------------------------------------------------------------------
LEMMA VerticesFromRecords ==
  ASSUME TypeOK, EdgeIndexesAgree, DescriptorsAgree, NeighboursShareVertex, ChainsAreMaximal
  PROVE  VerticesAreLocated
<1> SUFFICES ASSUME NEW v \in V, NEW d \in DOMAIN gr.vx[v].eds
    PROVE /\ IsInGraph(gr, v, d)
          /\ IF Deg(gr, v) = 2
             THEN LET b == BulkSlotAtVertex(gr, v, d)
                  IN  IF IsValidBulk(gr, b) THEN VertexAtBulk(gr, b[1], b[2]) = v
                      ELSE IsUnconnectedCycle(gr, b[1]) /\ VertexAtEnd(gr, <<b[1], "A">>) = v
             ELSE LET s == EndSlotAtVertex(gr, v, d)
                  IN  EndEdge(gr, s) = d[1] /\ VertexAtEnd(gr, s) = v
  BY DEF VerticesAreLocated, V
<1> DEFINE h == d[1]
           e == d[2]
           w == gr.eg[h].w
           a == gr.eg[h].indw
           n == Length(gr, w)
           g == gr.cn[w].g
           x == gr.ct[gr.vx[v].c].egl[gr.vx[v].eds[d]]
<1>1. d \in EndsAt(v) /\ DOMAIN gr.vx[v].eds = EndsAt(v)
  BY EndsLeadToEdges, Zenon
<1>2. h \in H /\ e \in End /\ gr.eg[h].vv[e] = v
  BY <1>1, EndsLeadToEdges, Zenon
<1>3. gr.vx[v].eds[d] = gr.eg[h].indc /\ gr.eg[h].c = gr.vx[v].c
  BY <1>1, Zenon DEF DescriptorsAgree, V
<1>4. x.w = w /\ x.a = a /\ gr.vx[v].eds[d] \in DOMAIN gr.ct[gr.vx[v].c].egl
  BY <1>2, <1>3, IndexesLeadToEdge, ZenonT(60)
<1>5. w \in DOMAIN gr.cn
  BY <1>2, EdgeTypes
<1>6. /\ n \in Nat \ {0} /\ DOMAIN g = 1..n
      /\ EndEdge(gr, <<w, "A">>) = g[1] /\ EndEdge(gr, <<w, "B">>) = g[n]
  BY <1>5, ChainsHoldEdges, Zenon
<1>7. a \in 1..n /\ g[a] = h
  BY <1>2, <1>6, IndexesLeadToEdge, Zenon
<1>8. IsInGraph(gr, v, d)
  BY <1>2, <1>4, <1>5, <1>6, <1>7, VertexTypes, Zenon DEF IsInGraph
<1> DEFINE o == OuterEnd(gr, h, e)
<1>9. o \in {"A", "B"} /\ VertexAtOuter(gr, h, o) = v
  BY <1>2, OuterEnds DEF End
<1>10. BulkSlotAtVertex(gr, v, d) = IF o = "A" THEN <<w, a - 1>> ELSE <<w, a>>
  <2>1. o = "A" <=> gr.eg[h].fwd = (e = "A")
    BY <1>2, OuterEnds
  <2>2. gr.eg[h].fwd \in BOOLEAN
    BY <1>2, EdgeTypes
  <2> HIDE DEF o, h, e
  <2>3. BulkSlotAtVertex(gr, v, d) = EgEndToBulkSlot(gr, e, w, a)
    BY <1>4 DEF BulkSlotAtVertex, e
  <2>4. EgEndToBulkSlot(gr, e, w, a) = IF (e = "A") = gr.eg[h].fwd THEN <<w, a - 1>> ELSE <<w, a>>
    BY <1>7 DEF EgEndToBulkSlot
  <2> QED BY <2>1, <2>2, <2>3, <2>4
<1>11. EndSlotAtVertex(gr, v, d) = <<w, o>>
  BY <1>4, <1>7, Zenon DEF EndSlotAtVertex
<1>12. Deg(gr, v) = Cardinality(EndsAt(v))
  BY <1>1 DEF Deg
<1> HIDE DEF o, h, e, x, a, n, g, w
<1>13. /\ o = "A" /\ a > 1 => VertexAtBulk(gr, w, a - 1) = v /\ Deg(gr, v) = 2
       /\ o = "B" /\ a < n => VertexAtBulk(gr, w, a) = v /\ Deg(gr, v) = 2
  <2>1. ASSUME NEW k \in 1..n - 1
        PROVE /\ VertexAtOuter(gr, g[k], "B") = VertexAtOuter(gr, g[k + 1], "A")
              /\ VertexAtBulk(gr, w, k) = VertexAtOuter(gr, g[k + 1], "A")
              /\ Cardinality(EndsAt(VertexAtBulk(gr, w, k))) = 2
    BY <1>5, InnerVertices DEF n, g
  <2>2. ASSUME o = "A", a > 1 PROVE VertexAtBulk(gr, w, a - 1) = v /\ Deg(gr, v) = 2
    <3>1. a - 1 \in 1..n - 1 /\ a - 1 + 1 = a
      BY <1>6, <1>7, <2>2
    <3> QED BY <1>7, <1>9, <1>12, <2>1, <2>2, <3>1
  <2>3. ASSUME o = "B", a < n PROVE VertexAtBulk(gr, w, a) = v /\ Deg(gr, v) = 2
    <3>1. a \in 1..n - 1
      BY <1>6, <1>7, <2>3
    <3> QED BY <1>7, <1>9, <1>12, <2>1, <2>3, <3>1
  <2> QED BY <2>2, <2>3
<1>14. (o = "A" /\ a = 1) \/ (o = "B" /\ a = n)
         => EndEdge(gr, <<w, o>>) = h /\ VertexAtEnd(gr, <<w, o>>) = v
  BY <1>6, <1>7, <1>9 DEF VertexAtEnd
<1>15. (o = "A" /\ a = 1) \/ (o = "A" /\ a > 1) \/ (o = "B" /\ a = n) \/ (o = "B" /\ a < n)
  BY <1>6, <1>7, <1>9
<1>16. ASSUME Deg(gr, v) # 2
       PROVE  EndEdge(gr, <<w, o>>) = h /\ VertexAtEnd(gr, <<w, o>>) = v
  BY <1>13, <1>14, <1>15, <1>16
<1>17. ASSUME Deg(gr, v) = 2, VertexAtEnd(gr, <<w, o>>) = v
       PROVE  IsUnconnectedCycle(gr, w) /\ VertexAtEnd(gr, <<w, "A">>) = v
  <2>1. <<w, o>> \in EndSlots(gr)
    BY <1>5, <1>9 DEF EndSlots, End
  <2>2. IsUnconnectedCycle(gr, w)
    BY <1>12, <1>17, <2>1 DEF ChainsAreMaximal
  <2>3. PICK s \in EndSlots(gr) : s[1] = w /\ Ngs(gr, <<w, "A">>) = {s}
    BY <2>2 DEF IsUnconnectedCycle
  <2>4. <<w, "A">> \in EndSlots(gr) /\ <<w, "A">> # s
        /\ VertexAtEnd(gr, <<w, "A">>) = VertexAtEnd(gr, s)
    <3>1. <<w, "A">> \in EndSlots(gr)
      BY <1>5 DEF EndSlots, End
    <3> QED BY <2>3, <3>1 DEF NeighboursShareVertex
  <2>5. s = <<w, "B">>
    BY <2>3, <2>4 DEF EndSlots, End
  <2> QED BY <1>9, <1>17, <2>2, <2>4, <2>5
<1>18. ASSUME Deg(gr, v) = 2, NEW b, b = BulkSlotAtVertex(gr, v, d)
       PROVE IF IsValidBulk(gr, b) THEN VertexAtBulk(gr, b[1], b[2]) = v
             ELSE IsUnconnectedCycle(gr, b[1]) /\ VertexAtEnd(gr, <<b[1], "A">>) = v
  <2>1. b = IF o = "A" THEN <<w, a - 1>> ELSE <<w, a>>
    BY <1>10, <1>18
  <2>2. b[1] = w /\ b[2] = IF o = "A" THEN a - 1 ELSE a
    BY <2>1
  <2>3. IsValidBulk(gr, b) <=> b[2] > 0 /\ b[2] < n
    BY <1>5, <2>2 DEF IsValidBulk, n
  <2>4. CASE IsValidBulk(gr, b)
    <3>1. (o = "A" /\ a > 1) \/ (o = "B" /\ a < n)
      BY <1>6, <1>7, <1>9, <2>2, <2>3, <2>4
    <3> QED BY <1>13, <2>2, <2>4, <3>1
  <2>5. CASE ~IsValidBulk(gr, b)
    <3>1. (o = "A" /\ a = 1) \/ (o = "B" /\ a = n)
      BY <1>6, <1>7, <1>9, <2>2, <2>3, <2>5
    <3> QED BY <1>14, <1>17, <1>18, <2>2, <2>5, <3>1
  <2> QED BY <2>4, <2>5
<1> QED BY <1>8, <1>11, <1>16, <1>18 DEF h

-----------------------------------------------------------------------------
LEMMA ComponentListTypes ==
  ASSUME TypeOK, NEW c \in DOMAIN gr.ct
  PROVE  /\ Len(gr.ct[c].egl) \in Nat
         /\ DOMAIN gr.ct[c].egl = 1..Len(gr.ct[c].egl)
<1>1. PICK X, N, W, U, Y : gr.ct \in Seq([ind : N, ww : W, vv : U, chis : X, egl : Seq(Y)])
  BY DEF TypeOK
<1> DEFINE R == [ind : N, ww : W, vv : U, chis : X, egl : Seq(Y)]
           m == gr.ct[c]
<1>2. gr.ct \in Seq(R)
  BY <1>1
<1> HIDE DEF R, m
<1>3. c \in 1..Len(gr.ct)
  BY <1>2
<1>4. m \in R
  BY <1>2, <1>3, ElementOfSeq DEF m
<1>5. m.egl \in Seq(Y)
  BY <1>4 DEF R
<1> QED BY <1>5 DEF m

\* Every place of a component's list is that of one of its edges.
LEMMA ComponentListIsFull ==
  ASSUME TypeOK, EdgeIndexesAgree, NEW c \in DOMAIN gr.ct, NEW i \in DOMAIN gr.ct[c].egl
  PROVE  \E h \in H : gr.eg[h].c = c /\ gr.eg[h].indc = i
<1> DEFINE E == {h \in H : gr.eg[h].c = c}
           n == Len(gr.ct[c].egl)
           f == [h \in E |-> gr.eg[h].indc]
<1>1. E \in SUBSET (1..gr.nextH - 1) /\ gr.nextH \in Nat
  BY DEF TypeOK, H
<1>2. IsFiniteSet(1..gr.nextH - 1)
  BY <1>1, FS_Interval
<1>3. IsFiniteSet(E)
  BY <1>1, <1>2, FS_Subset
<1>4. n = Cardinality(E)
  BY Zenon DEF EdgeIndexesAgree, NumEdges, H
<1>5. DOMAIN gr.ct[c].egl = 1..n /\ n \in Nat
  BY ComponentListTypes
<1>6. IsFiniteSet(1..n) /\ Cardinality(1..n) = n
  <2> HIDE DEF n
  <2>1. 0 \in Int /\ 1 \in Int /\ n \in Int /\ (1 > n => n = 0)
    BY <1>5
  <2> QED BY <1>5, <2>1, FS_Interval
<1>7. f \in Injection(E, 1..n)
  <2>1. \A h \in E : f[h] \in 1..n
    BY <1>5, IndexesLeadToEdge, Zenon
  <2>2. \A h, k \in E : f[h] = f[k] => h = k
    BY ComponentIndexesAreOfOneEdge
  <2> HIDE DEF n
  <2> QED BY <2>1, <2>2, Zenon DEF Injection, IsInjective
<1> HIDE DEF f, n, E
<1>8. f \in Surjection(E, 1..n)
  BY <1>3, <1>4, <1>6, <1>7, FS_Injection
<1>9. \E h \in E : f[h] = i
  BY <1>5, <1>8 DEF Surjection
<1> QED BY <1>9 DEF E, f

LEMMA EdgesFromRecords ==
  ASSUME TypeOK, EdgeIndexesAgree, ChainsAreMaximal
  PROVE  EdgeEndsAreLocated
<1> SUFFICES ASSUME NEW h \in H, NEW e \in End
    PROVE  LET w == gr.eg[h].w
               a == Ind2a(gr, w, IndOf(h))
               b == NeigAOfEgEnd(gr, w, a, e)
               v == gr.eg[h].vv[e]
               chainEnd == EgEndIsHead(gr, w, IndOf(h), e) \/ EgEndIsTail(gr, w, IndOf(h), e)
           IN  /\ a # Undefined /\ a = Indc2a(gr, w, gr.eg[h].indc)
               /\ Ind2Indc(gr, gr.eg[h].c, IndOf(h)) = gr.eg[h].indc
               /\ chainEnd = (b = Undefined)
               /\ b # Undefined => gr.eg[gr.cn[w].g[b]].vv[InternalEgEnd(gr, w, a, b)] = v
               /\ chainEnd => /\ VertexAtEnd(gr, <<w, Ind2End(gr, w, IndOf(h), e)>>) = v
                              /\ EndSlotAt(gr, w, a, e) = <<w, Ind2End(gr, w, IndOf(h), e)>>
  BY Zenon DEF EdgeEndsAreLocated, H
<1> DEFINE w == gr.eg[h].w
           p == gr.eg[h].indw
           n == Length(gr, w)
           g == gr.cn[w].g
           v == gr.eg[h].vv[e]
           o == OuterEnd(gr, h, e)
<1>1. w \in DOMAIN gr.cn /\ gr.eg[h].fwd \in BOOLEAN
  BY EdgeTypes
<1>2. /\ n \in Nat \ {0} /\ DOMAIN g = 1..n
      /\ EndEdge(gr, <<w, "A">>) = g[1] /\ EndEdge(gr, <<w, "B">>) = g[n]
      /\ Head(g) = g[1] /\ Last(g) = g[n]
  BY <1>1, ChainsHoldEdges
<1>3. \A k \in 1..n : g[k] \in H /\ gr.eg[g[k]].w = w /\ gr.eg[g[k]].indw = k
  BY <1>1, ChainsHoldEdges, Zenon
<1>4. p \in 1..n /\ g[p] = h
  BY <1>2, IndexesLeadToEdge, Zenon
<1>5. \A k \in 1..n : gr.eg[g[k]].ind = gr.eg[h].ind <=> k = p
  <2> SUFFICES ASSUME NEW k \in 1..n, gr.eg[g[k]].ind = gr.eg[h].ind PROVE k = p
    BY <1>4
  <2>1. g[k] = h
    BY <1>3, IndexesAreOfOneEdge, Zenon
  <2> QED BY <1>3, <2>1
<1>6. \A k \in 1..n : gr.eg[g[k]].indc = gr.eg[h].indc <=> k = p
  <2> SUFFICES ASSUME NEW k \in 1..n, gr.eg[g[k]].indc = gr.eg[h].indc PROVE k = p
    BY <1>4
  <2>1. gr.eg[g[k]].c = gr.eg[h].c
    <3>1. PICK j \in H : j = g[k] /\ gr.eg[j].w = w
      BY <1>3, Zenon
    <3>2. gr.eg[j].c = gr.cn[gr.eg[j].w].c
      BY IndexesLeadToEdge, Zenon
    <3>3. gr.eg[h].c = gr.cn[gr.eg[h].w].c
      BY IndexesLeadToEdge, Zenon
    <3> QED BY <3>1, <3>2, <3>3, Zenon
  <2>2. g[k] = h
    BY <1>3, <2>1, ComponentIndexesAreOfOneEdge, Zenon
  <2> QED BY <1>3, <2>2
<1>7. /\ p \in Nat \ {0}
      /\ gr.eg[g[1]].ind = gr.eg[h].ind <=> p = 1
      /\ gr.eg[g[n]].ind = gr.eg[h].ind <=> p = n
  <2>1. 1 \in 1..n /\ n \in 1..n
    BY <1>2
  <2> HIDE DEF g, p
  <2> QED BY <1>2, <1>4, <1>5, <2>1
<1>8. Ind2a(gr, w, IndOf(h)) = p
  <2> DEFINE S == {k \in DOMAIN gr.cn[w].g : gr.eg[gr.cn[w].g[k]].ind = IndOf(h)}
  <2>1. S = {p}
    BY <1>2, <1>4, <1>5, Zenon DEF IndOf
  <2> HIDE DEF S
  <2>2. FirstOrUndefined(S) = p
    BY <1>7, <2>1, OnlyIsFirst, Zenon
  <2> QED BY <2>2, Zenon DEF Ind2a, S
<1>9. Indc2a(gr, w, gr.eg[h].indc) = p
  <2> DEFINE S == {k \in DOMAIN gr.cn[w].g : gr.eg[gr.cn[w].g[k]].indc = gr.eg[h].indc}
  <2>1. S = {p}
    BY <1>2, <1>4, <1>6, Zenon
  <2> HIDE DEF S
  <2>2. FirstOrUndefined(S) = p
    BY <1>7, <2>1, OnlyIsFirst
  <2> QED BY <2>2, Zenon DEF Indc2a, S
<1>10. Ind2Indc(gr, gr.eg[h].c, IndOf(h)) = gr.eg[h].indc
  <2> DEFINE c == gr.eg[h].c
             S == {i \in DOMAIN gr.ct[c].egl : gr.ct[c].egl[i].i = IndOf(h)}
  <2>1. c \in DOMAIN gr.ct /\ gr.eg[h].indc \in DOMAIN gr.ct[c].egl
        /\ gr.ct[c].egl[gr.eg[h].indc].i = IndOf(h)
    BY EdgeTypes, IndexesLeadToEdge, Zenon DEF IndOf
  <2>2. ASSUME NEW i \in S PROVE i = gr.eg[h].indc
    <3>1. PICK k \in H : gr.eg[k].c = c /\ gr.eg[k].indc = i
      BY <2>1, ComponentListIsFull
    <3>2. gr.ct[gr.eg[k].c].egl[gr.eg[k].indc].i = gr.eg[k].ind
      BY IndexesLeadToEdge, Zenon
    <3>3. gr.eg[k].ind = gr.eg[h].ind
      BY <2>2, <3>1, <3>2 DEF IndOf
    <3>4. k = h
      BY <3>3, IndexesAreOfOneEdge
    <3> QED BY <3>1, <3>4
  <2>3. S = {gr.eg[h].indc}
    BY <2>1, <2>2, Zenon
  <2>4. gr.eg[h].indc \in Nat
    BY <2>1, ComponentListTypes
  <2> HIDE DEF S
  <2>5. FirstOrUndefined(S) = gr.eg[h].indc
    BY <2>3, <2>4, OnlyIsFirst
  <2> QED BY <2>5, Zenon DEF Ind2Indc, S
<1>11. /\ o \in {"A", "B"} /\ VertexAtOuter(gr, h, o) = v
       /\ o = "A" <=> gr.eg[h].fwd = (e = "A")
       /\ o = "B" <=> gr.eg[h].fwd = (e = "B")
  BY OuterEnds DEF End
<1> DEFINE b == NeigAOfEgEnd(gr, w, p, e)
<1>12. b = LET k == IF o = "B" THEN p + 1 ELSE p - 1 IN IF k \in 1..n THEN k ELSE 0
  BY <1>2, <1>4, <1>11 DEF NeigAOfEgEnd, Undefined
<1>13. EgEndIsHead(gr, w, IndOf(h), e) <=> o = "B" /\ p = n
  <2> DEFINE l == Last(g)
  <2>1. gr.eg[l].ind = gr.eg[h].ind <=> n = p
    BY <1>2, <1>7, Zenon
  <2>2. n = p => l = h
    BY <1>2, <1>4
  <2>3. EgEndIsHead(gr, w, IndOf(h), e)
          <=> gr.eg[l].ind = gr.eg[h].ind /\ e = IF gr.eg[l].fwd THEN "B" ELSE "A"
    BY DEF EgEndIsHead, IndOf
  <2>4. o = "B" <=> e = IF gr.eg[h].fwd THEN "B" ELSE "A"
    BY <1>1, <1>11 DEF End
  <2> HIDE DEF l, o, g, w, p, n
  <2> QED BY <2>1, <2>2, <2>3, <2>4
<1>14. EgEndIsTail(gr, w, IndOf(h), e) <=> o = "A" /\ p = 1
  <2> DEFINE l == Head(g)
  <2>1. gr.eg[l].ind = gr.eg[h].ind <=> p = 1
    BY <1>2, <1>7, Zenon
  <2>2. p = 1 => l = h
    BY <1>2, <1>4
  <2>3. EgEndIsTail(gr, w, IndOf(h), e)
          <=> gr.eg[l].ind = gr.eg[h].ind /\ e = IF gr.eg[l].fwd THEN "A" ELSE "B"
    BY DEF EgEndIsTail, IndOf
  <2>4. o = "A" <=> e = IF gr.eg[h].fwd THEN "A" ELSE "B"
    BY <1>1, <1>11 DEF End
  <2> HIDE DEF l, o, g, w, p, n
  <2> QED BY <2>1, <2>2, <2>3, <2>4
<1> DEFINE chainEnd == EgEndIsHead(gr, w, IndOf(h), e) \/ EgEndIsTail(gr, w, IndOf(h), e)
<1>15. chainEnd <=> b = Undefined
  <2> HIDE DEF b, o, p, n
  <2> QED BY <1>2, <1>4, <1>11, <1>12, <1>13, <1>14 DEF Undefined
<1>16. chainEnd => (o = "B" /\ p = n) \/ (o = "A" /\ p = 1)
  <2> HIDE DEF o, p, n, w
  <2> QED BY <1>13, <1>14, Zenon
<1>17. ASSUME NEW k \in 1..n - 1
       PROVE  VertexAtOuter(gr, g[k], "B") = VertexAtOuter(gr, g[k + 1], "A")
  BY <1>1, InnerVertices
<1>18. ASSUME b # Undefined PROVE gr.eg[gr.cn[w].g[b]].vv[InternalEgEnd(gr, w, p, b)] = v
  <2>1. \/ b = p + 1 /\ o = "B" /\ p \in 1..n - 1
        \/ b = p - 1 /\ o = "A" /\ b \in 1..n - 1
    <3> HIDE DEF b, o, p, n
    <3> QED BY <1>2, <1>4, <1>11, <1>12, <1>18 DEF Undefined
  <2>2. b \in 1..n
    <3> HIDE DEF b, o, p, n
    <3> QED BY <1>2, <1>4, <2>1
  <2>3. g[b] \in H /\ gr.eg[g[b]].fwd \in BOOLEAN
    BY <1>3, <2>2, EdgeTypes, Zenon
  <2>4. CASE b = p + 1 /\ o = "B" /\ p \in 1..n - 1
    <3>1. VertexAtOuter(gr, g[b], "A") = v
      BY <1>4, <1>11, <1>17, <2>4
    <3>2. InternalEgEnd(gr, w, p, b) = InnerEnd(gr, g[b], "A")
      <4>1. ~(p > b)
        <5> HIDE DEF b, o, p, n
        <5> QED BY <1>7, <2>4
      <4> HIDE DEF b, p, w
      <4>2. (p > b) = FALSE
        BY <4>1
      <4>3. InternalEgEnd(gr, w, p, b) = IF gr.eg[gr.cn[w].g[b]].fwd = FALSE THEN "B" ELSE "A"
        BY <4>2, Zenon DEF InternalEgEnd
      <4> QED BY <2>3, <4>3 DEF InnerEnd, Opp
    <3> QED BY <3>1, <3>2, Zenon DEF VertexAtOuter
  <2>5. CASE b = p - 1 /\ o = "A" /\ b \in 1..n - 1
    <3>1. VertexAtOuter(gr, g[b], "B") = v
      <4>1. b + 1 = p
        <5> HIDE DEF b, o, p, n
        <5> QED BY <1>7, <2>5
      <4> QED BY <1>4, <1>11, <1>17, <2>5, <4>1
    <3>2. InternalEgEnd(gr, w, p, b) = InnerEnd(gr, g[b], "B")
      <4>1. p > b
        <5> HIDE DEF b, o, p, n
        <5> QED BY <1>7, <2>5
      <4> QED BY <2>3, <4>1, Zenon DEF InternalEgEnd, InnerEnd, Opp
    <3> QED BY <3>1, <3>2, Zenon DEF VertexAtOuter
  <2> QED BY <2>1, <2>4, <2>5, Zenon
<1>19. ASSUME chainEnd
       PROVE  /\ VertexAtEnd(gr, <<w, Ind2End(gr, w, IndOf(h), e)>>) = v
              /\ EndSlotAt(gr, w, p, e) = <<w, Ind2End(gr, w, IndOf(h), e)>>
  <2>1. (o = "B" /\ p = n) \/ (o = "A" /\ p = 1)
    <3> HIDE DEF chainEnd
    <3> QED BY <1>19, <1>16, Zenon
  <2>2. EndEdge(gr, <<w, o>>) = h
    BY <1>2, <1>4, <2>1
  <2>3. VertexAtEnd(gr, <<w, o>>) = v
    BY <1>11, <2>2 DEF VertexAtEnd
  <2>4. Ind2End(gr, w, IndOf(h), e) = o
    <3>1. n = 1 => Head(g) = h
      BY <1>2, <1>4
    <3>2. gr.eg[Head(g)].ind = IndOf(h) <=> p = 1
      BY <1>2, <1>7, Zenon DEF IndOf
    <3>3. Ind2End(gr, w, IndOf(h), e) = IF n = 1 THEN OuterEnd(gr, Head(g), e)
                                        ELSE IF gr.eg[Head(g)].ind = IndOf(h) THEN "A" ELSE "B"
      BY DEF Ind2End
    <3>4. n = 1 => Ind2End(gr, w, IndOf(h), e) = o
      BY <3>1, <3>3
    <3> HIDE DEF o, p, n, g, w
    <3> QED BY <1>2, <1>4, <2>1, <3>2, <3>3, <3>4
  <2>5. EndSlotAt(gr, w, p, e) = <<w, o>>
    BY <1>4 DEF EndSlotAt
  <2> QED BY <2>3, <2>4, <2>5
<1>20. chainEnd = (b = Undefined)
  BY <1>15, Zenon
<1> QED BY <1>7, <1>8, <1>9, <1>10, <1>18, <1>19, <1>20, Zenon DEF Undefined

LEMMA LinksFromRecords ==
  ASSUME TypeOK, EdgeIndexesAgree, DescriptorsAgree, NeighboursShareVertex
  PROVE  LinksAreFound
<1> SUFFICES ASSUME NEW s \in EndSlots(gr), NEW t \in EndSlots(gr)
    PROVE  LET i == IndOf(EndEdge(gr, s))
               j == IndOf(EndEdge(gr, t))
               links == IndsToChainLink(gr, i, j)
           IN  /\ s # t /\ VertexAtEnd(gr, s) = VertexAtEnd(gr, t) => <<s, t>> \in links
               /\ \A x \in links :
                    /\ IndOf(EndEdge(gr, x[1])) = i /\ IndOf(EndEdge(gr, x[2])) = j
                    /\ VertexAtEnd(gr, x[1]) = VertexAtEnd(gr, x[2])
                    /\ x[1][2] = Ind2EndWithNeig(gr, x[1][1], i, x[2])
  BY Zenon DEF LinksAreFound
<1> DEFINE w == s[1]
           h == EndEdge(gr, s)
           i == IndOf(h)
           j == IndOf(EndEdge(gr, t))
           n == Length(gr, w)
           g == gr.cn[w].g
<1>1. w \in DOMAIN gr.cn /\ s[2] \in {"A", "B"} /\ s = <<w, s[2]>>
  BY DEF EndSlots, End
<1>2. /\ n \in Nat \ {0}
      /\ EndEdge(gr, <<w, "A">>) = g[1] /\ EndEdge(gr, <<w, "B">>) = g[n]
      /\ Head(g) = g[1]
      /\ \A k \in 1..n : g[k] \in H /\ gr.eg[g[k]].w = w /\ gr.eg[g[k]].indw = k
  BY <1>1, ChainsHoldEdges
<1>3. h = g[IF s[2] = "A" THEN 1 ELSE n] /\ h \in H /\ gr.eg[h].w = w
  BY <1>1, <1>2
<1>4. gr.egl[i].w = w
  BY <1>3, IndexesLeadToEdge, Zenon DEF IndOf
<1>5. SlotsOfEnd(gr, gr.egl[i].w, i) = {x \in {w} \X End : IndOf(EndEdge(gr, x)) = i}
  BY <1>4 DEF SlotsOfEnd, IndOf
<1>6. IndsToChainLink(gr, i, j) =
        {x \in SlotsOfEnd(gr, gr.egl[i].w, i) \X EndSlots(gr) :
           x[2] \in Ngs(gr, x[1]) /\ x[1] \in Ngs(gr, x[2]) /\ IndOf(EndEdge(gr, x[2])) = j}
  BY DEF IndsToChainLink, IndOf
<1> HIDE DEF h, j
<1>7. ASSUME s # t, VertexAtEnd(gr, s) = VertexAtEnd(gr, t)
      PROVE  <<s, t>> \in IndsToChainLink(gr, i, j)
  <2>1. t \in Ngs(gr, s) /\ s \in Ngs(gr, t)
    BY <1>7 DEF NeighboursShareVertex
  <2>2. s \in {x \in {w} \X End : IndOf(EndEdge(gr, x)) = i}
    BY <1>1 DEF End, h
  <2> QED BY <1>5, <1>6, <2>1, <2>2 DEF j
<1>8. ASSUME NEW x \in IndsToChainLink(gr, i, j)
      PROVE  /\ IndOf(EndEdge(gr, x[1])) = i /\ IndOf(EndEdge(gr, x[2])) = j
             /\ VertexAtEnd(gr, x[1]) = VertexAtEnd(gr, x[2])
             /\ x[1][2] = Ind2EndWithNeig(gr, x[1][1], i, x[2])
  <2>1. /\ x[1] \in {w} \X End /\ IndOf(EndEdge(gr, x[1])) = i
        /\ x[2] \in EndSlots(gr) /\ x[2] \in Ngs(gr, x[1]) /\ IndOf(EndEdge(gr, x[2])) = j
    BY <1>5, <1>6
  <2>2. x[1] \in EndSlots(gr) /\ x[1][1] = w /\ x[1][2] \in {"A", "B"} /\ x[1] = <<w, x[1][2]>>
    BY <1>1, <2>1 DEF EndSlots, End
  <2>3. VertexAtEnd(gr, x[1]) = VertexAtEnd(gr, x[2])
    BY <2>1, <2>2 DEF NeighboursShareVertex
  <2>4. CASE n = 1
    <3>1. ASSUME x[1][2] = "B" PROVE x[2] \notin Ngs(gr, <<w, "A">>)
      <4> SUFFICES ASSUME x[2] \in Ngs(gr, <<w, "A">>) PROVE FALSE
        OBVIOUS
      <4>1. <<w, "A">> \in EndSlots(gr)
        BY <1>1 DEF EndSlots, End
      <4>2. VertexAtEnd(gr, <<w, "A">>) = VertexAtEnd(gr, <<w, "B">>)
        BY <2>1, <2>2, <2>3, <3>1, <4>1 DEF NeighboursShareVertex
      <4>3. g[1] \in H
        BY <1>2
      <4>4. VertexAtOuter(gr, g[1], "A") = VertexAtOuter(gr, g[1], "B")
        BY <1>2, <2>4, <4>2 DEF VertexAtEnd
      <4>5. gr.eg[g[1]].vv["A"] # gr.eg[g[1]].vv["B"]
        BY <4>3, Zenon DEF DescriptorsAgree, LoopFree, H
      <4> QED BY <4>4, <4>5, Zenon DEF VertexAtOuter, InnerEnd, Opp
    <3>2. x[1][2] = "A" => x[2] \in Ngs(gr, <<w, "A">>)
      BY <2>1, <2>2
    <3> QED BY <2>1, <2>2, <2>3, <2>4, <3>1, <3>2 DEF Ind2EndWithNeig
  <2>5. CASE n # 1
    <3>1. Ind2EndWithNeig(gr, w, i, x[2]) = IF gr.eg[g[1]].ind = i THEN "A" ELSE "B"
      BY <1>2, <2>5 DEF Ind2EndWithNeig
    <3>2. x[1][2] = "A" => gr.eg[g[1]].ind = i
      BY <1>2, <2>1, <2>2, Zenon DEF IndOf
    <3>3. ASSUME x[1][2] = "B", gr.eg[g[1]].ind = i PROVE FALSE
      <4>1. gr.eg[g[n]].ind = gr.eg[g[1]].ind
        BY <1>2, <2>1, <2>2, <3>3, Zenon DEF IndOf
      <4>2. 1 \in 1..n /\ n \in 1..n
        BY <1>2
      <4>3. g[n] = g[1]
        BY <1>2, <4>1, <4>2, IndexesAreOfOneEdge, Zenon
      <4> QED BY <1>2, <2>5, <4>2, <4>3, Zenon
    <3> QED BY <2>1, <2>2, <2>3, <3>1, <3>2, <3>3
  <2> QED BY <2>4, <2>5
<1> QED BY <1>7, <1>8 DEF h, j

\* In a graph of any size whose records agree, between any calls, transformations
\* that are given a vertex, an edge or a pair of edges find the slot, the edge or the
\* link that is there (chain/indexing.h, component.h, graph/neighbours.h).
THEOREM LookupsFollowTheRecords ==
  TypeOK /\ RecordsAgree /\ DescriptorsAgree /\ NeighboursShareVertex /\ ChainsAreMaximal
    => LookupsAgree
BY VerticesFromRecords, EdgesFromRecords, LinksFromRecords DEF RecordsAgree, LookupsAgree
=============================================================================
