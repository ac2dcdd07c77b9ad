-------------------------- MODULE Multigraph_proofs --------------------------
(***************************************************************************)
(* Proofs about the multigraph: it stays well formed under every step, and *)
(* merging and splitting vertices undo each other.                         *)
(***************************************************************************)
EXTENDS Multigraph, FiniteSetTheorems, TLAPS

-----------------------------------------------------------------------------
(* Ends of edges *)

\* The other end of the other end of an edge is the end itself.
LEMMA OtherEndTwice ==
  ASSUME NEW d \in Ends
  PROVE  OtherEnd(d) \in Ends /\ OtherEnd(OtherEnd(d)) = d /\ OtherEnd(d) # d
BY DEF Ends, OtherEnd

\* What a vertex may hold, it may hold less of, down to one end.
LEMMA PartIsHoldable ==
  ASSUME NEW D, Holdable(D), NEW E \in SUBSET D, E # {}
  PROVE  Holdable(E)
<1>1. IsFiniteSet(E) /\ Cardinality(E) <= Cardinality(D)
  BY FS_Subset DEF Holdable
<1>2. Cardinality(E) \in Nat /\ Cardinality(D) \in Nat
  BY <1>1, FS_CardinalityType DEF Holdable
<1>3. Cardinality(E) <= MaxDegree
  BY <1>1, <1>2, MaxDegreeAssumption DEF Holdable
<1>. QED  BY <1>1, <1>3 DEF Holdable

\* In a well-formed graph the two ends of an edge are at different vertices,
\* and the vertex of an end is unique.
LEMMA OneVertexPerEnd ==
  ASSUME NEW f, WellFormed(f),
         NEW d, NEW u \in DOMAIN f, NEW v \in DOMAIN f, d \in f[u], d \in f[v]
  PROVE  u = v /\ d \in Ends
BY DEF WellFormed, Disjoint, Holdable

-----------------------------------------------------------------------------
(* Each step keeps the graph well formed *)

\* A merger: the ends of both vertices were apart and are at one vertex now.
LEMMA MergeWellFormed ==
  ASSUME WellFormed(at), NEW k, NEW x, Merge(k, x)
  PROVE  WellFormed(at')
<1>. DEFINE S == DOMAIN at \ {x}
<1>1. at' = [v \in S |-> IF v = k THEN at[k] \cup at[x] ELSE at[v]]
  BY DEF Merge, Merged
<1>2. /\ DOMAIN at' = S /\ k \in S
      /\ at'[k] = at[k] \cup at[x]
      /\ \A v \in S \ {k} : at'[v] = at[v]
  BY <1>1 DEF Merge
<1>. HIDE DEF S
<1>3. at' = [v \in DOMAIN at' |-> at'[v]]
  BY <1>1, <1>2
<1>4. DOMAIN at' \subseteq Vertex
  BY <1>2 DEF WellFormed, S
<1>5. \A v \in S : Holdable(at'[v])
  BY <1>2 DEF WellFormed, Merge, S
<1>6. Disjoint(at', S)
  <2>. SUFFICES ASSUME NEW u \in S, NEW v \in S, u # v
                PROVE  at'[u] \cap at'[v] = {}
    BY DEF Disjoint
  <2>1. u \in DOMAIN at /\ v \in DOMAIN at /\ u # x /\ v # x /\ x \in DOMAIN at
    BY DEF S, Merge
  <2>2. at[u] \cap at[v] = {} /\ at[u] \cap at[x] = {} /\ at[x] \cap at[v] = {}
    BY <2>1 DEF WellFormed, Disjoint
  <2>3. CASE u = k
    BY <2>2, <2>3, <1>2
  <2>4. CASE v = k
    BY <2>2, <2>4, <1>2
  <2>5. CASE u # k /\ v # k
    BY <2>2, <2>5, <1>2
  <2>. QED  BY <2>3, <2>4, <2>5
<1>7. Closed(at', S)
  <2>. SUFFICES ASSUME NEW v \in S, NEW d \in at'[v]
                PROVE  \E u \in S : OtherEnd(d) \in at'[u]
    BY DEF Closed
  <2>1. PICK w \in DOMAIN at : d \in at[w]
    BY <1>2 DEF S, Merge
  <2>2. PICK u \in DOMAIN at : OtherEnd(d) \in at[u]
    BY <2>1 DEF WellFormed, Closed
  <2>3. CASE u \in {k, x}
    BY <2>2, <2>3, <1>2
  <2>4. CASE u \notin {k, x}
    BY <2>2, <2>4, <1>2 DEF S
  <2>. QED  BY <2>3, <2>4
<1>. QED  BY <1>2, <1>3, <1>4, <1>5, <1>6, <1>7 DEF WellFormed

\* A split: the parts are not empty and share no end.
LEMMA SplitWellFormed ==
  ASSUME WellFormed(at), NEW k, NEW x, NEW y, NEW D, Split(k, x, y, D)
  PROVE  WellFormed(at')
<1>. DEFINE S == (DOMAIN at \ {k}) \cup {x, y}
<1>1. at' = [v \in S |-> IF v = y THEN D ELSE IF v = x THEN at[k] \ D ELSE at[v]]
  BY DEF Split, Divided
<1>2. /\ DOMAIN at' = S /\ x \in S /\ y \in S
      /\ at'[y] = D /\ at'[x] = at[k] \ D
      /\ \A v \in S \ {x, y} : v \in DOMAIN at /\ v # k /\ at'[v] = at[v]
  BY <1>1 DEF Split
<1>3. \A v \in DOMAIN at \ {k} : v \in S \ {x, y}
  BY DEF Split
<1>. HIDE DEF S
<1>4. at' = [v \in DOMAIN at' |-> at'[v]]
  BY <1>1, <1>2
<1>5. DOMAIN at' \subseteq Vertex
  BY <1>2 DEF WellFormed, Split, S
<1>6. \A v \in S : Holdable(at'[v])
  <2>1. Holdable(at[k]) /\ D \in SUBSET at[k] /\ at[k] \ D \in SUBSET at[k]
        /\ D # {} /\ at[k] \ D # {}
    BY DEF WellFormed, Split
  <2>2. Holdable(D) /\ Holdable(at[k] \ D)
    BY <2>1, PartIsHoldable
  <2>. QED  BY <1>2, <2>2 DEF WellFormed
<1>7. Disjoint(at', S)
  <2>. SUFFICES ASSUME NEW u \in S, NEW v \in S, u # v
                PROVE  at'[u] \cap at'[v] = {}
    BY DEF Disjoint
  <2>1. \A w \in S \ {x, y} : at[w] \cap at[k] = {}
    BY <1>2 DEF WellFormed, Disjoint, Split
  <2>2. CASE u \in {x, y} /\ v \in {x, y}
    BY <1>2, <2>2 DEF Split
  <2>3. CASE u \in {x, y} /\ v \notin {x, y}
    BY <1>2, <2>1, <2>3 DEF Split
  <2>4. CASE u \notin {x, y} /\ v \in {x, y}
    BY <1>2, <2>1, <2>4 DEF Split
  <2>5. CASE u \notin {x, y} /\ v \notin {x, y}
    BY <1>2, <2>5 DEF WellFormed, Disjoint
  <2>. QED  BY <2>2, <2>3, <2>4, <2>5
<1>8. Closed(at', S)
  <2>. SUFFICES ASSUME NEW v \in S, NEW d \in at'[v]
                PROVE  \E u \in S : OtherEnd(d) \in at'[u]
    BY DEF Closed
  <2>1. PICK w \in DOMAIN at : d \in at[w]
    BY <1>2 DEF Split
  <2>2. PICK u \in DOMAIN at : OtherEnd(d) \in at[u]
    BY <2>1 DEF WellFormed, Closed
  <2>3. CASE u = k
    BY <2>2, <2>3, <1>2
  <2>4. CASE u # k
    BY <2>2, <2>4, <1>2, <1>3
  <2>. QED  BY <2>3, <2>4
<1>. QED  BY <1>2, <1>4, <1>5, <1>6, <1>7, <1>8 DEF WellFormed

\* A new edge has both its ends, and what it parts stays apart.
LEMMA ExpandWellFormed ==
  ASSUME WellFormed(at), NEW k, NEW x, NEW h, NEW e, NEW D, Expand(k, x, h, e, D)
  PROVE  WellFormed(at')
<1>. DEFINE p == <<h, e>>
            q == OtherEnd(p)
            S == DOMAIN at \cup {x}
<1>1. at' = [v \in S |-> IF v = k THEN D \cup {p}
                         ELSE IF v = x THEN (at[k] \ D) \cup {q} ELSE at[v]]
  BY DEF Expand, Expanded
<1>2. /\ k \in DOMAIN at /\ x \in Vertex \ DOMAIN at /\ D \subseteq at[k]
      /\ p \in Ends /\ p \notin LiveEnds /\ q \notin LiveEnds
      /\ Holdable(D \cup {p}) /\ Holdable((at[k] \ D) \cup {q})
  BY DEF Expand
<1>3. q \in Ends /\ OtherEnd(q) = p /\ q # p
  BY <1>2, OtherEndTwice
<1>. HIDE DEF p, q
<1>4. /\ DOMAIN at' = S /\ k \in S /\ x \in S /\ k # x
      /\ at'[k] = D \cup {p} /\ at'[x] = (at[k] \ D) \cup {q}
      /\ \A v \in S \ {k, x} : v \in DOMAIN at /\ at'[v] = at[v]
      /\ \A v \in DOMAIN at : p \notin at[v] /\ q \notin at[v]
  BY <1>1, <1>2 DEF LiveEnds
<1>5. \A v \in DOMAIN at \ {k} : v \in S \ {k, x}
  BY <1>2
<1>. HIDE DEF S
<1>6. at' = [v \in DOMAIN at' |-> at'[v]]
  BY <1>1, <1>4
<1>7. DOMAIN at' \subseteq Vertex
  BY <1>2, <1>4 DEF WellFormed, S
<1>8. \A v \in S : Holdable(at'[v])
  BY <1>2, <1>4 DEF WellFormed
<1>9. Disjoint(at', S)
  <2>. SUFFICES ASSUME NEW u \in S, NEW v \in S, u # v
                PROVE  at'[u] \cap at'[v] = {}
    BY DEF Disjoint
  <2>1. \A w \in S \ {k, x} : at[w] \cap at[k] = {} /\ p \notin at[w] /\ q \notin at[w]
    BY <1>2, <1>4 DEF WellFormed, Disjoint
  <2>2. p \notin at[k] /\ q \notin at[k]
    BY <1>2, <1>4
  <2>3. CASE u \in {k, x} /\ v \in {k, x}
    BY <1>2, <1>3, <1>4, <2>2, <2>3
  <2>4. CASE u \in {k, x} /\ v \notin {k, x}
    BY <1>2, <1>4, <2>1, <2>4
  <2>5. CASE u \notin {k, x} /\ v \in {k, x}
    BY <1>2, <1>4, <2>1, <2>5
  <2>6. CASE u \notin {k, x} /\ v \notin {k, x}
    BY <1>4, <2>6 DEF WellFormed, Disjoint
  <2>. QED  BY <2>3, <2>4, <2>5, <2>6
<1>10. Closed(at', S)
  <2>. SUFFICES ASSUME NEW v \in S, NEW d \in at'[v]
                PROVE  \E u \in S : OtherEnd(d) \in at'[u]
    BY DEF Closed
  <2>1. CASE d = p
    BY <1>4, <2>1 DEF q
  <2>2. CASE d = q
    BY <1>3, <1>4, <2>2
  <2>3. CASE d # p /\ d # q
    <3>1. PICK w \in DOMAIN at : d \in at[w]
      BY <1>2, <1>4, <2>3
    <3>2. PICK u \in DOMAIN at : OtherEnd(d) \in at[u]
      BY <3>1 DEF WellFormed, Closed
    <3>3. CASE u = k
      BY <1>2, <1>4, <3>2, <3>3
    <3>4. CASE u # k
      BY <1>4, <1>5, <3>2, <3>4
    <3>. QED  BY <3>3, <3>4
  <2>. QED  BY <2>1, <2>2, <2>3
<1>. QED  BY <1>4, <1>6, <1>7, <1>8, <1>9, <1>10 DEF WellFormed

\* The edge that goes takes both its ends with it, and no others.
LEMMA ContractWellFormed ==
  ASSUME WellFormed(at), NEW k, NEW x, NEW d, Contract(k, x, d)
  PROVE  WellFormed(at')
<1>. DEFINE o == OtherEnd(d)
            S == DOMAIN at \ {x}
            R == (at[k] \ {d}) \cup (at[x] \ {o})
<1>1. at' = [v \in S |-> IF v = k THEN R ELSE at[v]]
  BY DEF Contract, Contracted
<1>2. k \in DOMAIN at /\ x \in DOMAIN at /\ d \in at[k] /\ o \in at[x] /\ Holdable(R)
  BY DEF Contract
<1>3. d \in Ends /\ o \in Ends /\ OtherEnd(o) = d /\ o # d
  BY <1>2, OneVertexPerEnd, OtherEndTwice
<1>4. k # x /\ at[k] \cap at[x] = {}
  BY <1>2, <1>3 DEF WellFormed, Holdable, Disjoint
<1>5. /\ DOMAIN at' = S /\ k \in S /\ at'[k] = R
      /\ \A v \in S \ {k} : v \in DOMAIN at /\ v # x /\ at'[v] = at[v]
  BY <1>1, <1>2, <1>4
<1>6. \A v \in DOMAIN at \ {k, x} : v \in S \ {k}
  OBVIOUS
<1>7. d \notin R /\ o \notin R
  BY <1>2, <1>3, <1>4
<1>8. \A c : c \in R <=> c \in at[k] \cup at[x] /\ c # d /\ c # o
  BY <1>2, <1>3, <1>4
<1>. HIDE DEF S, o, R
<1>9. at' = [v \in DOMAIN at' |-> at'[v]]
  BY <1>1, <1>5
<1>10. DOMAIN at' \subseteq Vertex
  BY <1>2, <1>5 DEF WellFormed, S
<1>11. \A v \in S : Holdable(at'[v])
  BY <1>2, <1>5 DEF WellFormed
<1>12. Disjoint(at', S)
  <2>. SUFFICES ASSUME NEW u \in S, NEW v \in S, u # v
                PROVE  at'[u] \cap at'[v] = {}
    BY DEF Disjoint
  <2>1. \A w \in S \ {k} : at[w] \cap at[k] = {} /\ at[w] \cap at[x] = {}
    BY <1>2, <1>5 DEF WellFormed, Disjoint
  <2>2. CASE u = k
    BY <1>5, <1>8, <2>1, <2>2
  <2>3. CASE v = k
    BY <1>5, <1>8, <2>1, <2>3
  <2>4. CASE u # k /\ v # k
    BY <1>5, <2>4 DEF WellFormed, Disjoint
  <2>. QED  BY <2>2, <2>3, <2>4
<1>13. Closed(at', S)
  <2>. SUFFICES ASSUME NEW v \in S, NEW c \in at'[v]
                PROVE  \E u \in S : OtherEnd(c) \in at'[u]
    BY DEF Closed
  <2>1. PICK w \in DOMAIN at : c \in at[w]
    BY <1>2, <1>5, <1>8
  <2>2. c # d /\ c # o
    <3>1. CASE v = k
      BY <1>5, <1>7, <3>1
    <3>2. CASE v # k
      BY <1>2, <1>5, <3>2, OneVertexPerEnd
    <3>. QED  BY <3>1, <3>2
  <2>3. PICK u \in DOMAIN at : OtherEnd(c) \in at[u]
    BY <2>1 DEF WellFormed, Closed
  <2>4. c \in Ends /\ OtherEnd(OtherEnd(c)) = c
    BY <2>1, OneVertexPerEnd, OtherEndTwice
  <2>5. OtherEnd(c) # d /\ OtherEnd(c) # o
    BY <1>3, <2>2, <2>4 DEF o
  <2>6. CASE u \in {k, x}
    BY <1>5, <1>8, <2>3, <2>5, <2>6
  <2>7. CASE u \notin {k, x}
    BY <1>5, <1>6, <2>3, <2>7
  <2>. QED  BY <2>6, <2>7
<1>. QED  BY <1>5, <1>9, <1>10, <1>11, <1>12, <1>13 DEF WellFormed

\* A new component has its own edges, with both ends.
LEMMA CreateWellFormed ==
  ASSUME WellFormed(at), Create
  PROVE  WellFormed(at')
<1>. DEFINE new == DOMAIN at' \ DOMAIN at
<1>1. /\ at' = [v \in DOMAIN at' |-> at'[v]]
      /\ DOMAIN at \subseteq DOMAIN at'
      /\ \A v \in DOMAIN at : at'[v] = at[v]
      /\ new \subseteq Vertex
      /\ \A v \in new : Holdable(at'[v]) /\ at'[v] \cap LiveEnds = {}
      /\ Disjoint(at', new)
      /\ Closed(at', new)
  BY DEF Create
<1>2. DOMAIN at' = DOMAIN at \cup new
  BY <1>1
<1>. HIDE DEF new
<1>3. DOMAIN at' \subseteq Vertex /\ \A v \in DOMAIN at' : Holdable(at'[v])
  BY <1>1, <1>2 DEF WellFormed
<1>4. Disjoint(at', DOMAIN at')
  <2>. SUFFICES ASSUME NEW u \in DOMAIN at', NEW v \in DOMAIN at', u # v
                PROVE  at'[u] \cap at'[v] = {}
    BY DEF Disjoint
  <2>1. CASE u \in DOMAIN at /\ v \in DOMAIN at
    BY <1>1, <2>1 DEF WellFormed, Disjoint
  <2>2. CASE u \in new /\ v \in new
    BY <1>1, <2>2 DEF Disjoint
  <2>3. CASE u \in DOMAIN at /\ v \in new
    BY <1>1, <2>3 DEF LiveEnds
  <2>4. CASE u \in new /\ v \in DOMAIN at
    BY <1>1, <2>4 DEF LiveEnds
  <2>. QED  BY <1>2, <2>1, <2>2, <2>3, <2>4
<1>5. Closed(at', DOMAIN at')
  <2>. SUFFICES ASSUME NEW v \in DOMAIN at', NEW d \in at'[v]
                PROVE  \E u \in DOMAIN at' : OtherEnd(d) \in at'[u]
    BY DEF Closed
  <2>1. CASE v \in DOMAIN at
    BY <1>1, <2>1 DEF WellFormed, Closed
  <2>2. CASE v \in new
    BY <1>1, <1>2, <2>2 DEF Closed
  <2>. QED  BY <1>2, <2>1, <2>2
<1>. QED  BY <1>1, <1>3, <1>4, <1>5 DEF WellFormed

\* The edges of what is left after a deletion have both their ends there.
LEMMA DeleteWellFormed ==
  ASSUME WellFormed(at), NEW K, Delete(K)
  PROVE  WellFormed(at')
<1>. DEFINE S == DOMAIN at \ K
<1>1. at' = [v \in S |-> at[v]]
  BY DEF Delete
<1>2. DOMAIN at' = S /\ \A v \in S : v \in DOMAIN at /\ v \notin K /\ at'[v] = at[v]
  BY <1>1
<1>. HIDE DEF S
<1>3. at' = [v \in DOMAIN at' |-> at'[v]]
  BY <1>1, <1>2
<1>4. DOMAIN at' \subseteq Vertex /\ (\A v \in S : Holdable(at'[v])) /\ Disjoint(at', S)
  BY <1>2 DEF WellFormed, Disjoint
<1>5. Closed(at', S)
  <2>. SUFFICES ASSUME NEW v \in S, NEW d \in at[v]
                PROVE  \E u \in S : OtherEnd(d) \in at[u]
    BY <1>2 DEF Closed
  <2>1. v \in DOMAIN at /\ v \notin K /\ d \in Ends
    BY <1>2 DEF WellFormed, Holdable
  <2>2. PICK u \in DOMAIN at : OtherEnd(d) \in at[u]
    BY <2>1 DEF WellFormed, Closed
  <2>3. u \notin K
    <3>. SUFFICES ASSUME u \in K  PROVE FALSE
      OBVIOUS
    <3>1. PICK w \in K : OtherEnd(OtherEnd(d)) \in at[w]
      BY <2>2 DEF Delete, Closed
    <3>2. w \in DOMAIN at /\ d \in at[w]
      BY <3>1, <2>1, OtherEndTwice DEF Delete
    <3>. QED  BY <2>1, <3>2, OneVertexPerEnd
  <2>. QED  BY <2>2, <2>3 DEF S
<1>. QED  BY <1>2, <1>3, <1>4, <1>5 DEF WellFormed

-----------------------------------------------------------------------------
(* Theorems *)

\* Whatever transformations are applied, in any order, to a graph of any size
\* and for any maximal degree, every edge keeps its two ends at two vertices
\* and no vertex gets too many.
THEOREM MultigraphStaysWellFormed == Spec => []EveryEdgeHasItsEnds
<1>1. Init => EveryEdgeHasItsEnds
  BY DEF Init, EveryEdgeHasItsEnds
<1>2. EveryEdgeHasItsEnds /\ [Next]_at => EveryEdgeHasItsEnds'
  <2>. SUFFICES ASSUME WellFormed(at), [Next]_at  PROVE WellFormed(at')
    BY DEF EveryEdgeHasItsEnds
  <2>1. CASE \E k, x \in DOMAIN at : Merge(k, x)
    BY <2>1, MergeWellFormed
  <2>2. CASE \E k \in DOMAIN at, x, y \in DOMAIN at' :
               x \notin DOMAIN at /\ \E D \in SUBSET at[k] : Split(k, x, y, D)
    BY <2>2, SplitWellFormed
  <2>3. CASE \E k \in DOMAIN at \cap DOMAIN at', x \in DOMAIN at' \ DOMAIN at :
               \E d \in at'[k], D \in SUBSET at[k] : Expand(k, x, d[1], d[2], D)
    BY <2>3, ExpandWellFormed
  <2>4. CASE \E k, x \in DOMAIN at : \E d \in at[k] : Contract(k, x, d)
    BY <2>4, ContractWellFormed
  <2>5. CASE Create
    BY <2>5, CreateWellFormed
  <2>6. CASE \E K \in SUBSET DOMAIN at : Delete(K)
    BY <2>6, DeleteWellFormed
  <2>7. CASE UNCHANGED at
    BY <2>7 DEF WellFormed, Disjoint, Closed
  <2>. QED  BY <2>1, <2>2, <2>3, <2>4, <2>5, <2>6, <2>7 DEF Next
<1>. QED  BY <1>1, <1>2, PTL DEF Spec

\* A split that takes away the ends a merger has brought restores the graph:
\* vertex splits are the inverses of vertex mergers.
THEOREM SplitUndoesMerge ==
  ASSUME NEW f, WellFormed(f), NEW k \in DOMAIN f, NEW x \in DOMAIN f, k # x
  PROVE  Divided(Merged(f, k, x), k, x, k, f[k]) = f
<1>. DEFINE m == Merged(f, k, x)
<1>1. /\ DOMAIN m = DOMAIN f \ {x}
      /\ m[k] = f[k] \cup f[x]
      /\ \A v \in DOMAIN f \ {k, x} : m[v] = f[v]
  BY DEF Merged
<1>2. f[k] \cap f[x] = {} /\ m[k] \ f[k] = f[x]
  BY <1>1 DEF WellFormed, Disjoint
<1>. HIDE DEF m
<1>3. (DOMAIN m \ {k}) \cup {x, k} = DOMAIN f
  BY <1>1
<1>4. \A v \in DOMAIN f :
        (IF v = k THEN f[k] ELSE IF v = x THEN m[k] \ f[k] ELSE m[v]) = f[v]
  BY <1>1, <1>2
<1>5. Divided(m, k, x, k, f[k]) = [v \in DOMAIN f |-> f[v]]
  BY <1>3, <1>4 DEF Divided
<1>. QED  BY <1>5 DEF WellFormed, m

\* A merger of the two vertices a split has made restores the graph, when the
\* split vertex is one of them.
THEOREM MergeUndoesSplit ==
  ASSUME NEW f, WellFormed(f), NEW k \in DOMAIN f, NEW x, x \notin DOMAIN f,
         NEW D \in SUBSET f[k]
  PROVE  Merged(Divided(f, k, x, k, D), k, x) = f
<1>. DEFINE s == Divided(f, k, x, k, D)
<1>1. /\ DOMAIN s = DOMAIN f \cup {x} /\ k # x
      /\ s[k] = D /\ s[x] = f[k] \ D
      /\ \A v \in DOMAIN f \ {k} : s[v] = f[v]
  BY DEF Divided
<1>. HIDE DEF s
<1>2. DOMAIN s \ {x} = DOMAIN f
  BY <1>1
<1>3. \A v \in DOMAIN f : (IF v = k THEN s[k] \cup s[x] ELSE s[v]) = f[v]
  BY <1>1
<1>4. Merged(s, k, x) = [v \in DOMAIN f |-> f[v]]
  BY <1>2, <1>3 DEF Merged
<1>. QED  BY <1>4 DEF WellFormed, s

\* Contracting the edge that has been created restores the graph, wherever the
\* edge was put: edge deletions are the inverses of edge creations.
THEOREM ContractUndoesExpand ==
  ASSUME NEW f, WellFormed(f), NEW k \in DOMAIN f, NEW x, x \notin DOMAIN f,
         NEW D \in SUBSET f[k], NEW h, NEW e, <<h, e>> \in Ends,
         \A v \in DOMAIN f : <<h, e>> \notin f[v] /\ OtherEnd(<<h, e>>) \notin f[v]
  PROVE  Contracted(Expanded(f, k, x, h, e, D), k, x, <<h, e>>) = f
<1>. DEFINE p == <<h, e>>
            q == OtherEnd(p)
            s == Expanded(f, k, x, h, e, D)
<1>1. /\ DOMAIN s = DOMAIN f \cup {x} /\ k # x
      /\ s[k] = D \cup {p} /\ s[x] = (f[k] \ D) \cup {q}
      /\ \A v \in DOMAIN f \ {k} : s[v] = f[v]
  BY DEF Expanded
<1>2. Contracted(s, k, x, p) =
        [v \in DOMAIN s \ {x} |->
           IF v = k THEN (s[k] \ {p}) \cup (s[x] \ {q}) ELSE s[v]]
  BY DEF Contracted
<1>3. p \notin f[k] /\ q \notin f[k]
  OBVIOUS
<1>. HIDE DEF s, p, q
<1>4. (s[k] \ {p}) \cup (s[x] \ {q}) = f[k]
  BY <1>1, <1>3
<1>5. DOMAIN s \ {x} = DOMAIN f
  BY <1>1
<1>6. \A v \in DOMAIN f :
        (IF v = k THEN (s[k] \ {p}) \cup (s[x] \ {q}) ELSE s[v]) = f[v]
  BY <1>1, <1>4
<1>7. Contracted(s, k, x, p) = [v \in DOMAIN f |-> f[v]]
  BY <1>2, <1>5, <1>6
<1>. QED  BY <1>7 DEF WellFormed, s, p
=============================================================================
