--------------------------- MODULE EdgePaths_proofs ---------------------------
(***************************************************************************)
(* The search over edges is correct for every component and every weight,  *)
(* and every order in which it takes edges and neighbours up.  The types   *)
(* are not inductive alone: that the predecessors a walk follows are edges *)
(* rests on every edge reached having one.  That the distances found are   *)
(* the shortest needs, besides the equations they solve, that none is less *)
(* than some way costs.                                                    *)
(***************************************************************************)
EXTENDS EdgePaths, SharedLemmas

\* u is to be gone on from: it is queued, or its neighbour v is yet to be updated.
Queued(u) == \E x \in q : x.prev = u
InWork(u, v) == u = ud.prev /\ v \in nbs

SearchInv ==
  /\ SearchTypeOK
  /\ distances[source].dist = 0
  /\ \A x \in q : distances[x.prev].dist = x.dist /\ x.dist < Inf
  /\ \A v \in Edges(cmp) \ {source} : is_finite(distances[v]) => FromPredecessor(v)
  /\ \A u \in Edges(cmp) : is_finite(distances[u]) =>
       \/ Queued(u)
       \/ \A v \in ajlg[u] : \/ distances[v].dist <= distances[u].dist + cmp.weight[v]
                             \/ InWork(u, v)
  /\ nbs # {} => /\ ud.prev \in Edges(cmp)
                 /\ nbs \subseteq ajlg[ud.prev]
                 /\ distances[ud.prev].dist = ud.dist

Inv ==
  /\ TypeOK
  /\ pc # "idle" => SearchInv
  /\ pc # "searching" => q = {} /\ nbs = {}
  /\ pc = "walking" => path # <<>> /\ is_finite(distances[Head(path)])

-----------------------------------------------------------------------------

\* What the component is: neighbours are edges, weights are natural numbers.
LEMMA ComponentFacts ==
  ASSUME cmp \in Components
  PROVE  /\ undefined \notin Edges(cmp)
         /\ \A u \in Edges(cmp) : cmp.adj[u] \subseteq Edges(cmp) /\ cmp.weight[u] \in Nat
BY ComponentsAssumption DEF IsComponent, Edges, undefined

LEMMA InitInv == Init => Inv
BY DEF Init, Inv, TypeOK, Edges

\* The first entry of a search: only the source is reached, and it is queued.
LEMMA ComputeInv ==
  ASSUME Inv, NEW s \in Edges(cmp), ComputeFromSource(s)
  PROVE  Inv'
<1>. USE DEF ComputeFromSource, Reset, Dist, Unreached
<1>1. /\ cmp' = cmp /\ source' = s /\ ajlg' = cmp.adj /\ nbs' = {} /\ path' = <<>>
      /\ pc' = "searching" /\ ud' = [prev |-> undefined, dist |-> Inf]
      /\ q' = {[prev |-> s, dist |-> 0]}
      /\ Edges(cmp)' = Edges(cmp)
  BY DEF Inv, Edges
<1>2. /\ distances' \in [Edges(cmp) -> [prev : Edges(cmp) \cup {undefined}, dist : 0..Inf]]
      /\ distances'[s] = [prev |-> undefined, dist |-> 0]
      /\ \A v \in Edges(cmp) \ {s} : distances'[v] = [prev |-> undefined, dist |-> Inf]
  BY InfAssumption
<1>3. TypeOK' /\ SearchTypeOK'
  BY <1>1, <1>2, InfAssumption DEF Inv, TypeOK, SearchTypeOK
<1>4. \A v \in Edges(cmp) : is_finite(distances'[v]) => v = s
  BY <1>2, InfAssumption DEF is_finite
<1>5. SearchInv'
  BY <1>1, <1>2, <1>3, <1>4, InfAssumption DEF SearchInv, is_finite, Queued
<1>. QED  BY <1>1, <1>3, <1>5 DEF Inv

\* The entry taken becomes the one in work, with all its neighbours to update.
LEMMA TakeFirstInv ==
  ASSUME Inv, TakeFirst
  PROVE  Inv'
<1>. PICK x \in q : /\ ud' = x /\ q' = q \ {x} /\ nbs' = ajlg[x.prev]
  BY DEF TakeFirst
<1>1. /\ UNCHANGED <<cmp, ajlg, source, distances, path, pc>> /\ pc = "searching" /\ nbs = {}
      /\ SearchInv /\ SearchTypeOK /\ TypeOK
  BY DEF TakeFirst, Inv, SearchInv
<1>2. /\ x \in [prev : Edges(cmp), dist : 0..Inf] /\ ajlg[x.prev] \subseteq Edges(cmp)
      /\ distances[x.prev].dist = x.dist
  BY <1>1, ComponentFacts DEF SearchTypeOK, SearchInv, TypeOK
<1>3. SearchTypeOK' /\ TypeOK'
  BY <1>1, <1>2 DEF SearchTypeOK, TypeOK, Edges
<1>4. ASSUME NEW u \in Edges(cmp), is_finite(distances[u])
      PROVE  \/ Queued(u)'
             \/ \A v \in ajlg[u] : \/ distances[v].dist <= distances[u].dist + cmp.weight[v]
                                   \/ InWork(u, v)'
  <2>1. CASE u = x.prev
    BY <2>1 DEF InWork
  <2>2. CASE u # x.prev
    <3>1. Queued(u) => Queued(u)'
      BY <2>2 DEF Queued
    <3>. QED  BY <3>1, <1>1, <1>4 DEF SearchInv, InWork
  <2>. QED  BY <2>1, <2>2
<1>5. SearchInv'
  BY <1>1, <1>2, <1>3, <1>4 DEF SearchInv, FromPredecessor, Edges
<1>. QED  BY <1>1, <1>3, <1>5 DEF Inv

\* A neighbour v updated: if its distance went down, it is queued again, so that
\* what it owes its own neighbours is not lost; to the others it has come closer.
LEMMA UpdateInv ==
  ASSUME Inv, UpdateNeighbour
  PROVE  Inv'
<1>. PICK v \in nbs : update(v) /\ nbs' = nbs \ {v}
  BY DEF UpdateNeighbour
<1>. DEFINE d == ud.dist + cmp.weight[v]
            E == Edges(cmp)
<1>1. /\ UNCHANGED <<cmp, ajlg, source, ud, path, pc>> /\ pc = "searching"
      /\ SearchInv /\ SearchTypeOK /\ TypeOK /\ E' = E
  BY DEF UpdateNeighbour, Inv, SearchInv, Edges
<1>2. /\ v \in E /\ ud.prev \in E /\ v \in ajlg[ud.prev]
      /\ distances[ud.prev].dist = ud.dist /\ ud.dist \in 0..Inf
      /\ cmp.weight[v] \in Nat /\ d \in Nat
      /\ \A e \in E : ajlg[e] \subseteq E /\ cmp.weight[e] \in Nat
  BY <1>1, ComponentFacts, InfAssumption DEF SearchInv, SearchTypeOK, TypeOK
<1>3. \A e \in E : distances[e].dist \in 0..Inf
  BY <1>1, InfAssumption DEF SearchTypeOK
<1>4. CASE d < distances[v].dist
  <2>1. /\ distances' = [distances EXCEPT ![v] = [prev |-> ud.prev, dist |-> d]]
        /\ q' = {x \in q : x.prev # v} \cup {[prev |-> v, dist |-> d]}
    BY <1>4 DEF update, Dist, Replace
  <2>2. d \in 0..Inf /\ d < Inf
    BY <1>2, <1>3, <1>4, InfAssumption
  <2>3. /\ distances'[v] = [prev |-> ud.prev, dist |-> d]
        /\ \A e \in E \ {v} : distances'[e] = distances[e]
        /\ v # source /\ v # ud.prev
    BY <1>1, <1>2, <1>3, <1>4, <2>1 DEF SearchTypeOK, SearchInv
  <2>4. SearchTypeOK' /\ TypeOK'
    BY <1>1, <1>2, <2>1, <2>2 DEF SearchTypeOK, TypeOK, Edges
  <2>5. \A e \in E : distances'[e].dist <= distances[e].dist
    BY <1>2, <1>3, <1>4, <2>3
  <2>6. \A x \in q' : distances'[x.prev].dist = x.dist /\ x.dist < Inf
    BY <1>1, <2>1, <2>2, <2>3 DEF SearchInv, SearchTypeOK
  <2>7. ASSUME NEW e \in E \ {source}, is_finite(distances'[e])
        PROVE  FromPredecessor(e)'
    <3>1. CASE e = v
      BY <3>1, <1>1, <1>2, <2>3, <1>3, InfAssumption DEF FromPredecessor
    <3>2. CASE e # v
      <4>1. FromPredecessor(e)
        BY <3>2, <2>3, <2>7, <1>1 DEF SearchInv
      <4>. QED  BY <4>1, <3>2, <1>1, <1>2, <1>3, <2>3, <2>5, <2>4, InfAssumption
                DEF FromPredecessor, SearchTypeOK
    <3>. QED  BY <3>1, <3>2
  <2>8. ASSUME NEW u \in E, is_finite(distances'[u])
        PROVE  \/ Queued(u)'
               \/ \A t \in ajlg[u] : \/ distances'[t].dist <= distances'[u].dist + cmp.weight[t]
                                     \/ InWork(u, t)'
    <3>1. CASE u = v
      <4>1. [prev |-> v, dist |-> d] \in q' /\ [prev |-> v, dist |-> d].prev = v
        BY <2>1
      <4>. QED  BY <4>1, <3>1 DEF Queued
    <3>2. CASE u # v
      <4>1. Queued(u) => Queued(u)'
        BY <3>2, <2>1 DEF Queued
      <4>2. ASSUME NEW t \in ajlg[u], distances[t].dist <= distances[u].dist + cmp.weight[t]
            PROVE  distances'[t].dist <= distances'[u].dist + cmp.weight[t]
        BY <4>2, <3>2, <2>3, <2>5, <1>2, <1>3, <2>2, InfAssumption
      <4>3. ASSUME NEW t \in ajlg[u], InWork(u, t)
            PROVE  \/ distances'[t].dist <= distances'[u].dist + cmp.weight[t]
                   \/ InWork(u, t)'
        <5>1. CASE t = v
          BY <5>1, <4>3, <2>3, <1>2, <3>2 DEF InWork
        <5>2. CASE t # v
          BY <5>2, <4>3, <1>1 DEF InWork
        <5>. QED  BY <5>1, <5>2
      <4>. QED  BY <4>1, <4>2, <4>3, <3>2, <2>3, <2>8, <1>1 DEF SearchInv
    <3>. QED  BY <3>1, <3>2
  <2>9. SearchInv'
    <3>1. distances'[source'].dist = 0
      BY <1>1, <2>3 DEF SearchInv, SearchTypeOK
    <3>2. nbs' # {} => /\ ud'.prev \in E'
                       /\ nbs' \subseteq ajlg'[ud'.prev]
                       /\ distances'[ud'.prev].dist = ud'.dist
      BY <1>1, <1>2, <2>3 DEF SearchInv
    <3>3. \A e \in E' \ {source'} : is_finite(distances'[e]) => FromPredecessor(e)'
      BY <1>1, <2>7
    <3>4. \A u \in E' : is_finite(distances'[u]) =>
            \/ Queued(u)'
            \/ \A t \in ajlg'[u] : \/ distances'[t].dist <= distances'[u].dist + cmp'.weight[t]
                                   \/ InWork(u, t)'
      BY <1>1, <2>8
    <3>. QED  BY <3>1, <3>2, <3>3, <3>4, <2>4, <2>6 DEF SearchInv, is_finite
  <2>. QED  BY <1>1, <2>4, <2>9 DEF Inv
<1>5. CASE ~(d < distances[v].dist)
  <2>1. UNCHANGED <<distances, q>>
    BY <1>5 DEF update
  <2>2. SearchTypeOK' /\ TypeOK'
    BY <1>1, <2>1 DEF SearchTypeOK, TypeOK, Edges
  <2>3. distances[v].dist <= distances[ud.prev].dist + cmp.weight[v]
    BY <1>2, <1>3, <1>5
  <2>4. ASSUME NEW u \in E, is_finite(distances[u])
        PROVE  \/ Queued(u)'
               \/ \A t \in ajlg[u] : \/ distances[t].dist <= distances[u].dist + cmp.weight[t]
                                     \/ InWork(u, t)'
    <3>1. Queued(u) => Queued(u)'
      BY <2>1 DEF Queued
    <3>2. ASSUME NEW t \in ajlg[u], InWork(u, t)
          PROVE  \/ distances[t].dist <= distances[u].dist + cmp.weight[t]
                 \/ InWork(u, t)'
      BY <3>2, <2>3, <1>1 DEF InWork
    <3>. QED  BY <3>1, <3>2, <2>4, <1>1 DEF SearchInv
  <2>5. SearchInv'
    BY <1>1, <2>1, <2>2, <2>4 DEF SearchInv, FromPredecessor, Edges
  <2>. QED  BY <1>1, <2>2, <2>5 DEF Inv
<1>. QED  BY <1>4, <1>5

\* The predecessor of an edge that is reached, other than the source, is reached.
LEMMA PredecessorReached ==
  ASSUME TypeOK, SearchInv, NEW v \in Edges(cmp) \ {source}, is_finite(distances[v])
  PROVE  distances[v].prev \in Edges(cmp) /\ is_finite(distances[distances[v].prev])
<1>1. FromPredecessor(v)
  BY DEF SearchInv
<1>2. /\ distances[v].prev \in Edges(cmp) /\ cmp.weight[v] \in Nat
      /\ \A e \in Edges(cmp) : distances[e].dist \in 0..Inf
  BY <1>1, ComponentFacts DEF SearchInv, SearchTypeOK, TypeOK, FromPredecessor
<1>. QED  BY <1>1, <1>2, InfAssumption DEF FromPredecessor, is_finite

\* The other steps leave the distances alone.
LEMMA OtherInv ==
  ASSUME Inv,
         \/ EndSearch \/ ChangeComponent \/ WalkBack \/ EndWalk
         \/ \E s2 \in Edges(cmp) : FindShortestPath(s2)
         \/ UNCHANGED vars
  PROVE  Inv'
<1>1. ASSUME UNCHANGED <<cmp, ajlg, source, distances, q, ud, nbs>>, SearchInv
      PROVE  SearchInv'
  BY <1>1 DEF SearchInv, SearchTypeOK, FromPredecessor, Queued, InWork, Edges
<1>2. CASE EndSearch
  BY <1>2, <1>1 DEF EndSearch, Inv, TypeOK, SearchInv
<1>3. CASE ChangeComponent
  BY <1>3 DEF ChangeComponent, Inv, TypeOK
<1>4. CASE EndWalk
  BY <1>4, <1>1 DEF EndWalk, Inv, TypeOK, SearchInv
<1>5. CASE UNCHANGED vars
  BY <1>5, <1>1 DEF vars, Inv, TypeOK, SearchInv
<1>6. ASSUME NEW s2 \in Edges(cmp), FindShortestPath(s2)
      PROVE  Inv'
  <2>1. SearchInv' /\ SearchTypeOK' /\ pc' \in {"ready", "walking"} /\ q' = {} /\ nbs' = {}
    BY <1>6, <1>1 DEF FindShortestPath, Inv, SearchInv
  <2>2. path' \in {<<s2>>, <<>>} /\ cmp' = cmp
    BY <1>6 DEF FindShortestPath
  <2>4. path' \in Seq(Edges(cmp)') /\ TypeOK /\ Edges(cmp)' = Edges(cmp)
    <3>1. <<>> \in Seq(Edges(cmp)) /\ <<s2>> \in Seq(Edges(cmp))
      OBVIOUS
    <3>. QED  BY <3>1, <2>2 DEF Inv, Edges
  <2>3. pc' = "walking" => path' # <<>> /\ is_finite(distances'[Head(path')])
    BY <1>6 DEF FindShortestPath
  <2>. QED  BY <2>1, <2>2, <2>3, <2>4 DEF Inv, TypeOK
<1>7. CASE WalkBack
  <2>. DEFINE p == distances[Head(path)].prev
  <2>1. /\ UNCHANGED <<cmp, ajlg, source, distances, q, ud, nbs, pc>> /\ pc = "walking"
        /\ path' = <<p>> \o path /\ path \in Seq(Edges(cmp)) /\ path # <<>>
        /\ Head(path) # source /\ is_finite(distances[Head(path)])
        /\ TypeOK /\ SearchInv
    BY <1>7 DEF WalkBack, Inv, TypeOK
  <2>2. Head(path) \in Edges(cmp)
    BY <2>1
  <2>3. p \in Edges(cmp) /\ is_finite(distances[p])
    BY <2>1, <2>2, PredecessorReached
  <2>. HIDE DEF p
  <2>4. path' \in Seq(Edges(cmp)) /\ path' # <<>> /\ Head(path') = p
    BY <2>1, <2>3
  <2>5. SearchInv' /\ SearchTypeOK'
    BY <2>1, <1>1 DEF SearchInv
  <2>. QED  BY <2>1, <2>3, <2>4, <2>5 DEF Inv, TypeOK, Edges
<1>. QED  BY <1>2, <1>3, <1>4, <1>5, <1>6, <1>7

LEMMA Invariance == Spec => []Inv
<1>1. Inv /\ [Next]_vars => Inv'
  BY ComputeInv, TakeFirstInv, UpdateInv, OtherInv DEF Next, Search, Walk
<1>. QED  BY <1>1, InitInv, PTL DEF Spec

-----------------------------------------------------------------------------
(* The theorems *)

\* The types of the search object: in particular every predecessor followed on
\* the way back is an edge of the component.
THEOREM EdgePathsTypeOK == Spec => []TypeOK
<1>1. Inv => TypeOK
  BY DEF Inv
<1>. QED  BY <1>1, Invariance, PTL

\* The queue never disagrees with the distances on record.
THEOREM EdgePathsQueueIsCurrent == Spec => []QueueIsCurrent
<1>1. Inv => QueueIsCurrent
  BY DEF Inv, SearchInv, QueueIsCurrent
<1>. QED  BY <1>1, Invariance, PTL

\* An edge not queued owes nothing to its neighbours but to those still in work.
THEOREM EdgePathsSettledUnlessPending == Spec => []SettledUnlessPending
<1>1. Inv => SettledUnlessPending
  BY DEF Inv, SearchInv, SettledUnlessPending, Queued, InWork
<1>. QED  BY <1>1, Invariance, PTL

\* Whatever the component, a search that is over has solved the shortest-path
\* equations: with nothing queued, nothing is owed.
THEOREM EdgePathsSolveEquations == Spec => []DistancesSolveEquations
<1>1. ASSUME Inv, pc \in {"ready", "walking"}
      PROVE  /\ distances[source].dist = 0
             /\ \A u \in Edges(cmp) : is_finite(distances[u]) => Settled(u)
  BY <1>1 DEF Inv, SearchInv, Settled, Queued, InWork
<1>2. ASSUME Inv, pc \in {"ready", "walking"},
             NEW u \in Edges(cmp) \ {source}, is_finite(distances[u])
      PROVE  /\ distances[u].prev \in Edges(cmp)
             /\ u \in ajlg[distances[u].prev]
             /\ distances[u].dist = distances[distances[u].prev].dist + cmp.weight[u]
  <2>1. TypeOK /\ SearchInv /\ SearchTypeOK /\ FromPredecessor(u)
    BY <1>2 DEF Inv, SearchInv
  <2>2. distances[u].prev \in Edges(cmp) /\ is_finite(distances[distances[u].prev])
    BY <1>2, <2>1, PredecessorReached
  <2>3. Settled(distances[u].prev)
    BY <1>1, <1>2, <2>2
  <2>4. cmp.weight[u] \in Nat /\ \A e \in Edges(cmp) : distances[e].dist \in 0..Inf
    BY <2>1, ComponentFacts DEF TypeOK, SearchTypeOK
  <2>. QED  BY <2>1, <2>2, <2>3, <2>4, InfAssumption DEF FromPredecessor, Settled
<1>3. Inv => DistancesSolveEquations
  BY <1>1, <1>2 DEF DistancesSolveEquations
<1>. QED  BY <1>3, Invariance, PTL

-----------------------------------------------------------------------------
(* Shortest distances and paths *)

\* No edge is at less than some way to it costs.
Attains(c, s, e, d) == \E n \in Nat : Rounds(Ways(c), s, Inf)[n][e] <= d
DistancesAreAttained == \A e \in Edges(cmp) : Attains(cmp, source, e, distances[e].dist)

\* A step of a path: over adjacent edges, at the distances on record.
IsStep(u, v) == v \in cmp.adj[u] /\ distances[v].dist = distances[u].dist + cmp.weight[v]
WalksAreTight ==
  /\ pc \in {"idle", "searching"} => path = <<>>
  /\ pc = "ready" /\ path # <<>> => Head(path) = source
  /\ \A k \in 1..Len(path) - 1 : IsStep(path[k], path[k + 1])

ShortestInv == (pc # "idle" => DistancesAreAttained) /\ WalksAreTight

LEMMA WaysAreWays ==
  ASSUME NEW c \in Components
  PROVE  /\ AreWays(Ways(c), Edges(c))
         /\ \A e \in Edges(c) :
              /\ \A u \in Edges(c) : e \in c.adj[u] => <<u, c.weight[e]>> \in Ways(c)[e]
              /\ \A w \in Ways(c)[e] : w[1] \in Edges(c) /\ e \in c.adj[w[1]] /\ w[2] = c.weight[e]
<1>1. IsFiniteSet(Edges(c)) /\ \A e \in Edges(c) : c.weight[e] \in Nat
  BY ComponentsAssumption DEF IsComponent
<1>2. ASSUME NEW e \in Edges(c)
      PROVE  /\ \A u \in Edges(c) : e \in c.adj[u] => <<u, c.weight[e]>> \in Ways(c)[e]
             /\ \A w \in Ways(c)[e] : w[1] \in Edges(c) /\ e \in c.adj[w[1]] /\ w[2] = c.weight[e]
  <2>1. Ways(c)[e] = {<<u, c.weight[e]>> : u \in {x \in Edges(c) : e \in c.adj[x]}}
    BY DEF Ways
  <2> QED BY <2>1
<1>3. DOMAIN Ways(c) = Edges(c)
  BY DEF Ways
<1>4. AreWays(Ways(c), Edges(c))
  BY <1>1, <1>2, <1>3 DEF AreWays
<1> QED BY <1>2, <1>4

LEMMA AttainsStarts ==
  ASSUME NEW c \in Components, NEW s \in Edges(c)
  PROVE  Attains(c, s, s, 0) /\ \A e \in Edges(c) : Attains(c, s, e, Inf)
<1>1. PICK R : R = Rounds(Ways(c), s, Inf)
  OBVIOUS
<1>2. Inf \in Nat
  BY InfAssumption
<1>3. AreRounds(R, Ways(c), Edges(c), s, Inf)
  BY <1>1, <1>2, WaysAreWays, RoundsByRound
<1>4. \A e \in Edges(c) : R[0][e] = IF e = s THEN 0 ELSE Inf
  BY <1>3 DEF AreRounds, AtStart
<1>5. R[0][s] <= 0 /\ \A e \in Edges(c) : R[0][e] <= Inf
  BY <1>2, <1>4
<1> QED BY <1>1, <1>5 DEF Attains

LEMMA AttainsFollows ==
  ASSUME NEW c \in Components, NEW s \in Edges(c), NEW u \in Edges(c), NEW d \in Nat,
         Attains(c, s, u, d), NEW v \in Edges(c), v \in c.adj[u]
  PROVE  Attains(c, s, v, d + c.weight[v])
<1>1. PICK R : R = Rounds(Ways(c), s, Inf)
  OBVIOUS
<1>2. PICK n \in Nat : R[n][u] <= d
  BY <1>1 DEF Attains
<1>3. AreWays(Ways(c), Edges(c)) /\ Inf \in Nat
  BY WaysAreWays, InfAssumption
<1>4. AreRounds(R, Ways(c), Edges(c), s, Inf)
  BY <1>1, <1>3, RoundsByRound
<1>5. /\ n + 1 \in Nat /\ R[n + 1] = Improved(Ways(c), R[n])
      /\ AreDistances(R[n], Edges(c)) /\ AreDistances(R[n + 1], Edges(c))
  BY <1>4 DEF AreRounds
<1>6. PICK w \in Ways(c)[v] : w[1] = u /\ w[2] = c.weight[v]
  <2>1. <<u, c.weight[v]>> \in Ways(c)[v]
    BY WaysAreWays
  <2> QED BY <2>1
<1>7. R[n + 1][v] <= R[n][u] + c.weight[v]
  BY <1>3, <1>5, <1>6, ImprovedIsLeast
<1>8. R[n][u] \in Nat /\ R[n + 1][v] \in Nat /\ c.weight[v] \in Nat
  BY <1>5, DistancesAreNat, ComponentsAssumption DEF IsComponent
<1>9. R[n + 1][v] <= d + c.weight[v]
  BY <1>2, <1>7, <1>8
<1> QED BY <1>1, <1>5, <1>9 DEF Attains

LEMMA ShortestInvAtStep ==
  ASSUME Inv, ShortestInv, [Next]_vars
  PROVE  ShortestInv'
<1>1. ASSUME UNCHANGED <<cmp, source, distances>>, DistancesAreAttained
      PROVE  DistancesAreAttained'
  BY <1>1 DEF DistancesAreAttained
<1>2. ASSUME path' = <<>> PROVE WalksAreTight'
  <2>1. 1..Len(path') - 1 = {}
    BY <1>2
  <2> QED BY <1>2, <2>1 DEF WalksAreTight
<1>3. ASSUME NEW s \in Edges(cmp), ComputeFromSource(s) PROVE ShortestInv'
  <2>1. cmp' = cmp /\ source' = s /\ path' = <<>> /\ cmp \in Components
    BY <1>3 DEF ComputeFromSource, Inv, TypeOK
  <2>2. distances' = [e \in Edges(cmp) |-> IF e = s THEN Dist(undefined, 0) ELSE Unreached]
    BY <1>3 DEF ComputeFromSource, Reset
  <2>3. \A e \in Edges(cmp) : distances'[e].dist = IF e = s THEN 0 ELSE Inf
    BY <2>2 DEF Dist, Unreached
  <2>4. \A e \in Edges(cmp) : Attains(cmp, s, e, distances'[e].dist)
    BY <2>1, <2>3, AttainsStarts
  <2>5. DistancesAreAttained'
    BY <2>1, <2>4 DEF DistancesAreAttained
  <2> QED BY <1>2, <2>1, <2>5 DEF ShortestInv
<1>4. ASSUME UpdateNeighbour PROVE ShortestInv'
  <2>1. PICK v \in nbs : update(v)
    BY <1>4 DEF UpdateNeighbour
  <2>2. /\ UNCHANGED <<cmp, source, path, pc>> /\ pc = "searching" /\ cmp \in Components
        /\ SearchInv /\ SearchTypeOK /\ DistancesAreAttained /\ path = <<>>
    BY <1>4 DEF UpdateNeighbour, Inv, SearchInv, TypeOK, ShortestInv, WalksAreTight
  <2>3. PICK u \in Edges(cmp) : u = ud.prev /\ v \in cmp.adj[u] /\ distances[u].dist = ud.dist
    BY <2>2 DEF SearchInv, SearchTypeOK
  <2>4. v \in Edges(cmp) /\ source \in Edges(cmp) /\ distances[u].dist \in Nat
    BY <2>2, InfAssumption DEF SearchTypeOK
  <2>5. PICK d \in Nat : d = ud.dist + cmp.weight[v]
    BY <2>2, <2>3, <2>4, ComponentFacts
  <2>6. Attains(cmp, source, v, d)
    <3>1. Attains(cmp, source, u, distances[u].dist)
      BY <2>2 DEF DistancesAreAttained
    <3> QED BY <2>2, <2>3, <2>4, <2>5, <3>1, AttainsFollows
  <2>7. DistancesAreAttained'
    <3>1. CASE d < distances[v].dist
      <4>1. distances' = [distances EXCEPT ![v] = Dist(ud.prev, d)]
        BY <2>1, <2>5, <3>1 DEF update
      <4>2. ASSUME NEW e \in Edges(cmp) PROVE distances'[e].dist = IF e = v THEN d ELSE distances[e].dist
        BY <2>2, <4>1 DEF SearchTypeOK, Dist
      <4> QED BY <2>2, <2>6, <4>2 DEF DistancesAreAttained
    <3>2. CASE ~(d < distances[v].dist)
      BY <1>1, <2>1, <2>2, <2>5, <3>2 DEF update
    <3> QED BY <3>1, <3>2
  <2> QED BY <1>2, <2>2, <2>7 DEF ShortestInv
<1>5. ASSUME TakeFirst \/ EndSearch PROVE ShortestInv'
  <2>1. UNCHANGED <<cmp, source, distances, path>> /\ pc = "searching" /\ path = <<>>
    BY <1>5 DEF TakeFirst, EndSearch, ShortestInv, WalksAreTight
  <2> QED BY <1>1, <1>2, <2>1 DEF ShortestInv
<1>6. ASSUME NEW s2 \in Edges(cmp), FindShortestPath(s2) PROVE ShortestInv'
  <2>1. UNCHANGED <<cmp, source, distances>> /\ pc = "ready"
    BY <1>6 DEF FindShortestPath
  <2>2. CASE is_finite(distances[s2])
    <3>1. path' = <<s2>> /\ pc' = "walking"
      BY <1>6, <2>2 DEF FindShortestPath
    <3>2. 1..Len(path') - 1 = {}
      BY <3>1
    <3>3. WalksAreTight'
      BY <3>1, <3>2 DEF WalksAreTight
    <3> QED BY <1>1, <2>1, <3>3 DEF ShortestInv
  <2>3. CASE ~is_finite(distances[s2])
    <3>1. path' = <<>>
      BY <1>6, <2>3 DEF FindShortestPath
    <3> QED BY <1>1, <1>2, <2>1, <3>1 DEF ShortestInv
  <2> QED BY <2>2, <2>3
<1>7. ASSUME WalkBack PROVE ShortestInv'
  <2>1. /\ UNCHANGED <<cmp, source, distances, pc>> /\ pc = "walking" /\ Head(path) # source
        /\ TypeOK /\ SearchInv /\ SearchTypeOK /\ path \in Seq(Edges(cmp)) /\ path # <<>>
        /\ is_finite(distances[Head(path)]) /\ q = {} /\ nbs = {}
    BY <1>7 DEF WalkBack, Inv, SearchInv, TypeOK
  <2>2. PICK h \in Edges(cmp) : h = Head(path) /\ h = path[1]
    BY <2>1
  <2>3. PICK p \in Edges(cmp) : p = distances[h].prev /\ is_finite(distances[p])
    BY <2>1, <2>2, PredecessorReached
  <2>4. FromPredecessor(h)
    BY <2>1, <2>2 DEF SearchInv
  <2>5. h \in cmp.adj[p] /\ distances[p].dist + cmp.weight[h] <= distances[h].dist
    BY <2>1, <2>3, <2>4 DEF FromPredecessor, SearchTypeOK
  <2>6. distances[h].dist <= distances[p].dist + cmp.weight[h]
    BY <2>1, <2>3, <2>5 DEF SearchInv, SearchTypeOK, Queued, InWork
  <2>7. IsStep(p, h)
    <3>1. cmp.weight[h] \in Nat /\ distances[p].dist \in Nat /\ distances[h].dist \in Nat
      BY <2>1, ComponentFacts, InfAssumption DEF SearchTypeOK, TypeOK
    <3> QED BY <2>5, <2>6, <3>1 DEF IsStep
  <2>8. path' = <<p>> \o path
    BY <1>7, <2>2, <2>3 DEF WalkBack
  <2>9. /\ Len(path) \in Nat /\ Len(path) >= 1
        /\ Len(path') = Len(path) + 1 /\ path'[1] = p
        /\ \A k \in 1..Len(path) : path'[k + 1] = path[k]
    BY <2>1, <2>8
  <2>10. \A k \in 1..Len(path) - 1 : IsStep(path[k], path[k + 1])
    BY DEF ShortestInv, WalksAreTight
  <2>11. ASSUME NEW k \in 1..Len(path') - 1 PROVE IsStep(path'[k], path'[k + 1])
    <3>1. CASE k = 1
      <4>1. path'[1 + 1] = path[1]
        BY <2>9
      <4> QED BY <2>2, <2>7, <2>9, <3>1, <4>1
    <3>2. CASE k # 1
      <4>1. k - 1 \in 1..Len(path) - 1 /\ (k - 1) + 1 = k /\ k - 1 \in 1..Len(path) /\ k \in 1..Len(path)
        BY <2>9, <3>2
      <4>2. path'[k] = path[k - 1] /\ path'[k + 1] = path[k]
        BY <2>9, <4>1
      <4> QED BY <2>10, <4>1, <4>2
    <3> QED BY <3>1, <3>2
  <2>12. WalksAreTight'
    BY <2>1, <2>11 DEF WalksAreTight, IsStep
  <2>13. DistancesAreAttained'
    BY <1>1, <2>1 DEF ShortestInv
  <2> QED BY <2>12, <2>13 DEF ShortestInv
<1>8. ASSUME EndWalk \/ UNCHANGED vars PROVE ShortestInv'
  <2>1. UNCHANGED <<cmp, source, distances, path>>
    BY <1>8 DEF EndWalk, vars
  <2>2. (pc' # pc => pc = "walking" /\ pc' = "ready" /\ Head(path) = source)
    BY <1>8 DEF EndWalk, vars
  <2>3. WalksAreTight'
    BY <2>1, <2>2 DEF ShortestInv, WalksAreTight, IsStep
  <2>4. pc' # "idle" => DistancesAreAttained'
    BY <1>1, <2>1, <2>2 DEF ShortestInv
  <2> QED BY <2>3, <2>4 DEF ShortestInv
<1>9. ASSUME ChangeComponent PROVE ShortestInv'
  <2>1. path' = <<>> /\ pc' = "idle"
    BY <1>9 DEF ChangeComponent
  <2> QED BY <1>2, <2>1 DEF ShortestInv
<1> QED BY <1>3, <1>4, <1>5, <1>6, <1>7, <1>8, <1>9 DEF Next, Search, Walk

LEMMA InvImpliesShortest ==
  ASSUME Inv, ShortestInv
  PROVE  PathIsShortest
<1> SUFFICES ASSUME pc = "ready" PROVE PathIsShortest
  BY DEF PathIsShortest
<1> DEFINE F == [e \in Edges(cmp) |-> distances[e].dist]
<1>1. /\ TypeOK /\ SearchInv /\ SearchTypeOK /\ DistancesAreAttained /\ WalksAreTight
      /\ cmp \in Components /\ source \in Edges(cmp) /\ ajlg = cmp.adj /\ q = {} /\ nbs = {}
  BY DEF Inv, SearchInv, TypeOK, SearchTypeOK, ShortestInv
<1>2. Inf \in Nat /\ AreWays(Ways(cmp), Edges(cmp))
  BY <1>1, InfAssumption, WaysAreWays
<1>3. \A e \in Edges(cmp) : distances[e].dist \in Nat /\ distances[e].dist <= Inf
                          /\ cmp.weight[e] \in Nat
  BY <1>1, <1>2, ComponentFacts DEF SearchTypeOK
<1>4. \A e \in Edges(cmp) : F[e] = distances[e].dist
  OBVIOUS
<1>5. AreDistances(F, Edges(cmp))
  BY <1>3 DEF AreDistances
<1> HIDE DEF F
<1>6. ASSUME NEW e \in Edges(cmp), NEW w \in Ways(cmp)[e] PROVE F[e] <= F[w[1]] + w[2]
  <2>1. PICK u \in Edges(cmp) : u = w[1] /\ e \in cmp.adj[u] /\ w[2] = cmp.weight[e]
    BY <1>1, WaysAreWays
  <2>2. is_finite(distances[u]) => distances[e].dist <= distances[u].dist + cmp.weight[e]
    BY <1>1, <2>1 DEF SearchInv, Queued, InWork
  <2>3. ~is_finite(distances[u]) => distances[e].dist <= distances[u].dist
    BY <1>2, <1>3 DEF is_finite
  <2>4. distances[e].dist <= distances[u].dist + cmp.weight[e]
    BY <1>3, <2>2, <2>3
  <2> QED BY <1>4, <2>1, <2>4
<1>7. IsSolution(F, Ways(cmp), Edges(cmp), source)
  BY <1>1, <1>4, <1>5, <1>6 DEF IsSolution, SearchInv
<1>8. \A e \in Edges(cmp) : F[e] <= Inf
  BY <1>3, <1>4
<1>9. IsAttained(F, Rounds(Ways(cmp), source, Inf), Edges(cmp))
  BY <1>1, <1>4 DEF IsAttained, DistancesAreAttained, Attains
<1>10. PICK D : D = Shortest(Ways(cmp), source, Inf)
  OBVIOUS
<1>11. \A e \in Edges(cmp) : distances[e].dist = D[e]
  BY <1>1, <1>2, <1>4, <1>7, <1>8, <1>9, <1>10, SolutionIsShortest
<1>12. ASSUME path # <<>> PROVE PathIsAsLong(D)
  <2>1. Head(path) = source /\ path \in Seq(Edges(cmp))
    BY <1>1, <1>12 DEF WalksAreTight, TypeOK
  <2>2. ASSUME NEW k \in 1..Len(path) - 1
        PROVE  path[k + 1] \in cmp.adj[path[k]] /\ D[path[k + 1]] = D[path[k]] + cmp.weight[path[k + 1]]
    <3>1. path[k] \in Edges(cmp) /\ path[k + 1] \in Edges(cmp)
      <4>1. k \in 1..Len(path) /\ k + 1 \in 1..Len(path)
        BY <2>1
      <4> QED BY <2>1, <4>1
    <3>2. IsStep(path[k], path[k + 1])
      BY <1>1 DEF WalksAreTight
    <3> QED BY <1>11, <3>1, <3>2 DEF IsStep
  <2> QED BY <2>1, <2>2 DEF PathIsAsLong
<1> QED BY <1>10, <1>11, <1>12 DEF PathIsShortest

\* In every component, with any weights and in whatever order neighbours are taken up,
\* the distances found are the shortest, and a path walked back is a shortest path.
THEOREM EdgePathsAreShortest == Spec => []PathIsShortest
<1>1. Init => ShortestInv
  <2>1. ASSUME Init PROVE ShortestInv
    <3>1. path = <<>> /\ pc = "idle" /\ 1..Len(path) - 1 = {}
      BY <2>1 DEF Init
    <3> QED BY <3>1 DEF ShortestInv, WalksAreTight
  <2> QED BY <2>1
<1>2. Inv /\ ShortestInv /\ [Next]_vars => ShortestInv'
  BY ShortestInvAtStep
<1>3. Inv /\ ShortestInv => PathIsShortest
  BY InvImpliesShortest
<1> QED BY <1>1, <1>2, <1>3, Invariance, PTL DEF Spec
=============================================================================
