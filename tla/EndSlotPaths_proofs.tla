------------------------- MODULE EndSlotPaths_proofs -------------------------
(***************************************************************************)
(* The search over chain ends keeps all ends of a junction at one distance *)
(* and its queue behind the distances, in every component and at any time. *)
(* When it is over the distances are the shortest, a path walked back over *)
(* them is a shortest path, and the ends reached are those connected with  *)
(* the source.                                                             *)
(***************************************************************************)
EXTENDS EndSlotPaths, SharedLemmas

Distances(c) == [Slots(c) -> [prev : Slots(c) \cup {NoSlot}, dist : Nat]]
Entry(c) == [prev : Slots(c), dist : Nat]

LEMMA OppSlots ==
  ASSUME NEW c \in Networks, NEW s \in Slots(c)
  PROVE  Opp(s) \in Slots(c)
BY DEF Opp, Slots, Ends

\* Being neighbours is mutual, and the neighbours of a neighbour are neighbours.
LEMMA NeighboursAreMutual ==
  ASSUME NEW c \in Networks, NEW s \in Slots(c), NEW t \in c.ngs[s]
  PROVE  /\ t \in Slots(c)
         /\ s \in c.ngs[t]
         /\ s # t
         /\ c.ngs[t] = (c.ngs[s] \ {t}) \cup {s}
BY NetworksAssumption DEF IsNetwork

LEMMA NeighboursAreSlots ==
  ASSUME NEW c \in Networks, NEW s \in Slots(c)
  PROVE  c.ngs[s] \subseteq Slots(c)
BY NetworksAssumption DEF IsNetwork

LEMMA WeightsAreNat ==
  ASSUME NEW c \in Networks, NEW s \in Slots(c)
  PROVE  c.weight[s[1]] \in Nat
BY NetworksAssumption DEF IsNetwork, Slots

LEMMA DistType ==
  ASSUME NEW S, NEW p \in S, NEW d \in Nat
  PROVE  /\ Dist(p, d) \in [prev : S, dist : Nat]
         /\ Dist(p, d).dist = d
         /\ Dist(p, d).prev = p
BY DEF Dist

LEMMA UnreachedType ==
  ASSUME NEW S
  PROVE  /\ Unreached \in [prev : S \cup {NoSlot}, dist : Nat]
         /\ Unreached.dist = Inf
BY InfAssumption DEF Unreached, Dist

AgreeAtJunctions(c, D) == \A s \in Slots(c) : \A t \in c.ngs[s] : D[t].dist = D[s].dist

\* Reaching an end reaches its whole junction and nothing else.
LEMMA ReachedKeepsAgreement ==
  ASSUME cmp \in Networks,
         NEW D \in Distances(cmp), AgreeAtJunctions(cmp, D),
         NEW v \in Slots(cmp), NEW p \in Slots(cmp) \cup {NoSlot}, NEW d \in Nat
  PROVE  /\ Reached(D, v, p, d) \in Distances(cmp)
         /\ AgreeAtJunctions(cmp, Reached(D, v, p, d))
         /\ \A s \in Slots(cmp) : Reached(D, v, p, d)[s].dist =
                                    IF s = v \/ s \in cmp.ngs[v] THEN d ELSE D[s].dist
<1> DEFINE R == Reached(D, v, p, d)
<1>1. /\ Dist(p, d) \in [prev : Slots(cmp) \cup {NoSlot}, dist : Nat]
      /\ Dist(v, d) \in [prev : Slots(cmp) \cup {NoSlot}, dist : Nat]
      /\ Dist(p, d).dist = d /\ Dist(v, d).dist = d
  BY DistType
<1>2. \A s \in Slots(cmp) : R[s] = IF s = v THEN Dist(p, d)
                                   ELSE IF s \in cmp.ngs[v] THEN Dist(v, d) ELSE D[s]
  BY DEF Reached
<1>3. R \in Distances(cmp)
  BY <1>1 DEF Reached, Distances
<1>4. \A s \in Slots(cmp) : R[s].dist = IF s = v \/ s \in cmp.ngs[v] THEN d ELSE D[s].dist
  BY <1>1, <1>2
<1>5. ASSUME NEW s \in Slots(cmp), NEW t \in cmp.ngs[s]
      PROVE  R[t].dist = R[s].dist
  <2>1. t \in Slots(cmp) /\ s \in cmp.ngs[t] /\ cmp.ngs[t] = (cmp.ngs[s] \ {t}) \cup {s}
    BY NeighboursAreMutual
  <2>2. CASE s = v
    BY <1>4, <2>1, <2>2
  <2>3. CASE s # v /\ s \in cmp.ngs[v]
    <3>1. cmp.ngs[s] = (cmp.ngs[v] \ {s}) \cup {v}
      BY <2>3, NeighboursAreMutual
    <3> QED BY <1>4, <2>1, <2>3, <3>1
  <2>4. CASE s # v /\ s \notin cmp.ngs[v]
    <3>1. t # v
      BY <2>1, <2>4
    <3>2. t \notin cmp.ngs[v]
      <4>1. SUFFICES ASSUME t \in cmp.ngs[v] PROVE FALSE
        OBVIOUS
      <4>2. cmp.ngs[t] = (cmp.ngs[v] \ {t}) \cup {v}
        BY <4>1, NeighboursAreMutual
      <4> QED BY <2>1, <2>4, <4>2
    <3>3. D[t].dist = D[s].dist
      BY DEF AgreeAtJunctions
    <3> QED BY <1>4, <2>1, <2>4, <3>1, <3>2, <3>3
  <2> QED BY <2>2, <2>3, <2>4
<1> QED BY <1>3, <1>4, <1>5 DEF AgreeAtJunctions

\* What is put in the queue at a junction reached at distance d.
LEMMA QueuedAtReached ==
  ASSUME cmp \in Networks, NEW v \in Slots(cmp), NEW d \in Nat, NEW x \in QueuedAt(v, d)
  PROVE  x \in Entry(cmp) /\ x.dist = d /\ x.prev \in cmp.ngs[v]
<1>1. PICK s \in cmp.ngs[v] : x = Dist(s, d)
  BY DEF QueuedAt
<1>2. s \in Slots(cmp)
  BY NeighboursAreSlots
<1> QED BY <1>1, <1>2, DistType DEF Entry

\* What a search starts from.
LEMMA NothingReached ==
  ASSUME cmp \in Networks
  PROVE  /\ [t \in Slots(cmp) |-> Unreached] \in Distances(cmp)
         /\ AgreeAtJunctions(cmp, [t \in Slots(cmp) |-> Unreached])
<1>1. Unreached \in [prev : Slots(cmp) \cup {NoSlot}, dist : Nat]
  BY UnreachedType
<1>2. \A s \in Slots(cmp) : cmp.ngs[s] \subseteq Slots(cmp)
  BY NeighboursAreSlots
<1> QED BY <1>1, <1>2 DEF Distances, AgreeAtJunctions

PathsInv == TypeOK /\ JunctionsAgree /\ QueueIsNotAhead

-----------------------------------------------------------------------------
(* What holds while a search is under way and after it *)

Measured == pc \in {"searching", "computed", "walking"}

SourceIsAtZero == distances[source].dist = 0

NoneBeyondInf == \A s \in Slots(cmp) : distances[s].dist <= Inf

\* No end is at less than some way to it costs.
Attains(c, s0, s, d) == \E n \in Nat : Rounds(Ways(c), s0, Inf)[n][s] <= d
DistancesAreAttained == \A s \in Slots(cmp) : Attains(cmp, source, s, distances[s].dist)

\* An end that has been reached is queued at its distance, or the other end of its
\* chain can gain nothing from it.
AlongIsSettled(s) == distances[Opp(s)].dist <= distances[s].dist + cmp.weight[s[1]]
SettledUnlessQueued ==
  \A s \in Slots(cmp) :
    is_finite(s) => Dist(s, distances[s].dist) \in q \/ AlongIsSettled(s)

\* Every end reached but the source is reached over the one before it.
IsFromPrevious(s) ==
  LET p == distances[s].prev
  IN  /\ p \in Slots(cmp) /\ is_finite(p)
      /\ \/ s \in cmp.ngs[p]
         \/ p = Opp(s) /\ distances[p].dist + cmp.weight[s[1]] <= distances[s].dist
ReachedFromPrevious == \A s \in Slots(cmp) : is_finite(s) /\ s # source => IsFromPrevious(s)

\* Nothing is reached that is not connected with the source.
ReachedAreConnected ==
  \A S \in SUBSET Slots(cmp) :
    source \in S /\ IsClosed(S) => \A s \in Slots(cmp) : is_finite(s) => s \in S

\* A walk back is over ends that have been reached, each a step from the next.
IsStep(u, v) ==
  \/ v \in cmp.ngs[u]
  \/ v = Opp(u) /\ distances[v].dist = distances[u].dist + cmp.weight[v[1]]
WalksAreTight ==
  /\ pc = "walking" => path # <<>>
  /\ pc = "computed" /\ path # <<>> => Head(path) = source
  /\ pc = "searching" => path = <<>>
  /\ \A k \in 1..Len(path) : is_finite(path[k])
  /\ \A k \in 1..Len(path) - 1 : IsStep(path[k], path[k + 1])

SearchInv ==
  Measured =>
    /\ SourceIsAtZero
    /\ NoneBeyondInf
    /\ DistancesAreAttained
    /\ SettledUnlessQueued
    /\ ReachedFromPrevious
    /\ ReachedAreConnected
    /\ pc # "searching" => q = {}
    /\ WalksAreTight

-----------------------------------------------------------------------------

LEMMA PathsInvAtInit == Init => PathsInv
<1> SUFFICES ASSUME Init PROVE PathsInv
  OBVIOUS
<1>1. cmp \in Networks /\ distances = [t \in Slots(cmp) |-> Unreached] /\ q = {}
      /\ source = NoSlot /\ pc = "idle" /\ path = <<>>
  BY DEF Init
<1>2. distances \in Distances(cmp) /\ AgreeAtJunctions(cmp, distances)
  BY <1>1, NothingReached
<1> QED BY <1>1, <1>2 DEF PathsInv, TypeOK, JunctionsAgree, QueueIsNotAhead, Distances, AgreeAtJunctions

LEMMA SearchKeepsInv ==
  ASSUME PathsInv, NEW s \in Slots(cmp), ComputeFromSource(s)
  PROVE  PathsInv'
<1> DEFINE D0 == [t \in Slots(cmp) |-> Unreached]
<1>1. cmp \in Networks /\ cmp' = cmp /\ source' = s /\ pc' = "searching" /\ path' = <<>>
      /\ distances' = Reached(D0, s, NoSlot, 0)
      /\ q' = {Dist(s, 0)} \cup QueuedAt(s, 0)
  BY DEF PathsInv, TypeOK, ComputeFromSource, Reset
<1>2. D0 \in Distances(cmp) /\ AgreeAtJunctions(cmp, D0)
  BY <1>1, NothingReached
<1> HIDE DEF D0
<1>3. /\ distances' \in Distances(cmp)
      /\ AgreeAtJunctions(cmp, distances')
      /\ \A t \in Slots(cmp) : t = s \/ t \in cmp.ngs[s] => distances'[t].dist = 0
  <2>1. /\ Reached(D0, s, NoSlot, 0) \in Distances(cmp)
        /\ AgreeAtJunctions(cmp, Reached(D0, s, NoSlot, 0))
        /\ \A t \in Slots(cmp) : Reached(D0, s, NoSlot, 0)[t].dist =
                                   IF t = s \/ t \in cmp.ngs[s] THEN 0 ELSE D0[t].dist
    <3>1. NoSlot \in Slots(cmp) \cup {NoSlot} /\ 0 \in Nat
      OBVIOUS
    <3>2. cmp \in Networks
      BY <1>1
    <3> QED BY ONLY <1>2, <3>1, <3>2, s \in Slots(cmp), ReachedKeepsAgreement
  <2> QED BY <1>1, <2>1
<1>4. ASSUME NEW x \in q'
      PROVE  x \in Entry(cmp) /\ distances'[x.prev].dist <= x.dist
  <2>1. CASE x = Dist(s, 0)
    BY <1>3, <2>1, DistType DEF Entry
  <2>2. CASE x \in QueuedAt(s, 0)
    <3>1. x \in Entry(cmp) /\ x.dist = 0 /\ x.prev \in cmp.ngs[s] /\ x.prev \in Slots(cmp)
      BY <1>1, <2>2, QueuedAtReached, NeighboursAreSlots
    <3> QED BY <1>3, <3>1
  <2> QED BY <1>1, <2>1, <2>2
<1> QED BY <1>1, <1>3, <1>4
        DEF PathsInv, TypeOK, JunctionsAgree, QueueIsNotAhead, Distances, Entry, AgreeAtJunctions

LEMMA UpdateKeepsInv ==
  ASSUME PathsInv, pc = "searching", NEW ud \in q, update(ud, Opp(ud.prev)),
         UNCHANGED <<cmp, source, path, pc>>
  PROVE  PathsInv'
<1> DEFINE v == Opp(ud.prev)
           d == ud.dist + cmp.weight[v[1]]
<1>1. /\ cmp \in Networks /\ ud \in Entry(cmp)
      /\ distances \in Distances(cmp) /\ AgreeAtJunctions(cmp, distances)
      /\ q \subseteq Entry(cmp)
      /\ \A x \in q : distances[x.prev].dist <= x.dist
  BY DEF PathsInv, TypeOK, JunctionsAgree, QueueIsNotAhead, Distances, Entry, AgreeAtJunctions
<1>2. ud.prev \in Slots(cmp) /\ ud.dist \in Nat
  BY <1>1 DEF Entry
<1>3. v \in Slots(cmp)
  BY <1>1, <1>2, OppSlots
<1>4. d \in Nat /\ d >= ud.dist
  BY <1>1, <1>2, <1>3, WeightsAreNat
<1>5. \A t \in Slots(cmp) : distances[t].dist \in Nat
  BY <1>1 DEF Distances
<1>6. CASE ~(d < distances[v].dist)
  <2>1. q' = q \ {ud} /\ distances' = distances
    BY <1>6 DEF update
  <2> QED BY <2>1 DEF PathsInv, TypeOK, JunctionsAgree, QueueIsNotAhead
<1>7. CASE d < distances[v].dist
  <2>1. /\ distances' = Reached(distances, v, ud.prev, d)
        /\ q' = (q \ {ud}) \cup {Dist(ud.prev, d)} \cup QueuedAt(v, d)
    BY <1>7 DEF update
  <2> HIDE DEF v, d
  <2>2. /\ distances' \in Distances(cmp)
        /\ AgreeAtJunctions(cmp, distances')
        /\ \A t \in Slots(cmp) : distances'[t].dist =
                                   IF t = v \/ t \in cmp.ngs[v] THEN d ELSE distances[t].dist
    <3> DEFINE R == Reached(distances, v, ud.prev, d)
    <3>1. ud.prev \in Slots(cmp) \cup {NoSlot}
      BY <1>2
    <3>2. /\ R \in Distances(cmp)
          /\ AgreeAtJunctions(cmp, R)
          /\ \A t \in Slots(cmp) : R[t].dist =
                                     IF t = v \/ t \in cmp.ngs[v] THEN d ELSE distances[t].dist
      BY ONLY <1>1, <1>3, <1>4, <3>1, ReachedKeepsAgreement
    <3> QED BY <2>1, <3>2
  <2>3. \A t \in Slots(cmp) : distances'[t].dist <= distances[t].dist
    <3>1. \A t \in Slots(cmp) : t \in cmp.ngs[v] => distances[t].dist = distances[v].dist
      BY <1>1, <1>3 DEF AgreeAtJunctions
    <3> QED BY <1>3, <1>4, <1>5, <1>7, <2>2, <3>1
  <2>4. ASSUME NEW x \in q'
        PROVE  x \in Entry(cmp) /\ distances'[x.prev].dist <= x.dist
    <3>0. \A t \in Slots(cmp) : distances'[t].dist \in Nat
      BY <2>2 DEF Distances
    <3>1. CASE x \in q
      <4>1. x \in Entry(cmp) /\ x.prev \in Slots(cmp) /\ x.dist \in Nat
        BY <1>1, <3>1 DEF Entry
      <4> QED BY <1>1, <1>5, <2>3, <3>0, <3>1, <4>1
    <3>2. CASE x = Dist(ud.prev, d)
      <4>1. x \in Entry(cmp) /\ x.prev = ud.prev /\ x.dist = d
        BY <1>2, <1>4, <3>2, DistType DEF Entry
      <4>2. distances[ud.prev].dist <= ud.dist
        BY <1>1
      <4> QED BY <1>2, <1>4, <1>5, <2>3, <3>0, <4>1, <4>2
    <3>3. CASE x \in QueuedAt(v, d)
      <4>1. x \in Entry(cmp) /\ x.dist = d /\ x.prev \in cmp.ngs[v] /\ x.prev \in Slots(cmp)
        BY <1>1, <1>3, <1>4, <3>3, QueuedAtReached, NeighboursAreSlots
      <4> QED BY <1>4, <2>2, <4>1
    <3> QED BY <2>1, <3>1, <3>2, <3>3
  <2> QED BY <1>1, <2>2, <2>4
          DEF PathsInv, TypeOK, JunctionsAgree, QueueIsNotAhead, Distances, Entry, AgreeAtJunctions
<1> QED BY <1>6, <1>7

\* The end that a walk goes back to, and that the one it has come to is no longer
\* than the one before.
LEMMA WalkGoesToEnd ==
  ASSUME PathsInv, SearchInv, WalkBack
  PROVE  /\ Head(path) \in Slots(cmp) /\ path # <<>> /\ path \in Seq(Slots(cmp))
         /\ is_finite(Head(path)) /\ IsFromPrevious(Head(path))
         /\ path' = <<distances[Head(path)].prev>> \o path
         /\ path' \in Seq(Slots(cmp)) /\ path' # <<>>
<1>1. path \in Seq(Slots(cmp)) /\ path # <<>> /\ Head(path) # source
      /\ path' = <<distances[Head(path)].prev>> \o path
      /\ ReachedFromPrevious /\ \A k \in 1..Len(path) : is_finite(path[k])
  BY DEF PathsInv, TypeOK, SearchInv, Measured, WalksAreTight, WalkBack
<1>2. Len(path) \in Nat /\ Len(path) >= 1 /\ Head(path) = path[1] /\ Head(path) \in Slots(cmp)
  BY <1>1
<1>3. is_finite(Head(path))
  BY <1>1, <1>2
<1>4. IsFromPrevious(Head(path))
  BY <1>1, <1>2, <1>3 DEF ReachedFromPrevious
<1>5. PICK p \in Slots(cmp) : p = distances[Head(path)].prev
  BY <1>4 DEF IsFromPrevious
<1>6. <<p>> \o path \in Seq(Slots(cmp)) /\ <<p>> \o path # <<>>
  BY <1>1
<1> QED BY <1>1, <1>2, <1>3, <1>4, <1>5, <1>6

LEMMA PathsInvAtStep == PathsInv /\ SearchInv /\ [Next]_vars => PathsInv'
<1> SUFFICES ASSUME PathsInv, SearchInv, [Next]_vars PROVE PathsInv'
  OBVIOUS
<1>1. ASSUME Search PROVE PathsInv'
  BY <1>1, SearchKeepsInv DEF Search
<1>2. ASSUME NEW s \in Slots(cmp), ConnectedAlongChain(s) PROVE PathsInv'
  <2>1. cmp \in Networks /\ cmp' = cmp /\ source' = s /\ pc' = "reset" /\ path' = <<>>
        /\ distances' = [t \in Slots(cmp) |-> Unreached] /\ q' = {}
    BY <1>2 DEF ConnectedAlongChain, PathsInv, TypeOK
  <2>2. distances' \in Distances(cmp) /\ AgreeAtJunctions(cmp, distances')
    BY <2>1, NothingReached
  <2> QED BY <2>1, <2>2
          DEF PathsInv, TypeOK, JunctionsAgree, QueueIsNotAhead, Distances, AgreeAtJunctions
<1>3. ASSUME GoOn PROVE PathsInv'
  BY <1>3, UpdateKeepsInv DEF GoOn
<1>4. ASSUME EndSearch PROVE PathsInv'
  BY <1>4 DEF EndSearch, PathsInv, TypeOK, JunctionsAgree, QueueIsNotAhead
<1>5. ASSUME NEW s \in Slots(cmp), FindShortestPath(s) PROVE PathsInv'
  <2>1. path' \in Seq(Slots(cmp)) /\ pc' \in {"computed", "walking"} /\ pc = "computed"
        /\ cmp' = cmp /\ source' = source /\ distances' = distances /\ q' = q
    <3>1. /\ pc = "computed"
          /\ cmp' = cmp /\ source' = source /\ distances' = distances /\ q' = q
          /\ \/ path' = <<s>> /\ pc' = "walking"
             \/ path' = <<>> /\ pc' = "computed"
      BY <1>5 DEF FindShortestPath
    <3>2. <<s>> \in Seq(Slots(cmp)) /\ <<>> \in Seq(Slots(cmp))
      OBVIOUS
    <3>3. path' \in Seq(Slots(cmp))
      BY <3>1, <3>2, Zenon
    <3> QED BY <3>1, <3>3
  <2>2. Slots(cmp') = Slots(cmp) /\ pc # "idle"
    BY <2>1
  <2>3. TypeOK'
    BY <2>1, <2>2 DEF PathsInv, TypeOK
  <2>4. JunctionsAgree' /\ QueueIsNotAhead'
    BY <2>1 DEF PathsInv, JunctionsAgree, QueueIsNotAhead
  <2> QED BY <2>3, <2>4 DEF PathsInv
<1>6. ASSUME UNCHANGED vars PROVE PathsInv'
  BY <1>6 DEF vars, PathsInv, TypeOK, JunctionsAgree, QueueIsNotAhead
<1>7. ASSUME WalkBack PROVE PathsInv'
  <2>1. path' \in Seq(Slots(cmp))
    BY <1>7, WalkGoesToEnd
  <2> QED BY <1>7, <2>1 DEF WalkBack, PathsInv, TypeOK, JunctionsAgree, QueueIsNotAhead
<1>8. ASSUME EndWalk PROVE PathsInv'
  BY <1>8 DEF EndWalk, PathsInv, TypeOK, JunctionsAgree, QueueIsNotAhead
<1> QED BY <1>1, <1>2, <1>3, <1>4, <1>5, <1>6, <1>7, <1>8 DEF Next, SameChain, Find

-----------------------------------------------------------------------------
(* The ways between ends *)

LEMMA OppOfOpp ==
  ASSUME NEW c \in Networks, NEW s \in Slots(c)
  PROVE  Opp(Opp(s)) = s /\ Opp(s)[1] = s[1] /\ Opp(s) # s
BY DEF Opp, Slots, Ends

LEMMA SlotsAreFinite ==
  ASSUME NEW c \in Networks
  PROVE  IsFiniteSet(Slots(c)) /\ Cardinality(Slots(c)) \in Nat
<1>1. IsFiniteSet(Chains(c))
  BY NetworksAssumption DEF IsNetwork
<1>2. IsFiniteSet({"A", "B"})
  <2>1. IsFiniteSet({"A"})
    BY FS_Singleton
  <2>2. IsFiniteSet({"A"} \cup {"B"})
    BY <2>1, FS_AddElement
  <2>3. {"A"} \cup {"B"} = {"A", "B"}
    OBVIOUS
  <2> QED BY <2>2, <2>3
<1>3. IsFiniteSet(Slots(c))
  BY <1>1, <1>2, FS_Product DEF Slots, Ends
<1> QED BY <1>3, FS_CardinalityType

LEMMA WaysOfEnd ==
  ASSUME NEW c \in Networks, NEW s \in Slots(c)
  PROVE  /\ \A t \in c.ngs[s] : <<t, 0>> \in Ways(c)[s]
         /\ <<Opp(s), c.weight[s[1]]>> \in Ways(c)[s]
         /\ \A w \in Ways(c)[s] : \/ w[1] \in c.ngs[s] /\ w[2] = 0
                                  \/ w[1] = Opp(s) /\ w[2] = c.weight[s[1]]
<1>1. Ways(c)[s] = {<<t, 0>> : t \in c.ngs[s]} \cup {<<Opp(s), c.weight[s[1]]>>}
  BY DEF Ways
<1>2. ASSUME NEW w \in Ways(c)[s]
      PROVE  \/ w[1] \in c.ngs[s] /\ w[2] = 0
             \/ w[1] = Opp(s) /\ w[2] = c.weight[s[1]]
  BY <1>1
<1> QED BY <1>1, <1>2

LEMMA WaysAreWays ==
  ASSUME NEW c \in Networks
  PROVE  AreWays(Ways(c), Slots(c))
<1>1. ASSUME NEW s \in Slots(c), NEW w \in Ways(c)[s]
      PROVE  w[1] \in Slots(c) /\ w[2] \in Nat
  <2>1. \/ w[1] \in c.ngs[s] /\ w[2] = 0
        \/ w[1] = Opp(s) /\ w[2] = c.weight[s[1]]
    BY WaysOfEnd
  <2>2. c.ngs[s] \subseteq Slots(c) /\ Opp(s) \in Slots(c) /\ c.weight[s[1]] \in Nat
    BY NeighboursAreSlots, OppSlots, WeightsAreNat
  <2> QED BY <2>1, <2>2
<1>2. DOMAIN Ways(c) = Slots(c)
  BY DEF Ways
<1> QED BY <1>1, <1>2, SlotsAreFinite DEF AreWays

\* How the distance of s can come about in a round.
IsComeBy(c, R, n, s) ==
  \/ R[n + 1][s] = R[n][s]
  \/ \E t \in c.ngs[s] : R[n + 1][s] = R[n][t]
  \/ R[n + 1][s] = R[n][Opp(s)] + c.weight[s[1]]

\* What the rounds are like.
LEMMA RoundsOfNetwork ==
  ASSUME NEW c \in Networks, NEW s0 \in Slots(c), NEW R, R = Rounds(Ways(c), s0, Inf)
  PROVE  /\ \A s \in Slots(c) : R[0][s] = IF s = s0 THEN 0 ELSE Inf
         /\ \A n \in Nat : \A s \in Slots(c) :
              /\ R[n][s] \in Nat
              /\ \A t \in c.ngs[s] : R[n + 1][s] <= R[n][t]
              /\ R[n + 1][s] <= R[n][Opp(s)] + c.weight[s[1]]
              /\ IsComeBy(c, R, n, s)
<1>1. AreWays(Ways(c), Slots(c)) /\ Inf \in Nat
  BY WaysAreWays, InfAssumption
<1>2. AreRounds(R, Ways(c), Slots(c), s0, Inf)
  BY <1>1, RoundsByRound
<1>3. \A s \in Slots(c) : R[0][s] = IF s = s0 THEN 0 ELSE Inf
  BY <1>2 DEF AreRounds, AtStart
<1>4. \A n \in Nat : AreDistances(R[n], Slots(c)) /\ R[n + 1] = Improved(Ways(c), R[n])
  BY <1>2 DEF AreRounds
<1>5. ASSUME NEW n \in Nat, NEW s \in Slots(c)
      PROVE  /\ R[n][s] \in Nat
             /\ \A t \in c.ngs[s] : R[n + 1][s] <= R[n][t]
             /\ R[n + 1][s] <= R[n][Opp(s)] + c.weight[s[1]]
             /\ IsComeBy(c, R, n, s)
  <2>1. \A t \in Slots(c) : R[n][t] \in Nat
    BY <1>4, DistancesAreNat
  <2>2. /\ \/ R[n + 1][s] = R[n][s]
           \/ \E w \in Ways(c)[s] : R[n + 1][s] = R[n][w[1]] + w[2]
        /\ \A w \in Ways(c)[s] : R[n + 1][s] <= R[n][w[1]] + w[2]
    BY <1>1, <1>4, ImprovedIsLeast
  <2>3. ASSUME NEW t \in c.ngs[s] PROVE R[n + 1][s] <= R[n][t]
    <3>1. <<t, 0>> \in Ways(c)[s] /\ t \in Slots(c)
      BY WaysOfEnd, NeighboursAreSlots
    <3>2. R[n + 1][s] <= R[n][<<t, 0>>[1]] + <<t, 0>>[2]
      BY <2>2, <3>1
    <3>3. R[n][t] + 0 = R[n][t]
      BY <2>1, <3>1
    <3> QED BY <3>2, <3>3
  <2>4. R[n + 1][s] <= R[n][Opp(s)] + c.weight[s[1]]
    <3>1. PICK w \in Ways(c)[s] : w[1] = Opp(s) /\ w[2] = c.weight[s[1]]
      BY WaysOfEnd
    <3> QED BY <2>2, <3>1
  <2>5. ASSUME NEW w \in Ways(c)[s], R[n + 1][s] = R[n][w[1]] + w[2]
        PROVE  \/ \E t \in c.ngs[s] : R[n + 1][s] = R[n][t]
               \/ R[n + 1][s] = R[n][Opp(s)] + c.weight[s[1]]
    <3>1. \/ w[1] \in c.ngs[s] /\ w[2] = 0
          \/ w[1] = Opp(s) /\ w[2] = c.weight[s[1]]
      BY WaysOfEnd
    <3>2. CASE w[1] \in c.ngs[s] /\ w[2] = 0
      <4>1. R[n][w[1]] \in Nat
        BY <2>1, <3>2, NeighboursAreSlots
      <4>2. R[n + 1][s] = R[n][w[1]]
        BY <2>5, <3>2, <4>1
      <4> QED BY <3>2, <4>2
    <3>3. CASE w[1] = Opp(s) /\ w[2] = c.weight[s[1]]
      BY <2>5, <3>3
    <3> QED BY <3>1, <3>2, <3>3
  <2>6. IsComeBy(c, R, n, s)
    BY <2>2, <2>5 DEF IsComeBy
  <2> QED BY <2>1, <2>3, <2>4, <2>6
<1> QED BY <1>3, <1>5

LEMMA AttainsStarts ==
  ASSUME NEW c \in Networks, NEW s0 \in Slots(c)
  PROVE  /\ Attains(c, s0, s0, 0)
         /\ \A s \in Slots(c) : Attains(c, s0, s, Inf)
<1>1. PICK R : R = Rounds(Ways(c), s0, Inf)
  OBVIOUS
<1>2. \A s \in Slots(c) : R[0][s] = IF s = s0 THEN 0 ELSE Inf
  BY <1>1, RoundsOfNetwork
<1>3. R[0][s0] <= 0 /\ \A s \in Slots(c) : R[0][s] <= Inf
  BY <1>2, InfAssumption
<1> QED BY <1>1, <1>3 DEF Attains

LEMMA AttainsFollows ==
  ASSUME NEW c \in Networks, NEW s0 \in Slots(c), NEW s \in Slots(c), NEW d \in Nat,
         Attains(c, s0, s, d)
  PROVE  /\ \A e \in Nat : d <= e => Attains(c, s0, s, e)
         /\ \A t \in c.ngs[s] : Attains(c, s0, t, d)
         /\ Attains(c, s0, Opp(s), d + c.weight[s[1]])
<1>1. PICK R : R = Rounds(Ways(c), s0, Inf)
  OBVIOUS
<1>2. PICK n \in Nat : R[n][s] <= d
  BY <1>1 DEF Attains
<1>3. n + 1 \in Nat
  OBVIOUS
<1>4. \A m \in Nat : \A u \in Slots(c) :
        /\ R[m][u] \in Nat
        /\ \A t \in c.ngs[u] : R[m + 1][u] <= R[m][t]
        /\ R[m + 1][u] <= R[m][Opp(u)] + c.weight[u[1]]
  BY <1>1, RoundsOfNetwork
<1>5. ASSUME NEW e \in Nat, d <= e PROVE R[n][s] <= e
  BY <1>2, <1>4, <1>5
<1>6. ASSUME NEW t \in c.ngs[s] PROVE R[n + 1][t] <= d
  <2>1. t \in Slots(c) /\ s \in c.ngs[t]
    BY NeighboursAreMutual
  <2>2. R[n + 1][t] <= R[n][s] /\ R[n + 1][t] \in Nat /\ R[n][s] \in Nat
    BY <1>3, <1>4, <2>1
  <2> QED BY <1>2, <2>2
<1>7. R[n + 1][Opp(s)] <= d + c.weight[s[1]]
  <2>1. Opp(s) \in Slots(c) /\ Opp(Opp(s)) = s /\ Opp(s)[1] = s[1]
    BY OppSlots, OppOfOpp
  <2>2. R[n + 1][Opp(s)] <= R[n][s] + c.weight[s[1]] /\ R[n + 1][Opp(s)] \in Nat /\ R[n][s] \in Nat
    BY <1>3, <1>4, <2>1
  <2>3. c.weight[s[1]] \in Nat
    BY WeightsAreNat
  <2> QED BY <1>2, <2>2, <2>3
<1> QED BY <1>1, <1>2, <1>3, <1>5, <1>6, <1>7 DEF Attains

-----------------------------------------------------------------------------
(* The invariant of searches is kept *)

LEMMA ReachedAt ==
  ASSUME cmp \in Networks, NEW D, NEW v, NEW p, NEW d \in Nat, NEW s \in Slots(cmp)
  PROVE  /\ s = v => Reached(D, v, p, d)[s].dist = d /\ Reached(D, v, p, d)[s].prev = p
         /\ s # v /\ s \in cmp.ngs[v] =>
              Reached(D, v, p, d)[s].dist = d /\ Reached(D, v, p, d)[s].prev = v
         /\ s # v /\ s \notin cmp.ngs[v] => Reached(D, v, p, d)[s] = D[s]
<1>1. Reached(D, v, p, d)[s] = IF s = v THEN Dist(p, d)
                               ELSE IF s \in cmp.ngs[v] THEN Dist(v, d) ELSE D[s]
  BY DEF Reached
<1>2. Dist(p, d).dist = d /\ Dist(p, d).prev = p /\ Dist(v, d).dist = d /\ Dist(v, d).prev = v
  BY DEF Dist
<1> QED BY <1>1, <1>2

\* An end at the junction reached is queued, or its chain comes back to the junction.
LEMMA QueuedOrLoop ==
  ASSUME cmp \in Networks, NEW v \in Slots(cmp), NEW d, NEW s \in cmp.ngs[v]
  PROVE  Dist(s, d) \in QueuedAt(v, d) \/ (s = Opp(v) /\ Opp(s) = v)
<1>1. s \in Slots(cmp) /\ s # v
  BY NeighboursAreMutual
<1>2. CASE s[1] # v[1]
  BY <1>2 DEF QueuedAt
<1>3. CASE s[1] = v[1]
  BY <1>1, <1>3 DEF Opp, Slots, Ends
<1> QED BY <1>2, <1>3

LEMMA SearchKeepsSearchInv ==
  ASSUME PathsInv, NEW s \in Slots(cmp), ComputeFromSource(s)
  PROVE  SearchInv'
<1> DEFINE D0 == [t \in Slots(cmp) |-> Unreached]
<1>1. /\ cmp \in Networks /\ cmp' = cmp /\ source' = s
      /\ pc' = "searching" /\ path' = <<>>
      /\ distances' = Reached(D0, s, NoSlot, 0)
      /\ q' = {Dist(s, 0)} \cup QueuedAt(s, 0)
  BY DEF PathsInv, TypeOK, ComputeFromSource, Reset
<1>2. \A t \in Slots(cmp) : D0[t].dist = Inf
  BY UnreachedType
<1>12. cmp \in Networks /\ Slots(cmp') = Slots(cmp) /\ cmp'.ngs = cmp.ngs /\ cmp'.weight = cmp.weight
  BY <1>1
<1>0. Inf \in Nat /\ 0 < Inf
  BY InfAssumption
<1> HIDE DEF D0
<1>3. ASSUME NEW t \in Slots(cmp)
      PROVE  /\ t = s \/ t \in cmp.ngs[s] => distances'[t].dist = 0
             /\ t # s /\ t \notin cmp.ngs[s] => distances'[t].dist = Inf
             /\ t # s /\ t \in cmp.ngs[s] => distances'[t].prev = s
  <2>1. 0 \in Nat
    OBVIOUS
  <2> QED BY <1>1, <1>2, <1>12, <2>1, ReachedAt
<1>4. SourceIsAtZero'
  BY <1>1, <1>3 DEF SourceIsAtZero
<1>5. NoneBeyondInf'
  BY <1>0, <1>1, <1>3 DEF NoneBeyondInf
<1>6. DistancesAreAttained'
  <2>1. ASSUME NEW t \in Slots(cmp)
        PROVE  Attains(cmp, s, t, distances'[t].dist)
    <3>1. Attains(cmp, s, s, 0) /\ Attains(cmp, s, t, Inf)
      BY <1>12, AttainsStarts
    <3>2. t \in cmp.ngs[s] => Attains(cmp, s, t, 0)
      <4>1. 0 \in Nat
        OBVIOUS
      <4> QED BY <1>12, <3>1, <4>1, AttainsFollows
    <3> QED BY <1>3, <3>1, <3>2
  <2> QED BY <1>1, <2>1 DEF DistancesAreAttained
<1>7. SettledUnlessQueued'
  <2>1. ASSUME NEW t \in Slots(cmp), distances'[t].dist < Inf
        PROVE  Dist(t, distances'[t].dist) \in q'
               \/ distances'[Opp(t)].dist <= distances'[t].dist + cmp.weight[t[1]]
    <3>1. t = s \/ t \in cmp.ngs[s]
      BY <1>0, <1>3, <2>1
    <3>2. distances'[t].dist = 0
      BY <1>3, <3>1
    <3>3. CASE t = s
      BY <1>1, <3>2, <3>3
    <3>4. CASE t \in cmp.ngs[s]
      <4>1. Dist(t, 0) \in QueuedAt(s, 0) \/ Opp(t) = s
        BY <1>12, <3>4, QueuedOrLoop
      <4>2. cmp.weight[t[1]] \in Nat
        BY <1>12, WeightsAreNat
      <4>3. distances'[s].dist = 0
        BY <1>3
      <4> QED BY <1>1, <3>2, <4>1, <4>2, <4>3
    <3> QED BY <3>1, <3>3, <3>4
  <2> QED BY <1>12, <2>1 DEF SettledUnlessQueued, AlongIsSettled, is_finite
<1>8. ReachedFromPrevious'
  <2>1. ASSUME NEW t \in Slots(cmp), distances'[t].dist < Inf, t # s
        PROVE  distances'[t].prev = s /\ t \in cmp.ngs[s]
    BY <1>0, <1>3, <2>1
  <2>2. distances'[s].dist < Inf
    BY <1>0, <1>3
  <2> QED BY <1>1, <1>12, <2>1, <2>2 DEF ReachedFromPrevious, IsFromPrevious, is_finite
<1>9. ReachedAreConnected'
  <2>1. ASSUME NEW S \in SUBSET Slots(cmp), s \in S,
               \A t \in S : cmp.ngs[t] \subseteq S /\ Opp(t) \in S,
               NEW t \in Slots(cmp), distances'[t].dist < Inf
        PROVE  t \in S
    <3>1. t = s \/ t \in cmp.ngs[s]
      BY <1>0, <1>3, <2>1
    <3> QED BY <2>1, <3>1
  <2> QED BY <1>1, <1>12, <2>1 DEF ReachedAreConnected, IsClosed, is_finite
<1>10. WalksAreTight'
  <2>1. path' = <<>> /\ pc' = "searching"
    BY <1>1
  <2> QED BY <2>1 DEF WalksAreTight
<1>11. pc' = "searching"
  BY <1>1
<1> QED BY <1>4, <1>5, <1>6, <1>7, <1>8, <1>9, <1>10, <1>11 DEF SearchInv

LEMMA UpdateKeepsSearchInv ==
  ASSUME PathsInv, SearchInv, pc = "searching", NEW ud \in q, update(ud, Opp(ud.prev)),
         UNCHANGED <<cmp, source, path, pc>>
  PROVE  SearchInv'
<1>1. PICK u \in Slots(cmp) : u = ud.prev
  BY DEF PathsInv, TypeOK
<1>2. PICK v \in Slots(cmp) : v = Opp(u)
  <2>1. Opp(u) \in Slots(cmp)
    BY OppSlots DEF PathsInv, TypeOK
  <2> QED BY <2>1
<1>3. cmp \in Networks /\ ud.dist \in Nat /\ distances[u].dist <= ud.dist
  BY <1>1 DEF PathsInv, TypeOK, QueueIsNotAhead
<1>4. cmp' = cmp /\ source' = source /\ path' = path /\ pc' = pc /\ source \in Slots(cmp)
      /\ Slots(cmp') = Slots(cmp) /\ cmp'.ngs = cmp.ngs /\ cmp'.weight = cmp.weight
  BY DEF PathsInv, TypeOK
<1>5. \A t \in Slots(cmp) : distances[t].dist \in Nat
  BY DEF PathsInv, TypeOK
<1>6. Inf \in Nat /\ 0 < Inf
  BY InfAssumption
<1>7. Opp(v) = u /\ v[1] = u[1] /\ u # v
  BY <1>2, <1>3, OppOfOpp
<1>8. PICK w \in Nat : w = cmp.weight[v[1]] /\ w = cmp.weight[u[1]]
  BY <1>3, <1>7, WeightsAreNat
<1>9. PICK d \in Nat : d = ud.dist + w
  BY <1>3
<1>10. /\ SourceIsAtZero /\ NoneBeyondInf /\ DistancesAreAttained /\ SettledUnlessQueued
       /\ ReachedFromPrevious /\ ReachedAreConnected /\ WalksAreTight /\ path = <<>>
  BY DEF SearchInv, Measured, WalksAreTight
<1>11. WalksAreTight'
  <2>1. path' = <<>> /\ pc' = "searching"
    BY <1>4, <1>10
  <2> QED BY <2>1 DEF WalksAreTight
<1>13. CASE ~(d < distances[v].dist)
  <2>1. q' = q \ {ud} /\ distances' = distances
    BY <1>1, <1>2, <1>8, <1>9, <1>13 DEF update
  <2>2. SettledUnlessQueued'
    <3>1. ASSUME NEW t \in Slots(cmp), is_finite(t)
          PROVE  Dist(t, distances[t].dist) \in q' \/ AlongIsSettled(t)
      <4>1. CASE Dist(t, distances[t].dist) = ud
        <5>1. t = u /\ distances[t].dist = ud.dist
          BY <1>1, <4>1 DEF Dist
        <5>2. distances[v].dist <= ud.dist + w
          BY <1>3, <1>5, <1>9, <1>13
        <5> QED BY <1>2, <1>8, <5>1, <5>2 DEF AlongIsSettled
      <4>2. CASE Dist(t, distances[t].dist) # ud
        BY <1>10, <2>1, <3>1, <4>2 DEF SettledUnlessQueued
      <4> QED BY <4>1, <4>2
    <3> QED BY <1>4, <2>1, <3>1 DEF SettledUnlessQueued, AlongIsSettled, is_finite
  <2>3. /\ SourceIsAtZero' /\ NoneBeyondInf' /\ DistancesAreAttained'
        /\ ReachedFromPrevious' /\ ReachedAreConnected'
    BY <1>4, <1>10, <2>1
       DEF SourceIsAtZero, NoneBeyondInf, DistancesAreAttained, ReachedFromPrevious,
           IsFromPrevious, ReachedAreConnected, IsClosed, is_finite
  <2> QED BY <1>4, <1>11, <2>2, <2>3 DEF SearchInv
<1>14. CASE d < distances[v].dist
  <2>1. distances' = Reached(distances, v, u, d) /\ q' = (q \ {ud}) \cup {Dist(u, d)} \cup QueuedAt(v, d)
    BY <1>1, <1>2, <1>8, <1>9, <1>14 DEF update
  <2>2. ASSUME NEW t \in Slots(cmp)
        PROVE  /\ t = v => distances'[t].dist = d /\ distances'[t].prev = u
               /\ t # v /\ t \in cmp.ngs[v] => distances'[t].dist = d /\ distances'[t].prev = v
               /\ t # v /\ t \notin cmp.ngs[v] => distances'[t] = distances[t]
               /\ t \in cmp.ngs[v] => distances[t].dist = distances[v].dist
    <3>1. /\ t = v => distances'[t].dist = d /\ distances'[t].prev = u
          /\ t # v /\ t \in cmp.ngs[v] => distances'[t].dist = d /\ distances'[t].prev = v
          /\ t # v /\ t \notin cmp.ngs[v] => distances'[t] = distances[t]
      BY <1>3, <2>1, ReachedAt
    <3>2. t \in cmp.ngs[v] => distances[t].dist = distances[v].dist
      BY DEF PathsInv, JunctionsAgree
    <3> QED BY <3>1, <3>2
  <2>3. d < Inf /\ distances[u].dist <= d /\ distances[u].dist + w <= d /\ distances[u].dist < Inf
    BY <1>3, <1>5, <1>6, <1>9, <1>10, <1>14 DEF NoneBeyondInf
  <2>4. \A t \in Slots(cmp) : distances'[t].dist \in Nat /\ distances'[t].dist <= distances[t].dist
    BY <1>5, <1>14, <2>2
  <2>5. u \notin cmp.ngs[v] /\ u # v /\ distances'[u] = distances[u]
    BY <1>5, <1>7, <1>14, <2>2, <2>3
  <2>6. source \notin cmp.ngs[v] /\ source # v /\ distances'[source] = distances[source]
    BY <1>4, <1>5, <1>10, <1>14, <2>2 DEF SourceIsAtZero
  <2>7. SourceIsAtZero' /\ NoneBeyondInf'
    BY <1>4, <1>5, <1>6, <1>10, <2>4, <2>6 DEF SourceIsAtZero, NoneBeyondInf
  <2>8. DistancesAreAttained'
    <3>1. ASSUME NEW t \in Slots(cmp)
          PROVE  Attains(cmp, source, t, distances'[t].dist)
      <4>1. Attains(cmp, source, t, distances[t].dist) /\ Attains(cmp, source, u, distances[u].dist)
        BY <1>10 DEF DistancesAreAttained
      <4>2. Attains(cmp, source, u, ud.dist)
        BY <1>3, <1>4, <1>5, <4>1, AttainsFollows
      <4>3. Attains(cmp, source, v, d)
        BY <1>2, <1>3, <1>4, <1>8, <1>9, <4>2, AttainsFollows
      <4>4. t \in cmp.ngs[v] => Attains(cmp, source, t, d)
        BY <1>3, <1>4, <4>3, AttainsFollows
      <4> QED BY <2>2, <4>1, <4>3, <4>4
    <3> QED BY <1>4, <3>1 DEF DistancesAreAttained
  <2>9. SettledUnlessQueued'
    <3>1. ASSUME NEW t \in Slots(cmp), distances'[t].dist < Inf
          PROVE  \/ Dist(t, distances'[t].dist) \in q'
                 \/ distances'[Opp(t)].dist <= distances'[t].dist + cmp.weight[t[1]]
      <4>0. Opp(t) \in Slots(cmp) /\ cmp.weight[t[1]] \in Nat
        BY <1>3, OppSlots, WeightsAreNat
      <4>1. CASE t = v
        <5>1. Opp(t) = u /\ distances'[t].dist = d /\ distances'[u].dist <= d
          BY <1>7, <2>2, <2>3, <2>5, <4>1
        <5> QED BY <2>4, <4>0, <5>1
      <4>2. CASE t # v /\ t \in cmp.ngs[v]
        <5>1. Dist(t, d) \in QueuedAt(v, d) \/ Opp(t) = v
          BY <1>3, <4>2, QueuedOrLoop
        <5>2. distances'[t].dist = d /\ distances'[v].dist = d
          BY <2>2, <4>2
        <5> QED BY <2>1, <4>0, <5>1, <5>2
      <4>3. CASE t # v /\ t \notin cmp.ngs[v]
        <5>1. distances'[t] = distances[t] /\ is_finite(t)
          BY <2>2, <3>1, <4>3 DEF is_finite
        <5>2. CASE Dist(t, distances[t].dist) = ud
          <6>1. t = u /\ distances[t].dist = ud.dist
            BY <1>1, <5>2 DEF Dist
          <6>2. distances'[v].dist = d
            BY <2>2
          <6> QED BY <1>2, <1>8, <1>9, <5>1, <6>1, <6>2
        <5>3. CASE Dist(t, distances[t].dist) \in q /\ Dist(t, distances[t].dist) # ud
          BY <2>1, <5>1, <5>3
        <5>4. CASE AlongIsSettled(t)
          <6>1. distances[Opp(t)].dist <= distances[t].dist + cmp.weight[t[1]]
            BY <5>4 DEF AlongIsSettled
          <6> QED BY <1>5, <2>4, <4>0, <5>1, <6>1
        <5> QED BY <1>10, <5>1, <5>2, <5>3, <5>4 DEF SettledUnlessQueued
      <4> QED BY <4>1, <4>2, <4>3
    <3> QED BY <1>4, <3>1 DEF SettledUnlessQueued, AlongIsSettled, is_finite
  <2>10. ReachedFromPrevious'
    <3>1. ASSUME NEW t \in Slots(cmp), distances'[t].dist < Inf, t # source
          PROVE  /\ distances'[t].prev \in Slots(cmp)
                 /\ distances'[distances'[t].prev].dist < Inf
                 /\ \/ t \in cmp.ngs[distances'[t].prev]
                    \/ /\ distances'[t].prev = Opp(t)
                       /\ distances'[distances'[t].prev].dist + cmp.weight[t[1]] <= distances'[t].dist
      <4>1. CASE t = v
        <5>1. distances'[t].prev = u /\ distances'[t].dist = d /\ distances'[u].dist = distances[u].dist
          BY <2>2, <2>5, <4>1
        <5> QED BY <1>7, <1>8, <2>3, <4>1, <5>1
      <4>2. CASE t # v /\ t \in cmp.ngs[v]
        <5>1. distances'[t].prev = v /\ distances'[v].dist = d
          BY <2>2, <4>2
        <5> QED BY <2>3, <4>2, <5>1
      <4>3. CASE t # v /\ t \notin cmp.ngs[v]
        <5>1. distances'[t] = distances[t] /\ is_finite(t)
          BY <2>2, <3>1, <4>3 DEF is_finite
        <5>2. PICK p \in Slots(cmp) : p = distances[t].prev
          BY <1>10, <3>1, <5>1 DEF ReachedFromPrevious, IsFromPrevious
        <5>3. /\ distances[p].dist < Inf
              /\ \/ t \in cmp.ngs[p]
                 \/ p = Opp(t) /\ distances[p].dist + cmp.weight[t[1]] <= distances[t].dist
          BY <1>10, <3>1, <5>1, <5>2 DEF ReachedFromPrevious, IsFromPrevious, is_finite
        <5>4. distances'[p].dist <= distances[p].dist /\ distances'[p].dist \in Nat
              /\ distances[p].dist \in Nat /\ distances[t].dist \in Nat /\ cmp.weight[t[1]] \in Nat
          BY <1>3, <1>5, <2>4, WeightsAreNat
        <5>5. distances'[p].dist < Inf
          BY <1>6, <5>3, <5>4
        <5>6. distances[p].dist + cmp.weight[t[1]] <= distances[t].dist
                => distances'[p].dist + cmp.weight[t[1]] <= distances[t].dist
          BY <5>4
        <5> QED BY <5>1, <5>2, <5>3, <5>5, <5>6
      <4> QED BY <4>1, <4>2, <4>3
    <3> QED BY <1>4, <3>1 DEF ReachedFromPrevious, IsFromPrevious, is_finite
  <2>11. ReachedAreConnected'
    <3>1. ASSUME NEW S \in SUBSET Slots(cmp), source \in S,
                 \A t \in S : cmp.ngs[t] \subseteq S /\ Opp(t) \in S,
                 NEW t \in Slots(cmp), distances'[t].dist < Inf
          PROVE  t \in S
      <4>1. \A x \in Slots(cmp) : distances[x].dist < Inf => x \in S
        BY <1>10, <3>1 DEF ReachedAreConnected, IsClosed, is_finite
      <4>2. u \in S
        BY <2>3, <4>1
      <4>3. v \in S
        BY <1>2, <3>1, <4>2
      <4> QED BY <2>2, <3>1, <4>1, <4>3
    <3> QED BY <1>4, <3>1 DEF ReachedAreConnected, IsClosed, is_finite
  <2>12. pc' = "searching"
    BY <1>4
  <2> QED BY <1>11, <2>7, <2>8, <2>9, <2>10, <2>11, <2>12 DEF SearchInv
<1> QED BY <1>13, <1>14

\* What is known of the distances stays when only the path and the position in the
\* program change.
LEMMA DistancesAsBefore ==
  ASSUME SearchInv, Measured, UNCHANGED <<cmp, source, distances, q>>,
         WalksAreTight', pc' # "searching" => q = {}
  PROVE  SearchInv'
<1>1. /\ SourceIsAtZero /\ NoneBeyondInf /\ DistancesAreAttained /\ SettledUnlessQueued
      /\ ReachedFromPrevious /\ ReachedAreConnected
  BY DEF SearchInv
<1>2. cmp' = cmp /\ source' = source /\ distances' = distances /\ q' = q
  OBVIOUS
<1>3. /\ SourceIsAtZero' /\ NoneBeyondInf' /\ DistancesAreAttained' /\ SettledUnlessQueued'
      /\ ReachedFromPrevious' /\ ReachedAreConnected'
  BY <1>1, <1>2
     DEF SourceIsAtZero, NoneBeyondInf, DistancesAreAttained, SettledUnlessQueued, AlongIsSettled,
         ReachedFromPrevious, IsFromPrevious, ReachedAreConnected, IsClosed, is_finite
<1> QED BY <1>2, <1>3 DEF SearchInv

LEMMA FindKeepsSearchInv ==
  ASSUME PathsInv, SearchInv, NEW s \in Slots(cmp), FindShortestPath(s)
  PROVE  SearchInv'
<1>1. Measured /\ UNCHANGED <<cmp, source, distances, q>> /\ q = {}
  BY DEF FindShortestPath, Measured, SearchInv
<1>2. distances' = distances
  BY <1>1
<1>3. WalksAreTight'
  <2>1. CASE is_finite(s)
    <3>1. path' = <<s>> /\ pc' = "walking"
      BY <2>1 DEF FindShortestPath
    <3>2. Len(path') = 1 /\ path'[1] = s /\ path' # <<>>
      BY <3>1
    <3>3. \A k \in 1..Len(path') : path'[k] = s
      BY <3>2
    <3>4. 1..Len(path') - 1 = {}
      BY <3>2
    <3>5. distances'[s].dist < Inf
      BY <1>2, <2>1 DEF is_finite
    <3> HIDE <3>2
    <3> QED BY <3>1, <3>2, <3>3, <3>4, <3>5 DEF WalksAreTight, is_finite
  <2>2. CASE ~is_finite(s)
    <3>1. path' = <<>> /\ pc' = "computed"
      BY <2>2 DEF FindShortestPath
    <3> QED BY <3>1 DEF WalksAreTight
  <2> QED BY <2>1, <2>2
<1> QED BY <1>1, <1>3, DistancesAsBefore

LEMMA WalkBackKeepsSearchInv ==
  ASSUME PathsInv, SearchInv, WalkBack
  PROVE  SearchInv'
<1>1. Measured /\ UNCHANGED <<cmp, source, distances, q>> /\ q = {} /\ pc' = "walking" /\ pc = "walking"
  BY DEF WalkBack, Measured, SearchInv
<1>2. PICK h \in Slots(cmp) : h = Head(path)
  BY WalkGoesToEnd
<1>3. is_finite(h) /\ IsFromPrevious(h) /\ path \in Seq(Slots(cmp)) /\ path # <<>>
  BY <1>2, WalkGoesToEnd
<1>4. PICK p \in Slots(cmp) : p = distances[h].prev
  BY <1>3 DEF IsFromPrevious
<1>5. is_finite(p)
  BY <1>3, <1>4 DEF IsFromPrevious
<1>6. cmp \in Networks /\ \A t \in Slots(cmp) : distances[t].dist \in Nat
  BY DEF PathsInv, TypeOK
<1>7. IsStep(p, h)
  <2>1. CASE h \in cmp.ngs[p]
    BY <2>1 DEF IsStep
  <2>2. CASE p = Opp(h) /\ distances[p].dist + cmp.weight[h[1]] <= distances[h].dist
    <3>1. Opp(p) = h /\ h[1] = p[1] /\ cmp.weight[h[1]] \in Nat
      BY <1>6, <2>2, OppOfOpp, WeightsAreNat
    <3>2. AlongIsSettled(p)
      BY <1>1, <1>5 DEF SearchInv, SettledUnlessQueued
    <3>3. distances[h].dist <= distances[p].dist + cmp.weight[h[1]]
      BY <3>1, <3>2 DEF AlongIsSettled
    <3>4. distances[h].dist = distances[p].dist + cmp.weight[h[1]]
      BY <1>6, <2>2, <3>1, <3>3
    <3> QED BY <3>1, <3>4 DEF IsStep
  <2> QED BY <1>3, <1>4, <2>1, <2>2 DEF IsFromPrevious
<1>8. path' = <<p>> \o path
  BY <1>2, <1>4 DEF WalkBack
<1>9. /\ Len(path) \in Nat /\ Len(path) >= 1 /\ path[1] = h
      /\ Len(path') = Len(path) + 1 /\ path'[1] = p
      /\ \A k \in 1..Len(path) : path'[k + 1] = path[k]
      /\ path' # <<>>
  BY <1>2, <1>3, <1>8
<1>10. /\ \A k \in 1..Len(path) : is_finite(path[k])
       /\ \A k \in 1..Len(path) - 1 : IsStep(path[k], path[k + 1])
  BY <1>1 DEF SearchInv, WalksAreTight
<1>11. ASSUME NEW k \in 1..Len(path') PROVE is_finite(path'[k])
  <2>1. CASE k = 1
    BY <1>5, <1>9, <2>1
  <2>2. CASE k # 1
    <3>1. k - 1 \in 1..Len(path) /\ (k - 1) + 1 = k
      BY <1>9, <2>2
    <3> QED BY <1>9, <1>10, <3>1
  <2> QED BY <2>1, <2>2
<1>12. ASSUME NEW k \in 1..Len(path') - 1 PROVE IsStep(path'[k], path'[k + 1])
  <2>1. CASE k = 1
    <3>1. path'[1 + 1] = path[1]
      BY <1>9
    <3> QED BY <1>7, <1>9, <2>1, <3>1
  <2>2. CASE k # 1
    <3>1. k - 1 \in 1..Len(path) - 1 /\ (k - 1) + 1 = k /\ k - 1 \in 1..Len(path) /\ k \in 1..Len(path)
      BY <1>9, <2>2
    <3>2. path'[k] = path[k - 1] /\ path'[k + 1] = path[k]
      BY <1>9, <3>1
    <3> QED BY <1>10, <3>1, <3>2
  <2> QED BY <2>1, <2>2
<1>13. WalksAreTight'
  <2>1. \A x : is_finite(x) => is_finite(x)'
    BY <1>1 DEF is_finite
  <2>2. \A x, y : IsStep(x, y) => IsStep(x, y)'
    BY <1>1 DEF IsStep
  <2> QED BY <1>1, <1>9, <1>11, <1>12, <2>1, <2>2 DEF WalksAreTight, is_finite, IsStep
<1> QED BY <1>1, <1>13, DistancesAsBefore

LEMMA SearchInvAtStep == PathsInv /\ SearchInv /\ [Next]_vars => SearchInv'
<1> SUFFICES ASSUME PathsInv, SearchInv, [Next]_vars PROVE SearchInv'
  OBVIOUS
<1>1. ASSUME Search PROVE SearchInv'
  BY <1>1, SearchKeepsSearchInv DEF Search
<1>2. ASSUME SameChain PROVE SearchInv'
  BY <1>2 DEF SameChain, ConnectedAlongChain, SearchInv, Measured
<1>3. ASSUME GoOn PROVE SearchInv'
  BY <1>3, UpdateKeepsSearchInv DEF GoOn
<1>4. ASSUME EndSearch PROVE SearchInv'
  <2>1. Measured /\ UNCHANGED <<cmp, source, distances, q>> /\ q = {} /\ path' = path
        /\ pc = "searching" /\ pc' = "computed"
    BY <1>4 DEF EndSearch, Measured
  <2>2. path' = <<>>
    BY <2>1 DEF SearchInv, WalksAreTight
  <2>3. WalksAreTight'
    BY <2>1, <2>2 DEF WalksAreTight
  <2> QED BY <2>1, <2>3, DistancesAsBefore
<1>5. ASSUME Find PROVE SearchInv'
  BY <1>5, FindKeepsSearchInv DEF Find
<1>6. ASSUME WalkBack PROVE SearchInv'
  BY <1>6, WalkBackKeepsSearchInv
<1>7. ASSUME EndWalk PROVE SearchInv'
  <2>1. Measured /\ UNCHANGED <<cmp, source, distances, q>> /\ q = {} /\ path' = path
        /\ pc = "walking" /\ pc' = "computed" /\ Head(path) = source
    BY <1>7 DEF EndWalk, Measured, SearchInv
  <2>2. WalksAreTight'
    BY <2>1 DEF SearchInv, Measured, WalksAreTight, is_finite, IsStep
  <2> QED BY <2>1, <2>2, DistancesAsBefore
<1>8. ASSUME UNCHANGED vars PROVE SearchInv'
  <2>1. UNCHANGED <<cmp, source, distances, q>> /\ path' = path /\ pc' = pc
    BY <1>8 DEF vars
  <2>2. CASE Measured
    <3>1. WalksAreTight /\ (pc # "searching" => q = {})
      BY <2>2 DEF SearchInv
    <3>2. WalksAreTight'
      BY <2>1, <3>1 DEF WalksAreTight, is_finite, IsStep
    <3> QED BY <2>1, <2>2, <3>1, <3>2, DistancesAsBefore
  <2>3. CASE ~Measured
    BY <2>1, <2>3 DEF SearchInv, Measured
  <2> QED BY <2>2, <2>3
<1> QED BY <1>1, <1>2, <1>3, <1>4, <1>5, <1>6, <1>7, <1>8 DEF Next

LEMMA PathsInvAlways == Spec => [](PathsInv /\ SearchInv)
<1>1. Init => PathsInv /\ SearchInv
  BY PathsInvAtInit DEF Init, SearchInv, Measured
<1>2. PathsInv /\ SearchInv /\ [Next]_vars => PathsInv' /\ SearchInv'
  BY PathsInvAtStep, SearchInvAtStep
<1> QED BY <1>1, <1>2, PTL DEF Spec

\* In every component, whatever is searched for, the ends at a junction are at one
\* distance after every step: the unchecked overwriting in update is right.
THEOREM EndSlotPathsJunctionsAgree == Spec => []JunctionsAgree
<1>1. PathsInv => JunctionsAgree
  BY DEF PathsInv
<1> QED BY <1>1, PathsInvAlways, PTL

\* No entry of the queue promises less than is known of its end.
THEOREM EndSlotPathsQueueIsNotAhead == Spec => []QueueIsNotAhead
<1>1. PathsInv => QueueIsNotAhead
  BY DEF PathsInv
<1> QED BY <1>1, PathsInvAlways, PTL

\* Whatever the network: the fields of the search object keep their types (generic.h).
THEOREM EndSlotPathsTypeOK == Spec => []TypeOK
<1>1. PathsInv => TypeOK
  BY DEF PathsInv
<1> QED BY <1>1, PathsInvAlways, PTL

-----------------------------------------------------------------------------
(* When a search is over *)

\* Nothing is left to gain: the distances are those of the definition.
LEMMA SearchedIsShortest ==
  ASSUME PathsInv, SearchInv, pc = "computed"
  PROVE  \A s \in Slots(cmp) : Shortest(Ways(cmp), source, Inf)[s] = distances[s].dist
<1> DEFINE D == [s \in Slots(cmp) |-> distances[s].dist]
<1>1. /\ SourceIsAtZero /\ NoneBeyondInf /\ DistancesAreAttained /\ SettledUnlessQueued /\ q = {}
      /\ cmp \in Networks /\ source \in Slots(cmp) /\ JunctionsAgree
      /\ \A s \in Slots(cmp) : distances[s].dist \in Nat
  BY DEF SearchInv, Measured, PathsInv, TypeOK
<1>2. Inf \in Nat /\ AreWays(Ways(cmp), Slots(cmp))
  BY <1>1, InfAssumption, WaysAreWays
<1>3. \A s \in Slots(cmp) : D[s] = distances[s].dist
  OBVIOUS
<1>4. AreDistances(D, Slots(cmp))
  BY <1>1 DEF AreDistances
<1> HIDE DEF D
<1>5. ASSUME NEW s \in Slots(cmp), NEW w \in Ways(cmp)[s]
      PROVE  D[s] <= D[w[1]] + w[2]
  <2>1. \/ w[1] \in cmp.ngs[s] /\ w[2] = 0
        \/ w[1] = Opp(s) /\ w[2] = cmp.weight[s[1]]
    BY <1>1, WaysOfEnd
  <2>2. CASE w[1] \in cmp.ngs[s] /\ w[2] = 0
    <3>1. w[1] \in Slots(cmp) /\ distances[w[1]].dist = distances[s].dist
      BY <1>1, <2>2, NeighboursAreSlots DEF JunctionsAgree
    <3> QED BY <1>1, <1>3, <2>2, <3>1
  <2>3. CASE w[1] = Opp(s) /\ w[2] = cmp.weight[s[1]]
    <3>1. Opp(s) \in Slots(cmp) /\ Opp(Opp(s)) = s /\ Opp(s)[1] = s[1] /\ cmp.weight[s[1]] \in Nat
      BY <1>1, OppSlots, OppOfOpp, WeightsAreNat
    <3>2. is_finite(Opp(s)) => distances[s].dist <= distances[Opp(s)].dist + cmp.weight[s[1]]
      BY <1>1, <3>1 DEF SettledUnlessQueued, AlongIsSettled
    <3>3. ~is_finite(Opp(s)) => distances[s].dist <= distances[Opp(s)].dist
      BY <1>1, <1>2, <3>1 DEF NoneBeyondInf, is_finite
    <3>4. distances[s].dist <= distances[Opp(s)].dist + cmp.weight[s[1]]
      BY <1>1, <3>1, <3>2, <3>3
    <3> QED BY <1>3, <2>3, <3>1, <3>4
  <2> QED BY <2>1, <2>2, <2>3
<1>6. IsSolution(D, Ways(cmp), Slots(cmp), source)
  BY <1>1, <1>3, <1>4, <1>5 DEF IsSolution, SourceIsAtZero
<1>7. \A s \in Slots(cmp) : D[s] <= Inf
  BY <1>1, <1>3 DEF NoneBeyondInf
<1>8. IsAttained(D, Rounds(Ways(cmp), source, Inf), Slots(cmp))
  BY <1>1, <1>3 DEF IsAttained, DistancesAreAttained, Attains
<1>9. \A s \in Slots(cmp) : Shortest(Ways(cmp), source, Inf)[s] = D[s]
  BY <1>1, <1>2, <1>6, <1>7, <1>8, SolutionIsShortest
<1> QED BY <1>3, <1>9

LEMMA SearchedPathIsShortest ==
  ASSUME PathsInv, SearchInv
  PROVE  PathIsShortest
<1> SUFFICES ASSUME pc = "computed" PROVE PathIsShortest
  BY DEF PathIsShortest
<1>1. PICK D : D = Shortest(Ways(cmp), source, Inf)
  OBVIOUS
<1>2. \A s \in Slots(cmp) : distances[s].dist = D[s]
  BY <1>1, SearchedIsShortest
<1>3. WalksAreTight /\ path \in Seq(Slots(cmp)) /\ cmp \in Networks /\ JunctionsAgree
  BY DEF SearchInv, Measured, PathsInv, TypeOK
<1>4. ASSUME path # <<>> PROVE PathIsAsLong(D)
  <2>1. Head(path) = source
    BY <1>3, <1>4 DEF WalksAreTight
  <2>2. ASSUME NEW k \in 1..Len(path) - 1
        PROVE  \/ path[k + 1] \in cmp.ngs[path[k]] /\ D[path[k + 1]] = D[path[k]]
               \/ /\ path[k + 1] = Opp(path[k])
                  /\ D[path[k + 1]] = D[path[k]] + cmp.weight[path[k + 1][1]]
    <3>1. path[k] \in Slots(cmp) /\ path[k + 1] \in Slots(cmp)
      <4>1. k \in 1..Len(path) /\ k + 1 \in 1..Len(path)
        BY <1>3
      <4> QED BY <1>3, <4>1
    <3>2. IsStep(path[k], path[k + 1])
      BY <1>3 DEF WalksAreTight
    <3>3. CASE path[k + 1] \in cmp.ngs[path[k]]
      BY <1>2, <1>3, <3>1, <3>3 DEF JunctionsAgree
    <3>4. CASE /\ path[k + 1] = Opp(path[k])
               /\ distances[path[k + 1]].dist = distances[path[k]].dist + cmp.weight[path[k + 1][1]]
      BY <1>2, <3>1, <3>4
    <3> QED BY <3>2, <3>3, <3>4 DEF IsStep
  <2> QED BY <2>1, <2>2 DEF PathIsAsLong
<1> QED BY <1>1, <1>2, <1>4 DEF PathIsShortest

\* No shortest way of n steps costs more than n of the heaviest chains.
LEMMA RoundsAreBounded ==
  ASSUME NEW c \in Networks, NEW s0 \in Slots(c), NEW R, R = Rounds(Ways(c), s0, Inf),
         NEW m \in Nat, IsBelowInf(c, m)
  PROVE  \A n \in Nat : \A s \in Slots(c) : R[n][s] < Inf => R[n][s] <= n * m
<1>1. /\ \A s \in Slots(c) : R[0][s] = IF s = s0 THEN 0 ELSE Inf
      /\ \A n \in Nat : \A s \in Slots(c) : R[n][s] \in Nat /\ IsComeBy(c, R, n, s)
  <2>1. R = Rounds(Ways(c), s0, Inf)
    OBVIOUS
  <2>2. \A s \in Slots(c) : R[0][s] = IF s = s0 THEN 0 ELSE Inf
    BY <2>1, RoundsOfNetwork
  <2>3. \A n \in Nat : \A s \in Slots(c) : R[n][s] \in Nat
    BY <2>1, RoundsOfNetwork
  <2>4. \A n \in Nat : \A s \in Slots(c) : IsComeBy(c, R, n, s)
    BY <2>1, RoundsOfNetwork
  <2> QED BY <2>2, <2>3, <2>4
<1> DEFINE P == {n \in Nat : \A s \in Slots(c) : R[n][s] < Inf => R[n][s] <= n * m}
<1>2. 0 \in P
  <2>1. 0 * m = 0 /\ Inf \in Nat
    BY InfAssumption
  <2> QED BY <1>1, <2>1
<1>3. ASSUME NEW n \in Nat, n \in P PROVE n + 1 \in P
  <2> SUFFICES ASSUME NEW s \in Slots(c), R[n + 1][s] < Inf PROVE R[n + 1][s] <= (n + 1) * m
    OBVIOUS
  <2>1. PICK k \in Nat : k = n * m
    OBVIOUS
  <2>2. (n + 1) * m = k + m
    BY <2>1
  <2>3. \A t \in Slots(c) : R[n][t] \in Nat /\ (R[n][t] < Inf => R[n][t] <= k)
    BY <1>1, <1>3, <2>1
  <2>4. c.weight[s[1]] \in Nat /\ c.weight[s[1]] <= m /\ Opp(s) \in Slots(c)
        /\ c.ngs[s] \subseteq Slots(c) /\ Inf \in Nat
    BY InfAssumption, WeightsAreNat, OppSlots, NeighboursAreSlots DEF IsBelowInf, Slots
  <2>5. \/ R[n + 1][s] = R[n][s]
        \/ \E t \in c.ngs[s] : R[n + 1][s] = R[n][t]
        \/ R[n + 1][s] = R[n][Opp(s)] + c.weight[s[1]]
    BY <1>1 DEF IsComeBy
  <2>6. R[n + 1][s] <= k + m
    <3>1. CASE \E t \in Slots(c) : R[n + 1][s] = R[n][t]
      BY <2>3, <3>1
    <3>2. CASE R[n + 1][s] = R[n][Opp(s)] + c.weight[s[1]]
      BY <2>3, <2>4, <3>2
    <3> QED BY <2>4, <2>5, <3>1, <3>2
  <2> QED BY <2>2, <2>6
<1> HIDE DEF P
<1>4. \A n \in Nat : n \in P
  BY <1>2, <1>3, NaturalsBySuccessor
<1> QED BY <1>4 DEF P

\* The ends reached are closed: the other end of a chain reached is within reach.
LEMMA ReachedIsClosed ==
  ASSUME PathsInv, SearchInv, pc = "computed"
  PROVE  IsClosed({s \in Slots(cmp) : is_finite(s)})
<1>1. /\ NoneBeyondInf /\ SettledUnlessQueued /\ q = {}
      /\ cmp \in Networks /\ source \in Slots(cmp) /\ JunctionsAgree
      /\ \A s \in Slots(cmp) : distances[s].dist \in Nat
  BY DEF SearchInv, Measured, PathsInv, TypeOK
<1>2. PICK m \in 0..Inf : IsBelowInf(cmp, m)
  BY <1>1, WeightsAssumption
<1>3. m \in Nat /\ Inf \in Nat
  BY InfAssumption
<1>4. PICK N \in Nat : N = Cardinality(Slots(cmp)) /\ DOMAIN Ways(cmp) = Slots(cmp)
  BY <1>1, SlotsAreFinite DEF Ways
<1>5. PICK R : R = Rounds(Ways(cmp), source, Inf)
  OBVIOUS
<1>6. PICK k \in Nat : k = N * m /\ k + m < Inf
  <2>1. (N + 1) * m < Inf
    BY <1>2, <1>4 DEF IsBelowInf
  <2>2. N * m \in Nat /\ (N + 1) * m = N * m + m
    BY <1>3
  <2> QED BY <2>1, <2>2
<1>7. \A s \in Slots(cmp) : distances[s].dist = R[N][s]
  BY <1>4, <1>5, SearchedIsShortest DEF Shortest
<1>8. \A s \in Slots(cmp) : is_finite(s) => distances[s].dist <= k
  <2>1. \A s \in Slots(cmp) : R[N][s] < Inf => R[N][s] <= N * m
    BY <1>1, <1>2, <1>3, <1>5, RoundsAreBounded
  <2> QED BY <1>6, <1>7, <2>1 DEF is_finite
<1>9. ASSUME NEW s \in Slots(cmp), is_finite(s) PROVE Opp(s) \in Slots(cmp) /\ is_finite(Opp(s))
  <2>1. distances[Opp(s)].dist <= distances[s].dist + cmp.weight[s[1]]
    BY <1>1, <1>9 DEF SettledUnlessQueued, AlongIsSettled
  <2>2. Opp(s) \in Slots(cmp) /\ cmp.weight[s[1]] \in Nat /\ cmp.weight[s[1]] <= m
    BY <1>1, <1>2, OppSlots, WeightsAreNat DEF IsBelowInf, Slots
  <2>3. distances[s].dist <= k
    BY <1>8, <1>9
  <2> QED BY <1>1, <1>3, <1>6, <2>1, <2>2, <2>3 DEF is_finite
<1>10. ASSUME NEW s \in Slots(cmp), is_finite(s), NEW t \in cmp.ngs[s]
       PROVE  t \in Slots(cmp) /\ is_finite(t)
  BY <1>1, <1>10, NeighboursAreSlots DEF JunctionsAgree, is_finite
<1> QED BY <1>9, <1>10 DEF IsClosed

LEMMA SearchedClasses ==
  ASSUME PathsInv, SearchInv
  PROVE  ClassesAreByReach
<1> SUFFICES ASSUME pc = "computed" PROVE ClassesAreByReach
  BY DEF ClassesAreByReach
<1> DEFINE F == {s \in Slots(cmp) : is_finite(s)}
           closed == {S \in SUBSET Slots(cmp) : source \in S /\ IsClosed(S)}
<1>1. cmp \in Networks /\ source \in Slots(cmp) /\ ReachedAreConnected /\ is_finite(source)
  BY InfAssumption DEF SearchInv, Measured, PathsInv, TypeOK, SourceIsAtZero, is_finite
<1>2. F \in closed
  BY <1>1, ReachedIsClosed
<1>3. \A S \in closed : F \subseteq S
  BY <1>1 DEF ReachedAreConnected
<1>4. \A w \in Chains(cmp) : <<w, "A">> \in Slots(cmp) /\ <<w, "B">> \in Slots(cmp)
                           /\ Opp(<<w, "A">>) = <<w, "B">> /\ Opp(<<w, "B">>) = <<w, "A">>
  BY DEF Slots, Ends, Opp
<1>5. \A s \in F : Opp(s) \in F
  BY <1>2 DEF IsClosed
<1>6. \A w \in Chains(cmp) : (\A S \in closed : <<w, "A">> \in S) <=> <<w, "A">> \in F
  <2> HIDE DEF F, closed
  <2> QED BY <1>2, <1>3
<1>7. \A w \in Chains(cmp) : w \in ReachableFrom(source) <=> is_finite(<<w, "A">>)
  <2>1. \A w \in Chains(cmp) : w \in ReachableFrom(source) <=> (\A S \in closed : <<w, "A">> \in S)
    BY DEF ReachableFrom
  <2>2. \A w \in Chains(cmp) : <<w, "A">> \in F <=> is_finite(<<w, "A">>)
    BY <1>4
  <2> HIDE DEF F, closed
  <2> QED BY <1>6, <2>1, <2>2
<1>8. Accessible = ReachableFrom(source)
  <2>1. ReachableFrom(source) \subseteq Chains(cmp)
    BY DEF ReachableFrom
  <2> QED BY <1>7, <2>1 DEF Accessible
<1>9. \A w \in Chains(cmp) : is_finite(<<w, "A">>) <=> is_finite(<<w, "B">>)
  <2>1. \A s \in Slots(cmp) : s \in F <=> is_finite(s)
    OBVIOUS
  <2> HIDE DEF F
  <2> QED BY <1>4, <1>5, <2>1
<1>10. ASSUME NEW t \in Slots(cmp)
       PROVE  AreConnected(t) <=> t[1] \in ReachableFrom(source)
  <2>1. \A s \in Slots(cmp) : s[1] \in Chains(cmp) /\ (s = <<s[1], "A">> \/ s = <<s[1], "B">>)
    BY DEF Slots, Ends
  <2>2. \A s \in Slots(cmp) : is_finite(s) <=> is_finite(<<s[1], "A">>)
    BY <1>9, <2>1
  <2>3. is_finite(t) <=> t[1] \in ReachableFrom(source)
    BY <1>7, <2>1, <2>2
  <2>4. source[1] \in ReachableFrom(source)
    BY <1>1, <1>7, <2>1, <2>2
  <2> QED BY <2>3, <2>4 DEF AreConnected
<1> QED BY <1>8, <1>9, <1>10 DEF ClassesAreByReach

\* A search over any network finds the shortest distances, and a path asked for after
\* it, walked back over the ends on record, is a shortest path (generic.h:231, 284).
THEOREM EndSlotPathsAreShortest == Spec => []PathIsShortest
<1>1. PathsInv /\ SearchInv => PathIsShortest
  BY SearchedPathIsShortest
<1> QED BY <1>1, PathsInvAlways, PTL

\* In every network whose weights are so small that the sum stays below Inf, the
\* chains are sorted into those that are connected with the source and the others:
\* what the splits divide a component by (generic.h:296).
THEOREM EndSlotPathsClassesAreByReach == Spec => []ClassesAreByReach
<1>1. PathsInv /\ SearchInv => ClassesAreByReach
  BY SearchedClasses
<1> QED BY <1>1, PathsInvAlways, PTL
=============================================================================
