---------------------------- MODULE EndSlotPaths ----------------------------
(***************************************************************************)
(* Shortest paths over the ends of chains, the search object of            *)
(* structure/paths/over_endslots/generic.h.  Going along a chain costs its *)
(* weight, going between ends that are neighbours costs nothing.  The      *)
(* splits ask it whether two ends are connected and move the chains it     *)
(* reports reachable to a component of their own.                          *)
(*                                                                         *)
(* A network is [ngs, weight]: the neighbours of each chain end <<w, e>>   *)
(* and the weight of each chain.                                           *)
(***************************************************************************)
EXTENDS Integers, Sequences, FiniteSets, DistanceRounds

CONSTANTS Networks,   \* the components searched
          Inf         \* the largest weight, which no distance reaches

Ends == {"A", "B"}
Opp(s) == <<s[1], IF s[2] = "A" THEN "B" ELSE "A">>
Chains(c) == DOMAIN c.weight
Slots(c) == Chains(c) \X Ends

\* The ends at a junction are all neighbours of each other.
IsNetwork(c) ==
  /\ IsFiniteSet(Chains(c)) /\ Chains(c) \subseteq Nat
  /\ c.weight \in [Chains(c) -> Nat]
  /\ c.ngs \in [Slots(c) -> SUBSET Slots(c)]
  /\ \A s \in Slots(c) :
       /\ s \notin c.ngs[s]
       /\ \A t \in c.ngs[s] : c.ngs[t] = (c.ngs[s] \ {t}) \cup {s}

ASSUME NetworksAssumption == \A c \in Networks : IsNetwork(c)
ASSUME InfAssumption == Inf \in Nat \ {0}

\* The weights are so small that going along every chain is below Inf.
IsBelowInf(c, m) ==
  /\ \A w \in Chains(c) : c.weight[w] <= m
  /\ (Cardinality(Slots(c)) + 1) * m < Inf

ASSUME WeightsAssumption == \A c \in Networks : \E m \in 0..Inf : IsBelowInf(c, m)

VARIABLES
  cmp,         \* the component
  source,      \* the end that distances are asked from
  distances,   \* for each end the one before it and its distance
  q,           \* the ends to go on from, each with a distance
  path,        \* the path found
  pc           \* "idle", "searching", "computed", "walking", or "reset" without a search

vars == <<cmp, source, distances, q, path, pc>>

NoSlot == <<0, "none">>
Dist(p, d) == [prev |-> p, dist |-> d]
Unreached == Dist(NoSlot, Inf)
is_finite(s) == distances[s].dist < Inf

Init ==
  /\ cmp \in Networks
  /\ source = NoSlot
  /\ distances = [s \in Slots(cmp) |-> Unreached]
  /\ q = {} /\ path = <<>> /\ pc = "idle"

-----------------------------------------------------------------------------

\* The distances when t has been reached over p at distance d, and its
\* neighbours over t.
Reached(D, t, p, d) ==
  [s \in Slots(cmp) |-> CASE s = t -> Dist(p, d)
                          [] s # t /\ s \in cmp.ngs[t] -> Dist(t, d)
                          [] OTHER -> D[s]]
QueuedAt(t, d) == {Dist(s, d) : s \in {x \in cmp.ngs[t] : x[1] # t[1]}}

\* Faulty: what was reached by the search before is still reached.
ResetLeavingDistances(s) ==
  /\ distances' = Reached(distances, s, NoSlot, 0)
  /\ q' = {Dist(s, 0)} \cup QueuedAt(s, 0)

\* reset and the source's own junction.
Reset(s) ==
  /\ distances' = Reached([t \in Slots(cmp) |-> Unreached], s, NoSlot, 0)
  /\ q' = {Dist(s, 0)} \cup QueuedAt(s, 0)

\* compute_from_source, as it is, for are_connected of an end of another chain or
\* for find_shortest_path.
ComputeFromSource(s) ==
  /\ pc \notin {"searching", "walking"}
  /\ source' = s
  /\ Reset(s)
  /\ path' = <<>> /\ pc' = "searching"
  /\ UNCHANGED cmp

\* are_connected of s with an end of the same chain.
ConnectedAlongChain(s) ==
  /\ pc \notin {"searching", "walking"}
  /\ source' = s
  /\ distances' = [u \in Slots(cmp) |-> Unreached]
  /\ q' = {}
  /\ path' = <<>> /\ pc' = "reset"
  /\ UNCHANGED cmp

\* q is ordered by end, ends of the lowest chain first, then by distance.
Precedes(x, y) ==
  \/ x.prev[1] < y.prev[1]
  \/ x.prev[1] = y.prev[1] /\ x.prev[2] = "A" /\ y.prev[2] = "B"
  \/ x.prev = y.prev /\ x.dist <= y.dist

\* Faulty: the neighbours keep the distance they had.
UpdateEndOnly(ud, v) ==
  LET d == ud.dist + cmp.weight[v[1]]
  IN  IF d < distances[v].dist
      THEN /\ distances' = [s \in Slots(cmp) |->
                              CASE s = v -> Dist(ud.prev, d)
                                [] s # v /\ s \in cmp.ngs[v] /\ ~is_finite(s) -> Dist(v, d)
                                [] OTHER -> distances[s]]
           /\ q' = (q \ {ud}) \cup {Dist(ud.prev, d)} \cup QueuedAt(v, d)
      ELSE q' = q \ {ud} /\ UNCHANGED distances

\* Faulty: a junction reached before is not gone on from again.
UpdateQueuedOnce(ud, v) ==
  LET d == ud.dist + cmp.weight[v[1]]
  IN  IF d < distances[v].dist
      THEN /\ distances' = Reached(distances, v, ud.prev, d)
           /\ q' = (q \ {ud}) \cup IF is_finite(v) THEN {} ELSE QueuedAt(v, d)
      ELSE q' = q \ {ud} /\ UNCHANGED distances

\* Faulty: an entry that brings nothing stays in the queue.
UpdateErasingIfBetter(ud, v) ==
  LET d == ud.dist + cmp.weight[v[1]]
  IN  IF d < distances[v].dist
      THEN /\ distances' = Reached(distances, v, ud.prev, d)
           /\ q' = (q \ {ud}) \cup {Dist(ud.prev, d)} \cup QueuedAt(v, d)
      ELSE UNCHANGED <<distances, q>>

\* The far end v of the chain is reached over the near one, which is queued
\* again with the new distance.
update(ud, v) ==
  LET d == ud.dist + cmp.weight[v[1]]
  IN  IF d < distances[v].dist
      THEN /\ distances' = Reached(distances, v, ud.prev, d)
           /\ q' = (q \ {ud}) \cup {Dist(ud.prev, d)} \cup QueuedAt(v, d)
      ELSE q' = q \ {ud} /\ UNCHANGED distances

GoOn ==
  /\ pc = "searching" /\ q # {}
  /\ \E ud \in q : (\A x \in q : Precedes(ud, x)) /\ update(ud, Opp(ud.prev))
  /\ UNCHANGED <<cmp, source, path, pc>>

EndSearch ==
  /\ pc = "searching" /\ q = {}
  /\ pc' = "computed"
  /\ UNCHANGED <<cmp, source, distances, q, path>>

-----------------------------------------------------------------------------
(* find_shortest_path, of the distances computed before *)

FindShortestPath(s2) ==
  /\ pc = "computed"
  /\ IF is_finite(s2)
     THEN path' = <<s2>> /\ pc' = "walking"
     ELSE path' = <<>> /\ pc' = "computed"
  /\ UNCHANGED <<cmp, source, distances, q>>

WalkBack ==
  /\ pc = "walking" /\ Head(path) # source
  /\ path' = <<distances[Head(path)].prev>> \o path
  /\ UNCHANGED <<cmp, source, distances, q, pc>>

EndWalk ==
  /\ pc = "walking" /\ Head(path) = source
  /\ pc' = "computed"
  /\ UNCHANGED <<cmp, source, distances, q, path>>

-----------------------------------------------------------------------------

\* The next component is searched by another object.
Search == \E s \in Slots(cmp) : ComputeFromSource(s)
SameChain == \E s \in Slots(cmp) : ConnectedAlongChain(s)
Find == \E s \in Slots(cmp) : FindShortestPath(s)

Next == Search \/ SameChain \/ GoOn \/ EndSearch \/ Find \/ WalkBack \/ EndWalk

\* A call runs to its end once it is made; no call has to be made.
Spec == Init /\ [][Next]_vars /\ WF_vars(GoOn \/ EndSearch) /\ WF_vars(WalkBack \/ EndWalk)

\* are_connected(source, t).
AreConnected(t) == t[1] = source[1] \/ is_finite(t)

\* classify_chains_by_connectivity: by the distance of end A alone.
Accessible == {w \in Chains(cmp) : is_finite(<<w, "A">>)}
-----------------------------------------------------------------------------

TypeOK ==
  /\ cmp \in Networks
  /\ source \in Slots(cmp) \cup {NoSlot}
  /\ distances \in [Slots(cmp) -> [prev : Slots(cmp) \cup {NoSlot}, dist : Nat]]
  /\ q \subseteq [prev : Slots(cmp), dist : Nat]
  /\ path \in Seq(Slots(cmp))
  /\ pc \in {"idle", "searching", "computed", "walking", "reset"}
  /\ pc # "idle" => source \in Slots(cmp)

\* At any time of a search the ends at a junction are at one distance: update
\* overwrites the distances of the neighbours without comparing them, and is
\* right only because of this (generic.h:259).
JunctionsAgree ==
  \A s \in Slots(cmp) : \A t \in cmp.ngs[s] : distances[t].dist = distances[s].dist

\* No entry of the queue promises less than is known of its end: going on from
\* one that has been overtaken changes nothing, and no end gets farther.
QueueIsNotAhead == \A x \in q : distances[x.prev].dist <= x.dist

\* Where each end can be come to from, and the cost.
Ways(c) == [s \in Slots(c) |-> {<<t, 0>> : t \in c.ngs[s]} \cup {<<Opp(s), c.weight[s[1]]>>}]

\* The path leads from the source over ends that are neighbours, at one distance D,
\* and along chains that add their weight to it: it is as long as D says.
PathIsAsLong(D) ==
  /\ Head(path) = source
  /\ \A k \in 1..Len(path) - 1 :
       LET u == path[k]
           v == path[k + 1]
       IN  \/ v \in cmp.ngs[u] /\ D[v] = D[u]
           \/ v = Opp(u) /\ D[v] = D[u] + cmp.weight[v[1]]

\* A search finds the shortest distances, although the queue is ordered by end and
\* not by distance and entries in it go stale (generic.h:231), and a path asked for
\* after it is one of the shortest paths (generic.h:284).
PathIsShortest ==
  pc = "computed" =>
    LET D == Shortest(Ways(cmp), source, Inf)
    IN  /\ \A s \in Slots(cmp) : distances[s].dist = D[s]
        /\ path # <<>> => PathIsAsLong(D)

\* The chains that can be come to from s: those in every set of ends that has s and,
\* with an end, its neighbours and the other end of its chain.
IsClosed(S) == \A t \in S : cmp.ngs[t] \subseteq S /\ Opp(t) \in S
ReachableFrom(s) ==
  LET closed == {S \in SUBSET Slots(cmp) : s \in S /\ IsClosed(S)}
  IN  {w \in Chains(cmp) : \A S \in closed : <<w, "A">> \in S}

\* After a search from s the chains are sorted into those that can be reached from
\* s and the others, a chain never being reached at one end only; on this the
\* splits divide a component (generic.h:296).
ClassesAreByReach ==
  pc = "computed" =>
    /\ Accessible = ReachableFrom(source)
    /\ \A w \in Chains(cmp) : is_finite(<<w, "A">>) <=> is_finite(<<w, "B">>)
    /\ \A t \in Slots(cmp) : AreConnected(t) <=> t[1] \in ReachableFrom(source)

\* generic.h:112 says that the classes may be asked for after are_connected(s, ...)
\* as well.  Does not hold: see the README.
ClassesAfterAreConnected ==
  pc \in {"computed", "reset"} => Accessible = ReachableFrom(source)

\* Every search ends (generic.h:231): an end is queued again only when a distance
\* has become shorter; and so does every walk back (generic.h:286).
SearchEnds == (pc \in {"searching", "walking"}) ~> (pc = "computed")
=============================================================================
