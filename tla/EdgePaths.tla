------------------------------ MODULE EdgePaths ------------------------------
(***************************************************************************)
(* Shortest paths over the edges of a component, the search object of      *)
(* structure/paths/over_edges/generic.h.  It works on its own copy of the  *)
(* adjacency list, improves distances edge by edge, and walks back along   *)
(* the predecessors to give a path.  Between two searches the component it *)
(* points to may have been changed.                                        *)
(*                                                                         *)
(* A component is [adj, weight]: the neighbours and the weight of each of  *)
(* its edges, edges named by their component index.  Neighbours are kept   *)
(* as a set, tried in any order; the code tries those of its list in turn, *)
(* having dropped adjacent duplicates.                                     *)
(***************************************************************************)
EXTENDS Integers, Sequences, FiniteSets, DistanceRounds

CONSTANTS Components,   \* what the component pointed to may be
          Inf           \* the largest weight, which no distance reaches

Edges(c) == DOMAIN c.adj

IsComponent(c) ==
  /\ IsFiniteSet(Edges(c)) /\ Edges(c) \subseteq Nat
  /\ c.adj \in [Edges(c) -> SUBSET Edges(c)]
  /\ c.weight \in [Edges(c) -> Nat]

ASSUME ComponentsAssumption == \A c \in Components : IsComponent(c)
ASSUME InfAssumption == Inf \in Nat \ {0}

undefined == -1

VARIABLES
  cmp,        \* the component
  ajlg,       \* the copy of its adjacency list
  source,     \* the edge the distances are measured from
  distances,  \* for each edge its predecessor and its distance
  q,          \* the edges to go on from, with their distances
  ud,         \* the edge taken from q
  nbs,        \* its neighbours not yet updated
  path,       \* the path asked for, from its end on
  pc          \* "idle", "searching", "ready" or "walking"

vars == <<cmp, ajlg, source, distances, q, ud, nbs, path, pc>>

Dist(p, d) == [prev |-> p, dist |-> d]
Unreached == Dist(undefined, Inf)
is_finite(d) == d.dist < Inf

Init ==
  /\ cmp \in Components
  /\ ajlg = <<>> /\ distances = <<>> /\ q = {}
  /\ source = undefined /\ ud = Unreached /\ nbs = {}
  /\ path = <<>> /\ pc = "idle"

-----------------------------------------------------------------------------
(* The search *)

\* Faulty: the adjacency list is kept while the number of edges is the same.
ResetBySize(s) ==
  /\ ajlg' = IF DOMAIN ajlg = Edges(cmp) THEN ajlg ELSE cmp.adj
  /\ distances' = [e \in Edges(cmp) |-> IF e = s THEN Dist(undefined, 0) ELSE Unreached]
  /\ q' = {Dist(s, 0)}

\* reset and the first entry of compute_from_source.
Reset(s) ==
  /\ ajlg' = cmp.adj
  /\ distances' = [e \in Edges(cmp) |-> IF e = s THEN Dist(undefined, 0) ELSE Unreached]
  /\ q' = {Dist(s, 0)}

ComputeFromSource(s) ==
  /\ pc \in {"idle", "ready"}
  /\ Reset(s)
  /\ source' = s
  /\ ud' = Unreached
  /\ pc' = "searching"
  /\ path' = <<>>
  /\ UNCHANGED <<cmp, nbs>>

\* q is ordered by the edge alone: its first entry has the lowest index.
TakeFirst ==
  /\ pc = "searching" /\ nbs = {} /\ q # {}
  /\ \E x \in q :
       /\ \A y \in q : x.prev <= y.prev
       /\ ud' = x
       /\ q' = q \ {x}
       /\ nbs' = ajlg[x.prev]
  /\ UNCHANGED <<cmp, ajlg, source, distances, path, pc>>

Replace(S, v, d) == {x \in S : x.prev # v} \cup {Dist(v, d)}

\* Faulty: only an edge not reached before is queued again.
UpdateNewOnly(v) ==
  LET d == ud.dist + cmp.weight[v]
  IN  IF d < distances[v].dist
      THEN /\ distances' = [distances EXCEPT ![v] = Dist(ud.prev, d)]
           /\ q' = IF is_finite(distances[v]) THEN q ELSE Replace(q, v, d)
      ELSE UNCHANGED <<distances, q>>

\* Faulty: an equal distance counts as an improvement.
UpdateIfNotWorse(v) ==
  LET d == ud.dist + cmp.weight[v]
  IN  IF d <= distances[v].dist
      THEN /\ distances' = [distances EXCEPT ![v] = Dist(ud.prev, d)]
           /\ q' = Replace(q, v, d)
      ELSE UNCHANGED <<distances, q>>

\* Faulty: the predecessor is set only when the edge is reached first.
UpdateKeepingPrev(v) ==
  LET d == ud.dist + cmp.weight[v]
      prev == IF is_finite(distances[v]) THEN distances[v].prev ELSE ud.prev
  IN  IF d < distances[v].dist
      THEN /\ distances' = [distances EXCEPT ![v] = Dist(prev, d)]
           /\ q' = Replace(q, v, d)
      ELSE UNCHANGED <<distances, q>>

\* v is reached over ud; if that is shorter, v is queued with the new distance.
update(v) ==
  LET d == ud.dist + cmp.weight[v]
  IN  IF d < distances[v].dist
      THEN /\ distances' = [distances EXCEPT ![v] = Dist(ud.prev, d)]
           /\ q' = Replace(q, v, d)
      ELSE UNCHANGED <<distances, q>>

UpdateNeighbour ==
  /\ pc = "searching"
  /\ \E v \in nbs : update(v) /\ nbs' = nbs \ {v}
  /\ UNCHANGED <<cmp, ajlg, source, ud, path, pc>>

EndSearch ==
  /\ pc = "searching" /\ nbs = {} /\ q = {}
  /\ pc' = "ready"
  /\ UNCHANGED <<cmp, ajlg, source, distances, q, ud, nbs, path>>

-----------------------------------------------------------------------------
(* find_shortest_path from source to s2, on the distances computed *)

FindShortestPath(s2) ==
  /\ pc = "ready"
  /\ IF is_finite(distances[s2])
     THEN path' = <<s2>> /\ pc' = "walking"
     ELSE path' = <<>> /\ pc' = "ready"
  /\ UNCHANGED <<cmp, ajlg, source, distances, q, ud, nbs>>

WalkBack ==
  /\ pc = "walking" /\ Head(path) # source
  /\ path' = <<distances[Head(path)].prev>> \o path
  /\ UNCHANGED <<cmp, ajlg, source, distances, q, ud, nbs, pc>>

EndWalk ==
  /\ pc = "walking" /\ Head(path) = source
  /\ pc' = "ready"
  /\ UNCHANGED <<cmp, ajlg, source, distances, q, ud, nbs, path>>

\* The graph is transformed; the search object knows nothing of it.
ChangeComponent ==
  /\ pc = "ready"
  /\ cmp' \in Components
  /\ pc' = "idle" /\ path' = <<>>
  /\ UNCHANGED <<ajlg, source, distances, q, ud, nbs>>

-----------------------------------------------------------------------------

Search == TakeFirst \/ UpdateNeighbour \/ EndSearch
Walk == WalkBack \/ EndWalk

Next ==
  \/ \E s \in Edges(cmp) : ComputeFromSource(s)
  \/ Search
  \/ \E s2 \in Edges(cmp) : FindShortestPath(s2)
  \/ Walk
  \/ ChangeComponent

\* A call runs to its end once it is made; no call has to be made.
Spec == Init /\ [][Next]_vars /\ WF_vars(Search) /\ WF_vars(Walk)

-----------------------------------------------------------------------------
(* Properties *)

\* Type correctness of the search object: distances and the queue speak of the
\* edges of the component copied, an entry taken from the queue is one of them.
SearchTypeOK ==
  /\ ajlg = cmp.adj
  /\ source \in Edges(cmp)
  /\ distances \in [Edges(cmp) -> [prev : Edges(cmp) \cup {undefined}, dist : 0..Inf]]
  /\ q \subseteq [prev : Edges(cmp), dist : 0..Inf]
  /\ ud \in [prev : Edges(cmp) \cup {undefined}, dist : 0..Inf]
  /\ nbs \subseteq Edges(cmp)

TypeOK ==
  /\ cmp \in Components
  /\ pc \in {"idle", "searching", "ready", "walking"}
  /\ path \in Seq(Edges(cmp))
  /\ pc # "idle" => SearchTypeOK

\* The queue has no more than one entry for an edge, and the distance in it is
\* the one on record (update erases by edge before it emplaces).
QueueIsCurrent ==
  pc = "searching" =>
    \A x \in q : distances[x.prev].dist = x.dist /\ x.dist < Inf

\* The neighbours of u can gain nothing from going over u.
Settled(u) ==
  \A v \in ajlg[u] : distances[v].dist <= distances[u].dist + cmp.weight[v]

\* An edge the search will not come back to has nothing left to offer its
\* neighbours; this is what makes the search complete when the queue is empty.
SettledUnlessPending ==
  pc = "searching" =>
    \A u \in Edges(cmp) :
      is_finite(distances[u]) =>
        \/ \E x \in q : x.prev = u
        \/ \A v \in ajlg[u] :
             \/ distances[v].dist <= distances[u].dist + cmp.weight[v]
             \/ u = ud.prev /\ v \in nbs

\* Every distance but the source's comes from the predecessor on record.
FromPredecessor(v) ==
  LET u == distances[v].prev
  IN  /\ u \in Edges(cmp)
      /\ v \in ajlg[u]
      /\ distances[u].dist + cmp.weight[v] <= distances[v].dist

\* When the search is over the distances solve the shortest-path equations:
\* the source has none, every other edge reached has that of its predecessor
\* and its own weight, and no edge is a shorter way to a neighbour.
DistancesSolveEquations ==
  pc \in {"ready", "walking"} =>
    /\ distances[source].dist = 0
    /\ \A u \in Edges(cmp) :
         is_finite(distances[u]) =>
           /\ Settled(u)
           /\ u # source =>
                /\ distances[u].prev \in Edges(cmp)
                /\ u \in ajlg[distances[u].prev]
                /\ distances[u].dist = distances[distances[u].prev].dist + cmp.weight[u]

\* Where each edge can be come to from, and the cost.
Ways(c) ==
  [e \in Edges(c) |-> {<<u, c.weight[e]>> : u \in {x \in Edges(c) : e \in c.adj[x]}}]

\* The path leads over adjacent edges from the source, each step adding the weight of
\* the edge come to: it is as long as D says.
PathIsAsLong(D) ==
  /\ Head(path) = source
  /\ \A k \in 1..Len(path) - 1 :
       LET u == path[k]
           v == path[k + 1]
       IN  v \in cmp.adj[u] /\ D[v] = D[u] + cmp.weight[v]

\* The distances computed are those of the shortest ways in the component as it is
\* now, and a path given back leads over adjacent edges from the source to where it
\* was asked to, at the weight of the shortest.
PathIsShortest ==
  pc = "ready" =>
    LET D == Shortest(Ways(cmp), source, Inf)
    IN  /\ \A e \in Edges(cmp) : distances[e].dist = D[e]
        /\ path # <<>> => PathIsAsLong(D)

\* compute_from_source returns, and so does find_shortest_path, whatever the
\* weights: an edge without weight is not gone back and forth over for ever.
CallsReturn == (pc \in {"searching", "walking"}) ~> (pc = "ready")
=============================================================================
