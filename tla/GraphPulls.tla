----------------------------- MODULE GraphPulls -----------------------------
(***************************************************************************)
(* A graph whose vertices are pulled along paths.  A pull of several steps *)
(* calls the user's hook after each: the states between are seen.          *)
(***************************************************************************)
EXTENDS Graffine, Pulling

CONSTANTS MaxSteps,   \* bound: steps of one pull
          MaxPulls,   \* bound: pulls one after another
          Straight    \* whether only straight paths are pulled along

VARIABLES path,    \* the path of the pull in progress, or NoPath
          left,    \* its steps still to be made
          plan,    \* its plan, made beforehand of the path with its driver corrected
          asked,   \* the plan made of the path as given
          pulls    \* number of pulls begun

pullVars == <<gr, path, left, plan, asked, pulls>>

NoPath == <<>>
NoPlan == <<>>

\* Edge ends at a vertex of the degree.
Drivers(degree) ==
  {DriverAt(gr, gr.eg[d[1]].ind, d[2]) :
     d \in {x \in (DOMAIN gr.eg) \X End :
             Cardinality(DOMAIN gr.vx[gr.eg[x[1]].vv[x[2]]].eds) = degree}}
Sources(c) ==
  {AtEnd(s) : s \in {x \in EndSlots(gr) : gr.cn[x[1]].c = c}}
    \cup {AtBulk(b) : b \in {x \in BulkSlots(gr) : gr.cn[x[1]].c = c}}

\* The walks from driver d that pass no vertex twice, with their vertices.
Walks(d) ==
  LET c == gr.cn[d.w].c
      at(l) == PathVertices(gr, MakePath(gr, c, d, NoPath, l))
      longer(l) == {Append(l, gr.eg[h].ind) : h \in ToSet(EdgesOf(gr, gr.ct[c].ww))}
      simple(l) == at(l) # <<>> /\ IsInjective(at(l))
      next(S) == {l \in UNION {longer(x) : x \in S} : simple(l)}
      all == FoldLeft(LAMBDA r, k : <<next(r[1]), r[2] \cup next(r[1])>>,
                      <<{<<d.ind>>}, {<<d.ind>>}>>, [k \in 2..gr.ne |-> k])[2]
  IN  {<<l, at(l)>> : l \in {x \in all : simple(x)}}

SourceVertex(s) == IF IsBulk(s) THEN VertexAtBulk(gr, s.w, s.a) ELSE VertexAtEnd(gr, EndSlotOf(s))

\* The paths from d to s: those found by the program and those given edge by edge.
Paths(d, s, walks) ==
  ShortestPaths(gr, d, s) \cup {x[1] : x \in {y \in walks : Last(y[2]) = SourceVertex(s)}}

\* The path does not leave the source chain through its junction and come back.
IsStraight(p) ==
  \A k \in 1..Len(p.pw) - 1 :
    {ChainOf(gr, p.pw[k]), ChainOf(gr, p.pw[k + 1])} = {p.s.w} /\ ~IsUnconnectedCycle(gr, p.s.w)
      => PosOf(gr, p.pw[k]) - PosOf(gr, p.pw[k + 1]) \in {1, -1}

-----------------------------------------------------------------------------
(* common.h: the plan *)

OffPath(g, v, p) == {g.eg[x[1]].ind : x \in DOMAIN g.vx[v].eds} \ ToSet(p.pw)

MakePlan(p, n) ==
  LET vv == PathVertices(gr, p)
      last == Len(vv)
      branches == Strict([k \in DOMAIN vv |-> OffPath(gr, vv[k], p)])
      J == {k \in 1..last - 1 : branches[k] # {}}
  IN  [vertices |-> vv, branches |-> branches, steps |-> n,
       shifts |-> IF J = {} THEN 0 ELSE Min({n, last - Max(J)})]

-----------------------------------------------------------------------------

PullsInit == Init /\ path = NoPath /\ left = 0 /\ plan = NoPlan /\ asked = NoPlan /\ pulls = 0

\* A pull of path q, given as p, by n steps makes its first with result r; what
\* it asserts of the path joins the checks of the graph.
Begin(r, p, q, n, asserted) ==
  /\ gr' = [r.g EXCEPT !.ok = @ /\ asserted] /\ path' = r.p /\ left' = n - 1
  /\ plan' = MakePlan(q, n) /\ asked' = MakePlan(p, n)
  /\ pulls' = pulls + 1

PathsFrom(d, walks) ==
  LET c == gr.cn[d.w].c
      from(s) == {MakePath(gr, c, d, s, pw) : pw \in Paths(d, s, walks)}
      all == UNION {from(s) : s \in Sources(c)}
  IN  {p \in all : Straight => IsStraight(p)}
GivenPathsFrom(degree) ==
  IF path = NoPath /\ pulls < MaxPulls
  THEN UNION {PathsFrom(d, Walks(d)) : d \in Drivers(degree)} ELSE {}

PullFromLeaf ==
  \E p \in GivenPathsFrom(1), n \in 1..MaxSteps :
    Accepted1(gr, p, n) /\ Begin(SourceBeyond(PullLeaf(gr, p), n > 1), p, p, n, CheckPath(gr, p, n))

PullCorrected(p, q, n) ==
  Accepted2(gr, q, n) /\ Begin(Pull2(gr, q), p, q, n, CheckPath2(gr, q, n))
PullFromBulk ==
  \E p \in GivenPathsFrom(2), n \in 1..MaxSteps :
    CheckBasics(gr, p, n) /\ PullCorrected(p, CorrectDriver(gr, p), n)

PullFromJunction ==
  \E p \in GivenPathsFrom(3), n \in 1..MaxSteps :
    Accepted3(gr, p, n) /\ Begin(Pull3(gr, p), p, p, n, CheckPath(gr, p, n))

\* The next step of a pull whose driver is a leaf by now.
Continue(r) == gr' = r.g /\ path' = r.p
PullOn ==
  /\ left > 0 /\ gr.ok
  /\ Continue(SourceBeyond(PullLeaf(gr, path), left > 1))
  /\ left' = left - 1
  /\ UNCHANGED <<plan, asked, pulls>>

EndPull ==
  /\ path # NoPath /\ left = 0
  /\ path' = NoPath /\ plan' = NoPlan /\ asked' = NoPlan
  /\ UNCHANGED <<gr, left, pulls>>

PullsNext == PullFromLeaf \/ PullFromBulk \/ PullFromJunction \/ PullOn \/ EndPull

PullsSpec == PullsInit /\ [][PullsNext]_pullVars
-----------------------------------------------------------------------------
\* After each step, in the hook called there, the path is a walk along edges of
\* the graph as it is now, and its component indexes lead to the same edges as
\* its graph indexes (functor_base.h, the rebuilt Path; Path::is_contiguous).
PathIsContiguous == path # NoPath => IsContiguous(gr, path)

\* The source kept in the path, an end slot or a position in a chain that the
\* steps shorten, rename and dissolve, is the last vertex of the path (path.h).
\* Does not hold: see the README.
SourceIsLast(p) ==
  /\ IsBulk(p.s) => /\ p.s.a \in 1..Length(gr, p.s.w) - 1
                   /\ Last(PathVertices(gr, p)) = VertexAtBulk(gr, p.s.w, p.s.a)
  /\ ~IsBulk(p.s) => Last(PathVertices(gr, p)) = VertexAtOuter(gr, EdgeAt(gr, Last(p.pw)), p.s.e)
PathEndsAtSource == path # NoPath /\ gr.ok => SourceIsLast(path)

\* It is after each step of every pull but those that turn around a path of one
\* edge (functor_base.h source_at).
TurnedAround == Len(path.pw) = 1 /\ Cardinality(plan.branches[1]) = 1
LongPathEndsAtSource == path # NoPath /\ gr.ok => TurnedAround \/ SourceIsLast(path)

\* After each step, while the hook runs, the graph is one that any call may be made
\* on, and the path is a walk in it that ends at its source; no check made on the
\* way has failed.
GraphAndPathAreSound ==
  /\ ChecksHold /\ NeighboursShareVertex /\ ChainsAreMaximal /\ LoopFree
  /\ PathIsContiguous /\ LongPathEndsAtSource

\* The path keeps its vertex objects, whatever vertices are split off, exchanged,
\* merged and deleted on the way (pulling/common.h, Plan).
PathKeepsItsVertices == path # NoPath => PathVertices(gr, path) = plan.vertices

\* After step k the branches off the path at its vertex i are at vertex
\* i + min(k, shifts), those at the source stay, and no edge is anywhere else
\* (pulling/common.h, Plan).
BranchesAreWherePlanned ==
  path # NoPath =>
    LET k == Min({plan.steps - left, plan.shifts})
        last == Len(plan.vertices)
        moved(i) == IF i = last THEN i ELSE i + k
    IN  \A j \in 1..last :
          OffPath(gr, plan.vertices[j], path) =
            UNION {plan.branches[i] : i \in {x \in 1..last : moved(x) = j}}

\* The same vertices are those of the plan made of the path that was given
\* (functor.h plan).  Does not hold: see the README.
PathKeepsVerticesAsked == path # NoPath => PathVertices(gr, path) = asked.vertices
=============================================================================
