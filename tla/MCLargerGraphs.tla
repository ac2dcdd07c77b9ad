--------------------------- MODULE MCLargerGraphs ---------------------------
(***************************************************************************)
(* Sequences of calls on larger starting graphs, chosen to reach what      *)
(* small graphs cannot: junctions of four chains, cycles with something    *)
(* attached, bridges with branching parts on both sides.  The calls have a *)
(* total weight of at most MaxSteps; one that makes or takes a single edge *)
(* counts as two.                                                          *)
(***************************************************************************)
EXTENDS Graffine, GraphFactory

CONSTANT MaxSteps     \* bound: weight of the calls made on the starting graph

VARIABLE steps

\* Edges from vertex to vertex, given as pairs.
Joined(pairs) ==
  Assemble([i \in DOMAIN pairs |-> [A |-> pairs[i][1], B |-> pairs[i][2], fwd |-> TRUE]])

MCInitialGraphs ==
  {Joined(<<<<1,2>>, <<2,3>>, <<3,4>>, <<4,5>>>>),                     \* chains apart
   Joined(<<<<1,2>>, <<2,3>>, <<4,5>>, <<6,7>>>>),
   Joined(<<<<1,2>>, <<2,1>>, <<1,3>>, <<3,4>>, <<4,5>>>>),            \* a lollipop
   Joined(<<<<1,2>>, <<2,1>>, <<1,3>>, <<3,4>>, <<4,5>>, <<5,4>>>>),   \* a dumbbell
   Joined(<<<<1,2>>, <<2,3>>, <<4,5>>, <<5,6>>, <<2,5>>>>),            \* a bridge
   Joined(<<<<1,2>>, <<2,3>>, <<3,4>>, <<4,1>>>>),                     \* a cycle
   Joined(<<<<1,2>>, <<2,1>>, <<1,3>>, <<3,1>>>>),                     \* an eight
   Joined(<<<<1,2>>, <<2,3>>, <<3,4>>, <<5,2>>, <<2,6>>, <<6,7>>>>)}   \* a star

MCInit == Init /\ steps = 0
MCNext ==
  \/ /\ steps < MaxSteps /\ steps' = steps + 1
     /\ Mergers \/ Splits \/ CreateChainComponent \/ DeleteWholeComponent
  \/ /\ steps + 1 < MaxSteps /\ steps' = steps + 2
     /\ EdgeChanges
  \/ steps = MaxSteps /\ UNCHANGED <<gr, steps>>
MCSpec == MCInit /\ [][MCNext]_<<gr, steps>>

MCView == <<View, steps>>

\* The plans of calls that may still be made come true (applicability and plan of
\* the merger functors; Keep in transforms/common.h).
EarlyPlansAreKept == steps < MaxSteps => PlansAreKept
=============================================================================
