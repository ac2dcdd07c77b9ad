---------------------------- MODULE MCGraphFiles ----------------------------
(***************************************************************************)
(* Every way to join up to MaxInput edges over the vertices 1, 2, ..., each*)
(* new vertex the lowest not met yet, and larger graphs with what the      *)
(* lookups tell apart: loops, parallel chains, chains of one edge,         *)
(* triangles, edges laid either way.                                       *)
(***************************************************************************)
EXTENDS GraphFiles, GraphLookups

CONSTANT MaxInput     \* bound: edges of an assembled graph

\* The next edge: each end at a vertex met before or at the lowest new one.
Longer(S) ==
  UNION {{Append(es, [A |-> a, B |-> b, fwd |-> f]) :
            a \in 1..Cardinality(InputVertices(es)) + 1,
            b \in 1..Cardinality(InputVertices(es)) + 2,
            f \in (IF Len(es) = 0 THEN BOOLEAN ELSE {TRUE})} : es \in S}
Numbered(es) == InputVertices(es) = 1..Cardinality(InputVertices(es))
EdgeLists ==
  FoldLeft(LAMBDA S, k : S \cup {es \in Longer(S) : IsGraph(es) /\ Numbered(es)},
           {<<>>}, [k \in 1..MaxInput |-> k]) \ {<<>>}

\* Edges given as pairs of vertices, every second one laid backward in memory.
Joined(pairs) ==
  [i \in DOMAIN pairs |-> [A |-> pairs[i][1], B |-> pairs[i][2], fwd |-> i % 2 = 1]]

Selected ==
  {Joined(<<<<1,2>>, <<2,3>>, <<3,1>>, <<4,5>>, <<5,4>>, <<6,7>>>>),  \* cycles, an edge
   Joined(<<<<1,2>>, <<2,3>>, <<1,3>>, <<1,4>>, <<4,3>>>>),              \* a theta
   Joined(<<<<1,2>>, <<1,2>>, <<1,2>>, <<1,3>>, <<3,4>>>>),
   Joined(<<<<1,2>>, <<2,3>>, <<3,1>>, <<1,4>>, <<4,1>>>>),              \* an eight
   Joined(<<<<1,2>>, <<2,3>>, <<3,1>>, <<3,4>>, <<4,5>>, <<5,4>>>>),
   Joined(<<<<1,2>>, <<2,3>>, <<3,1>>, <<1,4>>, <<2,5>>, <<3,6>>>>),     \* a triangle
   Joined(<<<<1,2>>, <<2,3>>, <<3,1>>, <<1,4>>, <<2,4>>, <<3,4>>>>)}     \* two of each

\* A second call is made on larger graphs only.
MCNext == FilesNext /\ (calls' = 2 /\ calls = 1 => gr.ne >= 5)
MCSpec == FilesInit /\ [][MCNext]_<<gr, calls>>

ConsistentLists == {es \in EdgeLists : Consistent(es)} \cup Selected

\* The forms of the calls that take vertices act right on the assembled graphs
\* (common.h locate, and the forms of each functor that take a vertex).
VertexFormsActAtFirst == calls = 0 => VertexFormsAct
=============================================================================
