---------------------------- MODULE MCGraphPulls ----------------------------
EXTENDS GraphPulls, GraphFactory

CONSTANT MaxInput     \* bound: edges of an assembled graph

\* The next edge: each end at a vertex met before or at the lowest new one.
Longer(S) ==
  UNION {{Append(es, [A |-> a, B |-> b, fwd |-> f]) :
            a \in 1..Cardinality(InputVertices(es)) + 1,
            b \in 1..Cardinality(InputVertices(es)) + 2,
            f \in (IF Len(es) = 0 THEN BOOLEAN ELSE {TRUE})} : es \in S}
Numbered(es) == InputVertices(es) = 1..Cardinality(InputVertices(es))
EdgeLists ==
  FoldLeft(LAMBDA S, k : S \cup {es \in Longer(S) : IsGraph(es) /\ Numbered(es)},
           {<<>>}, [k \in 1..MaxInput |-> k]) \ {<<>>}
Consistent(es) ==
  \A v \in InputVertices(es) :
    LET ds == EndsAtInput(es, v) IN Cardinality(ds) = 2 => {d[2] : d \in ds} = End


\* Edges given as pairs of vertices, every second one laid backward in memory.
Joined(pairs) ==
  [i \in DOMAIN pairs |-> [A |-> pairs[i][1], B |-> pairs[i][2], fwd |-> i % 2 = 1]]

Selected ==
  {Joined(<<<<1,2>>, <<2,3>>, <<3,4>>, <<4,5>>>>),                    \* a line
   Joined(<<<<1,2>>, <<2,3>>, <<3,4>>, <<4,1>>>>),                    \* a cycle
   Joined(<<<<1,2>>, <<2,3>>, <<3,4>>, <<4,5>>, <<5,1>>>>),
   Joined(<<<<1,2>>, <<2,3>>, <<2,4>>, <<4,5>>, <<5,6>>>>),           \* a star
   Joined(<<<<1,2>>, <<2,3>>, <<4,3>>, <<5,4>>, <<3,6>>, <<6,7>>>>),
   Joined(<<<<1,2>>, <<2,3>>, <<3,1>>, <<1,4>>, <<4,5>>>>),           \* a lollipop
   Joined(<<<<1,2>>, <<2,3>>, <<3,4>>, <<4,1>>, <<5,1>>>>),
   Joined(<<<<1,2>>, <<2,3>>, <<2,4>>, <<4,5>>, <<4,6>>, <<6,7>>>>),  \* two junctions
   Joined(<<<<1,2>>, <<2,3>>, <<3,4>>, <<3,5>>, <<2,6>>, <<5,7>>, <<5,8>>>>), \* three
   Joined(<<<<1,2>>, <<2,3>>, <<1,4>>, <<4,3>>, <<1,3>>>>),           \* a theta
   Joined(<<<<1,2>>, <<2,3>>, <<1,4>>, <<4,3>>, <<1,5>>, <<3,6>>, <<6,7>>>>),
   Joined(<<<<1,2>>, <<2,3>>, <<3,1>>, <<1,4>>, <<4,5>>, <<5,6>>, <<6,4>>>>)} \* two cycles

Graphs == {Assemble(es) : es \in {x \in EdgeLists : Consistent(x)} \cup Selected}
=============================================================================
