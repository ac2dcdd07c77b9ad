------------------------ MODULE MCVertexDescriptors ------------------------
(***************************************************************************)
(* Calls and reads in any order on graphs with vertices of every degree    *)
(* and cycles of their own.                                                *)
(***************************************************************************)
EXTENDS VertexDescriptors, GraphFactory

CONSTANT MaxCalls     \* bound: calls made on an assembled graph

VARIABLE calls

\* Edges given as pairs of vertices, every second one laid backward in memory.
Joined(pairs) ==
  [i \in DOMAIN pairs |-> [A |-> pairs[i][1], B |-> pairs[i][2], fwd |-> i % 2 = 1]]

Selected ==
  {Joined(<<<<1,2>>, <<2,3>>, <<3,4>>>>),                    \* a line
   Joined(<<<<1,2>>, <<2,1>>, <<3,4>>>>),                    \* a cycle and a line
   Joined(<<<<1,2>>, <<2,3>>, <<3,1>>, <<1,4>>>>),           \* a lollipop
   Joined(<<<<1,2>>, <<1,3>>, <<1,4>>, <<1,5>>>>)}           \* a star
MCInitialGraphs == {Assemble(es) : es \in Selected}

MCInit == DescriptorsInit /\ calls = 0
MCNext ==
  \/ calls < MaxCalls /\ calls' = calls + 1 /\ (Transformation \/ CycleMerger)
  \/ calls' = calls /\ (UpdateAfterHook \/ Read)
MCSpec == MCInit /\ [][MCNext]_<<vars, calls>>
=============================================================================
