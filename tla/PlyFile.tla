------------------------------- MODULE PlyFile -------------------------------
(***************************************************************************)
(* What of a graph is written to a file and how a graph is made of it      *)
(* again: structure/io/ply.h.  A file is [vertices, edges], the edges in   *)
(* the order of their indexes with the vertices at their outer ends.       *)
(***************************************************************************)
EXTENDS GraphFactory

Rename(file, from, to) ==
  LET new(v) == IF v = from THEN to ELSE v
  IN  [vertices |-> {new(v) : v \in file.vertices},
       edges |-> Strict([i \in DOMAIN file.edges |->
                   LET x == file.edges[i] IN [x EXCEPT !.A = new(@), !.B = new(@)]])]

\* restore_consecutive_vids: each number not in use goes to the vertex that has
\* the largest, the lowest number first.
RestoreConsecutiveVids(file) ==
  LET available == SetToSortSeq(1..Cardinality(file.vertices) \ file.vertices, LAMBDA x, y : x < y)
      largest(V) == CHOOSE x \in V : \A y \in V : x >= y
  IN  FoldLeft(LAMBDA f, v : Rename(f, largest(f.vertices), v), file, available)

\* Faulty: the vertices of an edge are those of its own ends, not of the outer ones.
WrittenInner(g) ==
  RestoreConsecutiveVids(
    [vertices |-> DOMAIN g.vx,
     edges |-> Strict([i \in 1..g.ne |->
                 LET o == g.eg[g.egl[i].h]
                 IN  [A |-> o.vv["A"], B |-> o.vv["B"], fwd |-> o.fwd]])])

Written(g) ==
  RestoreConsecutiveVids(
    [vertices |-> DOMAIN g.vx,
     edges |-> Strict([i \in 1..g.ne |->
                 LET h == g.egl[i].h
                 IN  [A |-> VertexAtOuter(g, h, "A"), B |-> VertexAtOuter(g, h, "B"),
                      fwd |-> g.eg[h].fwd]])])

\* The checks made before anything is built of the file.
Accepted(file) ==
  /\ \A i \in DOMAIN file.edges : {file.edges[i].A, file.edges[i].B} \subseteq file.vertices
  /\ IsGraph(file.edges)
  /\ InputVertices(file.edges) = file.vertices

\* A file that is refused throws an io_error and makes no graph.
Read(file) == IF Accepted(file) THEN Assemble(file.edges) ELSE EmptyGraph
=============================================================================
