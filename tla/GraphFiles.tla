----------------------------- MODULE GraphFiles -----------------------------
(***************************************************************************)
(* A graph assembled from given edges, transformed, and now and then       *)
(* written to a file and read back.                                        *)
(***************************************************************************)
EXTENDS Graffine, PlyFile

CONSTANTS Inputs,     \* the lists of edges that graphs are assembled from
          MaxCalls    \* bound: number of transformations

VARIABLE calls

\* Edges that meet at a vertex of degree 2 follow each other: one ends there
\* and the other begins.  The graphs written always have it.
Consistent(es) ==
  \A v \in InputVertices(es) :
    LET ds == EndsAtInput(es, v) IN Cardinality(ds) = 2 => {d[2] : d \in ds} = End

FilesInit == gr = EmptyGraph /\ calls = 0

AssembleInput ==
  /\ gr = EmptyGraph
  /\ \E es \in Inputs : IsGraph(es) /\ gr' = Assemble(es)
  /\ UNCHANGED calls

WriteAndRead ==
  /\ gr.ne > 0
  /\ gr' = Read(Written(gr))
  /\ UNCHANGED calls

Transform ==
  /\ gr.ne > 0 /\ calls < MaxCalls /\ calls' = calls + 1
  /\ Next

FilesNext == AssembleInput \/ WriteAndRead \/ Transform

FilesSpec == FilesInit /\ [][FilesNext]_<<gr, calls>>

FilesView == <<View, calls>>
-----------------------------------------------------------------------------

\* Edge ends that meet, the edges named by their indexes.
NamedMeetings(g) ==
  {{<<g.eg[d[1]].ind, d[2]>> : d \in DOMAIN g.vx[v].eds} : v \in DOMAIN g.vx}

\* Whatever was created, removed and reversed before, what is written is accepted by
\* the reader, and makes a graph of the same edges, joined in the same vertices and
\* pointing the same way, with as many chains and components.
ReadsBackWhatWasWritten ==
  [][ calls' = calls /\ gr.ne > 0 =>
        /\ NamedMeetings(gr') = NamedMeetings(gr)
        /\ \A i \in 1..gr.ne : gr'.eg[gr'.egl[i].h].fwd = gr.eg[gr.egl[i].h].fwd
        /\ Len(gr'.cn) = Len(gr.cn) /\ Len(gr'.ct) = Len(gr.ct)
    ]_<<gr, calls>>

\* graph_factory.h:50 asks of the input edges only that they are connected to the
\* vertices, and says that chains run through the vertices of degree 2.
AnyConnectedEdgesAssemble == ChecksHold
=============================================================================
