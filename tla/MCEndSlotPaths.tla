--------------------------- MODULE MCEndSlotPaths ---------------------------
(***************************************************************************)
(* Every way to join the ends of up to three chains in junctions of up to  *)
(* four, with weights 1 and 3, and larger networks in which a junction is  *)
(* first reached over a heavy chain.                                       *)
(***************************************************************************)
EXTENDS EndSlotPaths

\* J gives each end of chains 1..n the junction it is at.
Network(n, J, weights) ==
  [ngs |-> [s \in (1..n) \X Ends |-> {t \in (1..n) \X Ends : t # s /\ J[t] = J[s]}],
   weight |-> weights]

\* Junctions named by one of their ends.
Representatives(n) ==
  LET no(s) == 2 * s[1] - IF s[2] = "A" THEN 1 ELSE 0
  IN  {J \in [(1..n) \X Ends -> 1..2 * n] :
         \A s \in DOMAIN J : /\ J[s] <= no(s)
                             /\ Cardinality({t \in DOMAIN J : J[t] = J[s]}) <= 4
                             /\ \E t \in DOMAIN J : no(t) = J[s] /\ J[t] = J[s]}

Small == UNION {{Network(n, J, W) : J \in Representatives(n), W \in [1..n -> {1, 3}]} : n \in 1..3}

\* Vertices x, y of each chain in order.
Of(pairs, weights) ==
  Network(Len(pairs), [s \in (DOMAIN pairs) \X Ends |-> pairs[s[1]][IF s[2] = "A" THEN 1 ELSE 2]],
          weights)

\* A triangle reached first over its heavy side, with a tail; a ladder; a tail that
\* is not connected.
Selected ==
  {Of(<< <<1, 2>>, <<2, 4>>, <<1, 3>>, <<3, 2>>, <<4, 5>> >>, <<5, 1, 1, 1, 2>>),
   Of(<< <<2, 1>>, <<4, 2>>, <<3, 1>>, <<2, 3>>, <<4, 4>>, <<3, 5>> >>, <<9, 1, 1, 2, 2, 1>>),
   Of(<< <<1, 2>>, <<2, 3>>, <<1, 4>>, <<4, 3>>, <<4, 2>> >>, <<1, 1, 3, 4, 1>>),
   Of(<< <<1, 2>>, <<2, 3>>, <<3, 1>>, <<4, 5>> >>, <<1, 1, 1, 1>>)}

MCNetworks == Small \cup Selected
=============================================================================
