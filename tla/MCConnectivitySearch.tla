------------------------ MODULE MCConnectivitySearch ------------------------
(***************************************************************************)
(* Two and three chains joined in every way, searched in turn; the epoch   *)
(* has three values, so that it wraps around with marks of every age left. *)
(***************************************************************************)
EXTENDS ConnectivitySearch

Joined(n, J) ==
  [s \in (1..n) \X Ends |-> {t \in (1..n) \X Ends : t # s /\ J[t] = J[s]}]

\* Junctions named by one of their ends.
Junctions(n) ==
  LET no(s) == 2 * s[1] - IF s[2] = "A" THEN 1 ELSE 0
  IN  {J \in [(1..n) \X Ends -> 1..2 * n] :
         \A s \in DOMAIN J : /\ J[s] <= no(s)
                             /\ Cardinality({t \in DOMAIN J : J[t] = J[s]}) <= 4
                             /\ \E t \in DOMAIN J : no(t) = J[s] /\ J[t] = J[s]}

\* Vertices of each chain in order: a ring with two tails, and a ring apart from a
\* loop on a stem.
Of(pairs) ==
  Joined(Len(pairs),
         [s \in (DOMAIN pairs) \X Ends |-> pairs[s[1]][IF s[2] = "A" THEN 1 ELSE 2]])

MCLinks ==
  {Joined(2, J) : J \in Junctions(2)}
    \cup {Of(<< <<1, 2>>, <<2, 1>>, <<2, 3>>, <<4, 1>> >>),
          Of(<< <<1, 2>>, <<3, 4>>, <<2, 1>>, <<4, 4>> >>)}
=============================================================================
