--------------------------- MODULE DistanceRounds ---------------------------
(***************************************************************************)
(* The shortest distances in a weighted graph by rounds in which all of    *)
(* them are improved at once: the definition that the searches are         *)
(* compared with.                                                          *)
(*                                                                         *)
(* ways[s] holds <<t, w>> for every place t from which s is reached at a   *)
(* cost of w.                                                              *)
(***************************************************************************)
EXTENDS Integers, FiniteSetsExt

\* f itself; TLC evaluates its elements here and not where they are used.
Evaluated(f) == CHOOSE g \in {f} : g = f

\* What s is at when it is come to from those before it, at their distances D, or is
\* left where it is.
Offers(ways, D, s) == {D[s]} \cup {D[w[1]] + w[2] : w \in ways[s]}
Improved(ways, D) == Evaluated([s \in DOMAIN ways |-> Min(Offers(ways, D, s))])

\* The distances from source after n rounds, none above top.
Rounds(ways, source, top) ==
  LET D[n \in Nat] == IF n = 0 THEN [s \in DOMAIN ways |-> IF s = source THEN 0 ELSE top]
                               ELSE Improved(ways, D[n - 1])
  IN  D

\* A shortest way comes to no place twice.
Shortest(ways, source, top) == Rounds(ways, source, top)[Cardinality(DOMAIN ways)]
=============================================================================
