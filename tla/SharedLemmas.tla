---------------------------- MODULE SharedLemmas ----------------------------
(***************************************************************************)
(* What several proofs need: induction, stated for a set of numbers; that  *)
(* the elements of a finite set can be listed in ascending order; and that *)
(* distances that are attained and cannot be improved are the shortest.    *)
(***************************************************************************)
EXTENDS DistanceRounds, Sequences, Functions, FiniteSetTheorems, WellFoundedInduction, TLAPS

LEMMA NaturalsAreWellFounded ==
  IsWellFoundedOn({ss \in Nat \X Nat : ss[1] < ss[2]}, Nat)
BY NatLessThanWellFounded DEF OpToRel

\* A set of numbers with 0 and with the successor of each of its members has all.
LEMMA NaturalsBySuccessor ==
  ASSUME NEW S, 0 \in S, \A n \in Nat : n \in S => n + 1 \in S
  PROVE  \A n \in Nat : n \in S
<1> DEFINE T == Nat \ S
           R == {ss \in Nat \X Nat : ss[1] < ss[2]}
<1> SUFFICES ASSUME T # {} PROVE FALSE
  OBVIOUS
<1>1. IsWellFoundedOn(R, Nat)
  BY NaturalsAreWellFounded
<1>2. \A x, y \in Nat : x < y => <<x, y>> \in R
  OBVIOUS
<1>3. T \subseteq Nat
  OBVIOUS
<1>4. PICK x \in T : \A y \in T : ~(<<y, x>> \in R)
  <2> HIDE DEF R, T
  <2> QED BY <1>1, <1>3, WFMin
<1>5. x # 0 /\ x \in Nat /\ x - 1 \in Nat /\ x - 1 < x
  BY <1>4
<1>6. x - 1 \notin T
  <2>1. <<x - 1, x>> \in R
    BY <1>2, <1>5
  <2> HIDE DEF R, T
  <2> QED BY <1>4, <2>1
<1>7. x - 1 + 1 \in S
  BY <1>5, <1>6
<1>8. x - 1 + 1 = x
  BY <1>5
<1> QED BY <1>4, <1>7, <1>8

\* y lists the members of S, n of them, in ascending order.
Ascends(y, n, S) ==
  /\ y \in [1..n -> S]
  /\ \A x \in S : \E i \in 1..n : y[i] = x
  /\ \A i, j \in 1..n : i < j => y[i] < y[j]

\* A finite set of numbers that is not empty has a largest one.
LEMMA LargestExists ==
  ASSUME NEW S, S \subseteq Nat, IsFiniteSet(S), S # {}
  PROVE  \E m \in S : \A x \in S : x <= m
<1> DEFINE P == {n \in Nat : \A T \in SUBSET Nat :
                   IsFiniteSet(T) /\ Cardinality(T) = n + 1
                     => \E m \in T : \A x \in T : x <= m}
<1>1. 0 \in P
  <2> SUFFICES ASSUME NEW T \in SUBSET Nat, IsFiniteSet(T), Cardinality(T) = 0 + 1
               PROVE  \E m \in T : \A x \in T : x <= m
    OBVIOUS
  <2> HIDE DEF P
  <2>0. Cardinality(T) = 1
    OBVIOUS
  <2>1. PICK a : T = {a}
    BY <2>0, FS_Singleton, Zenon
  <2>2. a \in T /\ \A x \in T : x <= a
    BY <2>1
  <2> QED BY <2>2
<1>2. ASSUME NEW n \in Nat, n \in P PROVE n + 1 \in P
  <2> SUFFICES ASSUME NEW T \in SUBSET Nat, IsFiniteSet(T), Cardinality(T) = n + 1 + 1
               PROVE  \E m \in T : \A x \in T : x <= m
    BY <1>2
  <2>1. T # {}
    BY FS_EmptySet
  <2>2. PICK a : a \in T
    BY <2>1
  <2>3. IsFiniteSet(T \ {a}) /\ Cardinality(T \ {a}) = n + 1 /\ T \ {a} \in SUBSET Nat
    BY <2>2, FS_RemoveElement
  <2>4. PICK m \in T \ {a} : \A x \in T \ {a} : x <= m
    BY <1>2, <2>3
  <2>5. CASE a <= m
    BY <2>2, <2>4, <2>5
  <2>6. CASE ~(a <= m)
    <3>1. \A x \in T : x <= a
      BY <2>2, <2>4, <2>6
    <3> QED BY <2>2, <3>1
  <2> QED BY <2>5, <2>6
<1> HIDE DEF P
<1>3. \A n \in Nat : n \in P
  BY <1>1, <1>2, NaturalsBySuccessor
<1>4. Cardinality(S) \in Nat /\ Cardinality(S) # 0
  BY FS_CardinalityType, FS_EmptySet
<1>5. Cardinality(S) - 1 \in P
  BY <1>3, <1>4
<1> QED BY <1>4, <1>5 DEF P

\* The members of a finite set of numbers can be listed in ascending order.
LEMMA AscendingExists ==
  ASSUME NEW S, S \subseteq Nat, IsFiniteSet(S)
  PROVE  \E y : Ascends(y, Cardinality(S), S)
<1> DEFINE P == {n \in Nat : \A T \in SUBSET Nat :
                   IsFiniteSet(T) /\ Cardinality(T) = n => \E y : Ascends(y, n, T)}
<1>1. 0 \in P
  <2> SUFFICES ASSUME NEW T \in SUBSET Nat, IsFiniteSet(T), Cardinality(T) = 0
               PROVE  \E y : Ascends(y, 0, T)
    OBVIOUS
  <2>1. T = {}
    BY FS_EmptySet
  <2>2. Ascends(<<>>, 0, T)
    BY <2>1 DEF Ascends
  <2> QED BY <2>2
<1>2. ASSUME NEW n \in Nat, n \in P PROVE n + 1 \in P
  <2> SUFFICES ASSUME NEW T \in SUBSET Nat, IsFiniteSet(T), Cardinality(T) = n + 1
               PROVE  \E y : Ascends(y, n + 1, T)
    BY <1>2
  <2>1. T # {}
    BY FS_EmptySet
  <2>2. PICK m \in T : \A x \in T : x <= m
    BY <2>1, LargestExists
  <2>3. IsFiniteSet(T \ {m}) /\ Cardinality(T \ {m}) = n /\ T \ {m} \in SUBSET Nat
    <3> HIDE DEF P
    <3>1. IsFiniteSet(T \ {m}) /\ Cardinality(T \ {m}) = Cardinality(T) - 1
      BY <2>2, FS_RemoveElement
    <3> QED BY <3>1
  <2>4. PICK y : Ascends(y, n, T \ {m})
    BY <1>2, <2>3
  <2> DEFINE z == [i \in 1..n + 1 |-> IF i = n + 1 THEN m ELSE y[i]]
  <2>5. \A i \in 1..n : y[i] \in T /\ y[i] # m /\ z[i] = y[i]
    BY <2>4 DEF Ascends
  <2>6. z[n + 1] = m
    OBVIOUS
  <2>7. z \in [1..n + 1 -> T]
    <3>1. \A i \in 1..n + 1 : (IF i = n + 1 THEN m ELSE y[i]) \in T
      <4> SUFFICES ASSUME NEW i \in 1..n + 1, i # n + 1 PROVE y[i] \in T
        BY <2>2
      <4>1. i \in 1..n
        OBVIOUS
      <4> QED BY <2>5, <4>1
    <3> HIDE DEF P
    <3> QED BY <3>1
  <2>8. \A x \in T : \E i \in 1..n + 1 : z[i] = x
    <3> SUFFICES ASSUME NEW x \in T PROVE \E i \in 1..n + 1 : z[i] = x
      OBVIOUS
    <3>1. CASE x = m
      BY <2>6, <3>1
    <3>2. CASE x # m
      <4>1. PICK i \in 1..n : y[i] = x
        BY <2>4, <3>2 DEF Ascends
      <4> QED BY <2>5, <4>1
    <3> QED BY <3>1, <3>2
  <2>9. \A i, j \in 1..n + 1 : i < j => z[i] < z[j]
    <3> SUFFICES ASSUME NEW i \in 1..n + 1, NEW j \in 1..n + 1, i < j
                 PROVE  z[i] < z[j]
      OBVIOUS
    <3>1. i \in 1..n
      OBVIOUS
    <3>2. CASE j = n + 1
      <4>1. z[i] \in Nat /\ m \in Nat /\ z[i] # m /\ z[i] <= m
        <5>1. z[i] \in T /\ z[i] # m
          BY <2>5, <3>1
        <5> HIDE DEF z, P
        <5> QED BY <2>2, <5>1
      <4>2. z[j] = m
        BY <2>6, <3>2
      <4> HIDE DEF z, P
      <4> QED BY <4>1, <4>2
    <3>3. CASE j # n + 1
      <4>1. j \in 1..n
        BY <3>3
      <4> QED BY <2>4, <2>5, <3>1, <4>1 DEF Ascends
    <3> QED BY <3>2, <3>3
  <2> HIDE DEF z
  <2>10. Ascends(z, n + 1, T)
    BY <2>7, <2>8, <2>9 DEF Ascends
  <2> QED BY <2>10
<1> HIDE DEF P
<1>3. \A n \in Nat : n \in P
  BY <1>1, <1>2, NaturalsBySuccessor
<1>4. Cardinality(S) \in Nat
  BY FS_CardinalityType
<1>5. Cardinality(S) \in P
  BY <1>3, <1>4
<1> QED BY <1>4, <1>5 DEF P

-----------------------------------------------------------------------------
(* Recursive functions *)

\* g gives the first n values after a, each from the one before.
Iterates(a, F, n, g) == g[0] = a /\ \A i \in 0..n - 1 : g[i + 1] = F[i][g[i]]

\* The values are determined by a and F.
LEMMA IteratesAgree ==
  ASSUME NEW a, NEW F, NEW n \in Nat, NEW m \in Nat, NEW g, NEW h,
         Iterates(a, F, n, g), Iterates(a, F, m, h)
  PROVE  \A i \in Nat : i <= n /\ i <= m => g[i] = h[i]
<1> DEFINE Q == {i \in Nat : i <= n /\ i <= m => g[i] = h[i]}
<1>1. 0 \in Q
  BY DEF Iterates
<1>2. ASSUME NEW i \in Nat, i \in Q PROVE i + 1 \in Q
  <2> SUFFICES ASSUME i + 1 <= n, i + 1 <= m PROVE g[i + 1] = h[i + 1]
    OBVIOUS
  <2>1. i \in 0..n - 1 /\ i \in 0..m - 1
    OBVIOUS
  <2>2. g[i] = h[i]
    BY <1>2
  <2> QED BY <2>1, <2>2 DEF Iterates
<1> HIDE DEF Q
<1>3. \A i \in Nat : i \in Q
  BY <1>1, <1>2, NaturalsBySuccessor
<1> QED BY <1>3 DEF Q

Advances(F, A) == F \in [Nat -> [A -> A]]
Follows(f, a, F, A) == f \in [Nat -> A] /\ f[0] = a /\ \A n \in Nat : f[n + 1] = F[n][f[n]]

\* A function on the natural numbers can be given by its first value and by how each
\* value follows from the one before.
LEMMA RecursionExists ==
  ASSUME NEW A, NEW a \in A, NEW F, Advances(F, A)
  PROVE  \E f : Follows(f, a, F, A)
<1>0. F \in [Nat -> [A -> A]]
  BY DEF Advances
<1> DEFINE P == {n \in Nat : \E g \in [0..n -> A] : Iterates(a, F, n, g)}
<1>1. 0 \in P
  <2> DEFINE g == [i \in 0..0 |-> a]
  <2>1. g \in [0..0 -> A] /\ Iterates(a, F, 0, g)
    BY DEF Iterates
  <2> HIDE DEF g
  <2> QED BY <2>1
<1>2. ASSUME NEW n \in Nat, n \in P PROVE n + 1 \in P
  <2>1. PICK g \in [0..n -> A] : Iterates(a, F, n, g)
    BY <1>2
  <2> DEFINE h == [i \in 0..n + 1 |-> IF i = n + 1 THEN F[n][g[n]] ELSE g[i]]
  <2>2. n \in 0..n /\ g[n] \in A /\ F[n] \in [A -> A]
    BY <1>0
  <2>3. F[n][g[n]] \in A
    BY <2>2
  <2>4. \A i \in 0..n + 1 : (IF i = n + 1 THEN F[n][g[n]] ELSE g[i]) \in A
    <3> SUFFICES ASSUME NEW i \in 0..n + 1, i # n + 1 PROVE g[i] \in A
      BY <2>3
    <3>1. i \in 0..n
      OBVIOUS
    <3> QED BY <3>1
  <2>5. h \in [0..n + 1 -> A]
    BY <2>4
  <2>6. h[n + 1] = F[n][g[n]] /\ \A i \in 0..n : h[i] = g[i]
    OBVIOUS
  <2> HIDE DEF h
  <2>7. Iterates(a, F, n + 1, h)
    <3>1. h[0] = a
      BY <2>1, <2>6 DEF Iterates
    <3>2. ASSUME NEW i \in 0..(n + 1) - 1 PROVE h[i + 1] = F[i][h[i]]
      <4>1. CASE i = n
        BY <2>2, <2>6, <4>1
      <4>2. CASE i # n
        <5>1. i \in 0..n - 1 /\ i \in 0..n /\ i + 1 \in 0..n
          BY <4>2
        <5> QED BY <2>1, <2>6, <5>1 DEF Iterates
      <4> QED BY <4>1, <4>2
    <3> QED BY <3>1, <3>2 DEF Iterates
  <2> QED BY <2>5, <2>7
<1> HIDE DEF P
<1>3. \A n \in Nat : n \in P
  BY <1>1, <1>2, NaturalsBySuccessor
<1> DEFINE G(n) == CHOOSE g \in [0..n -> A] : Iterates(a, F, n, g)
           f == [n \in Nat |-> G(n)[n]]
<1>4. \A n \in Nat : G(n) \in [0..n -> A] /\ Iterates(a, F, n, G(n))
  BY <1>3 DEF P
<1> HIDE DEF G
<1>5. f \in [Nat -> A]
  <2>1. \A n \in Nat : G(n)[n] \in A
    <3> SUFFICES ASSUME NEW n \in Nat PROVE G(n)[n] \in A
      OBVIOUS
    <3>1. n \in 0..n
      OBVIOUS
    <3> QED BY <1>4, <3>1
  <2> QED BY <2>1
<1>6. f[0] = a
  BY <1>4 DEF Iterates
<1>7. ASSUME NEW n \in Nat PROVE f[n + 1] = F[n][f[n]]
  <2>1. Iterates(a, F, n, G(n)) /\ Iterates(a, F, n + 1, G(n + 1)) /\ n + 1 \in Nat
    BY <1>4
  <2>2. G(n)[n] = G(n + 1)[n]
    BY <2>1, IteratesAgree
  <2>3. G(n + 1)[n + 1] = F[n][G(n + 1)[n]]
    <3>1. n \in 0..(n + 1) - 1
      OBVIOUS
    <3> QED BY <2>1, <3>1 DEF Iterates
  <2> QED BY <2>1, <2>2, <2>3
<1> HIDE DEF f
<1> QED BY <1>5, <1>6, <1>7 DEF Follows

-----------------------------------------------------------------------------
(* Distances *)

LEMMA SmallestExists ==
  ASSUME NEW T, T \subseteq Nat, T # {}
  PROVE  \E m \in T : \A x \in T : m <= x
<1> DEFINE R == {ss \in Nat \X Nat : ss[1] < ss[2]}
<1>1. IsWellFoundedOn(R, Nat)
  BY NaturalsAreWellFounded
<1>2. \A x, y \in Nat : x < y => <<x, y>> \in R
  OBVIOUS
<1>3. PICK m \in T : \A y \in T : ~(<<y, m>> \in R)
  <2> HIDE DEF R
  <2> QED BY <1>1, WFMin
<1>4. ASSUME NEW x \in T PROVE m <= x
  <2>1. x \in Nat /\ m \in Nat /\ ~(x < m)
    BY <1>2, <1>3
  <2> HIDE DEF R
  <2> QED BY <2>1
<1> QED BY <1>4

LEMMA MinOfNumbers ==
  ASSUME NEW T, T \subseteq Nat, T # {}
  PROVE  Min(T) \in T /\ \A x \in T : Min(T) <= x
BY SmallestExists DEF Min

LEMMA EvaluatedIsSame == ASSUME NEW f PROVE Evaluated(f) = f
BY DEF Evaluated

\* ways between the places S, with what each costs.
AreWays(ways, S) ==
  /\ IsFiniteSet(S)
  /\ DOMAIN ways = S
  /\ \A s \in S : \A w \in ways[s] : w[1] \in S /\ w[2] \in Nat

AreDistances(D, S) == D \in [S -> Nat]

LEMMA DistancesAreNat ==
  ASSUME NEW S, NEW D, AreDistances(D, S)
  PROVE  \A s \in S : D[s] \in Nat
BY DEF AreDistances

\* An improved distance is what was or what is offered over a place before, the least
\* of them.
LEMMA ImprovedIsLeast ==
  ASSUME NEW S, NEW ways, AreWays(ways, S), NEW D, AreDistances(D, S)
  PROVE  /\ AreDistances(Improved(ways, D), S)
         /\ \A s \in S :
              /\ \/ Improved(ways, D)[s] = D[s]
                 \/ \E w \in ways[s] : Improved(ways, D)[s] = D[w[1]] + w[2]
              /\ Improved(ways, D)[s] <= D[s]
              /\ \A w \in ways[s] : Improved(ways, D)[s] <= D[w[1]] + w[2]
<1>1. ASSUME NEW s \in S
      PROVE  /\ Offers(ways, D, s) \subseteq Nat
             /\ D[s] \in Offers(ways, D, s)
             /\ \A w \in ways[s] : D[w[1]] + w[2] \in Offers(ways, D, s)
             /\ \A x \in Offers(ways, D, s) :
                  x = D[s] \/ \E w \in ways[s] : x = D[w[1]] + w[2]
  <2>1. \A t \in S : D[t] \in Nat
    BY DistancesAreNat
  <2>2. \A w \in ways[s] : D[w[1]] + w[2] \in Nat
    BY <2>1 DEF AreWays
  <2> QED BY <2>1, <2>2 DEF Offers
<1>2. ASSUME NEW s \in S
      PROVE  /\ Min(Offers(ways, D, s)) \in Offers(ways, D, s)
             /\ \A x \in Offers(ways, D, s) : Min(Offers(ways, D, s)) <= x
  <2>1. Offers(ways, D, s) # {}
    BY <1>1
  <2> QED BY <1>1, <2>1, MinOfNumbers
<1>3. Improved(ways, D) = [s \in S |-> Min(Offers(ways, D, s))]
  BY EvaluatedIsSame DEF Improved, AreWays
<1>4. \A s \in S : Improved(ways, D)[s] = Min(Offers(ways, D, s))
  BY <1>3
<1>5. AreDistances(Improved(ways, D), S)
  <2>1. \A s \in S : Min(Offers(ways, D, s)) \in Nat
    BY <1>1, <1>2
  <2> QED BY <1>3, <2>1 DEF AreDistances
<1>6. ASSUME NEW s \in S
      PROVE  /\ \/ Improved(ways, D)[s] = D[s]
                \/ \E w \in ways[s] : Improved(ways, D)[s] = D[w[1]] + w[2]
             /\ Improved(ways, D)[s] <= D[s]
             /\ \A w \in ways[s] : Improved(ways, D)[s] <= D[w[1]] + w[2]
  <2> DEFINE m == Improved(ways, D)[s]
  <2>2. m \in Offers(ways, D, s) /\ \A x \in Offers(ways, D, s) : m <= x
    BY <1>2, <1>4
  <2> HIDE DEF m
  <2>3. m = D[s] \/ \E w \in ways[s] : m = D[w[1]] + w[2]
    BY <1>1, <2>2
  <2>4. m <= D[s]
    BY <1>1, <2>2
  <2>5. \A w \in ways[s] : m <= D[w[1]] + w[2]
    BY <1>1, <2>2
  <2> QED BY <2>3, <2>4, <2>5 DEF m
<1> QED BY <1>5, <1>6

AtStart(S, source, top) == [s \in S |-> IF s = source THEN 0 ELSE top]

\* D gives the distances after each number of rounds.
AreRounds(D, ways, S, source, top) ==
  /\ \A n \in Nat : AreDistances(D[n], S)
  /\ D[0] = AtStart(S, source, top)
  /\ \A n \in Nat : D[n + 1] = Improved(ways, D[n])

LEMMA RoundsByRound ==
  ASSUME NEW S, NEW ways, AreWays(ways, S), NEW source \in S, NEW top \in Nat
  PROVE  AreRounds(Rounds(ways, source, top), ways, S, source, top)
<1> DEFINE A == [S -> Nat]
           a == AtStart(S, source, top)
           F == [n \in Nat |-> [D \in A |-> Improved(ways, D)]]
           Step(D) == [n \in Nat |-> IF n = 0 THEN [s \in DOMAIN ways |-> IF s = source THEN 0 ELSE top]
                                     ELSE Improved(ways, D[n - 1])]
           R == CHOOSE D : D = Step(D)
<1>1. a \in A
  BY DEF AtStart
<1>2. Advances(F, A)
  <2>1. \A D \in A : Improved(ways, D) \in A
    BY ImprovedIsLeast DEF AreDistances
  <2> QED BY <2>1 DEF Advances
<1>3. PICK f : Follows(f, a, F, A)
  <2> HIDE DEF a, F, A
  <2> QED BY <1>1, <1>2, RecursionExists
<1>4. f \in [Nat -> A] /\ f[0] = a /\ \A n \in Nat : f[n + 1] = Improved(ways, f[n])
  <2>1. f \in [Nat -> A] /\ f[0] = a /\ \A n \in Nat : f[n + 1] = F[n][f[n]]
    <3> HIDE DEF F, a, A
    <3> QED BY <1>3 DEF Follows
  <2>2. \A n \in Nat : f[n] \in A
    <3> HIDE DEF F, a, A
    <3> QED BY <2>1
  <2>3. \A n \in Nat : \A D \in A : F[n][D] = Improved(ways, D)
    <3> HIDE DEF A
    <3> QED OBVIOUS
  <2> HIDE DEF F, a, A
  <2> QED BY <2>1, <2>2, <2>3
<1>5. f = Step(f)
  <2>1. f = [n \in Nat |-> f[n]]
    <3> HIDE DEF a, F, A
    <3> QED BY <1>4
  <2>2. \A n \in Nat : n # 0 => n - 1 \in Nat /\ (n - 1) + 1 = n
    OBVIOUS
  <2>3. \A n \in Nat : f[n] = IF n = 0 THEN a ELSE Improved(ways, f[n - 1])
    <3> HIDE DEF a, F, A
    <3> QED BY <1>4, <2>2
  <2>4. a = [s \in DOMAIN ways |-> IF s = source THEN 0 ELSE top]
    BY DEF AtStart, AreWays
  <2> HIDE DEF a, F, A
  <2> QED BY <2>1, <2>3, <2>4
<1>6. R = Step(R)
  <2> HIDE DEF Step
  <2> QED BY <1>5
<1>7. Rounds(ways, source, top) = R
  BY DEF Rounds
<1>8. \A n \in Nat : R[n] = IF n = 0 THEN a ELSE Improved(ways, R[n - 1])
  <2>1. a = [s \in DOMAIN ways |-> IF s = source THEN 0 ELSE top]
    BY DEF AtStart, AreWays
  <2> HIDE DEF a, R
  <2> QED BY <1>6, <2>1
<1>9. R[0] = a /\ \A n \in Nat : R[n + 1] = Improved(ways, R[n])
  <2>1. \A n \in Nat : n + 1 \in Nat /\ n + 1 # 0 /\ (n + 1) - 1 = n
    OBVIOUS
  <2> HIDE DEF R, a
  <2> QED BY <1>8, <2>1
<1> DEFINE P == {n \in Nat : AreDistances(R[n], S)}
<1>10. 0 \in P
  BY <1>1, <1>9 DEF AreDistances
<1>11. \A n \in Nat : n \in P => n + 1 \in P
  <2> HIDE DEF R
  <2> QED BY <1>9, ImprovedIsLeast
<1> HIDE DEF R
<1>12. \A n \in Nat : n \in P
  <2> HIDE DEF P
  <2> QED BY <1>10, <1>11, NaturalsBySuccessor
<1> QED BY <1>7, <1>9, <1>12 DEF AreRounds
-----------------------------------------------------------------------------

Grows(A, S) ==
  /\ \A n \in Nat : A[n] \subseteq S
  /\ \A n \in Nat : A[n] \subseteq A[n + 1]
  /\ \A n \in Nat : A[n + 1] = A[n] => A[n + 2] = A[n + 1]

\* A set that grows within a finite one, and stops growing once it has not grown, is
\* complete after as many steps as there are elements.
LEMMA GrowthEnds ==
  ASSUME NEW S, IsFiniteSet(S), NEW A, Grows(A, S)
  PROVE  \A n \in Nat : A[n] \subseteq A[Cardinality(S)]
<1> DEFINE N == Cardinality(S)
           P == {n \in Nat : A[n + 1] = A[n] \/ Cardinality(A[n + 1]) >= n + 1}
           Stops(k) == {n \in Nat : A[k + n] = A[k] /\ A[k + n + 1] = A[k]}
<1>1. N \in Nat
  BY FS_CardinalityType
<1>2. ASSUME NEW n \in Nat
      PROVE  IsFiniteSet(A[n]) /\ Cardinality(A[n]) \in Nat /\ Cardinality(A[n]) <= N
  <2>1. A[n] \subseteq S
    BY DEF Grows
  <2> QED BY <2>1, FS_Subset, FS_CardinalityType
<1>3. ASSUME NEW n \in Nat, A[n + 1] # A[n]
      PROVE  Cardinality(A[n + 1]) >= Cardinality(A[n]) + 1
  <2>1. A[n] \subseteq A[n + 1] /\ IsFiniteSet(A[n + 1]) /\ n + 1 \in Nat
    BY <1>2 DEF Grows
  <2>2. Cardinality(A[n]) <= Cardinality(A[n + 1]) /\ Cardinality(A[n]) # Cardinality(A[n + 1])
    BY <1>3, <2>1, FS_Subset
  <2> QED BY <1>2, <2>1, <2>2
<1>4. 0 \in P
  <2>1. 0 + 1 \in Nat /\ 0 \in Nat
    OBVIOUS
  <2>2. Cardinality(A[0]) \in Nat
    BY <1>2, <2>1
  <2>3. A[0 + 1] = A[0] \/ Cardinality(A[0 + 1]) >= Cardinality(A[0]) + 1
    BY <1>3, <2>1
  <2>4. Cardinality(A[0 + 1]) \in Nat
    BY <1>2, <2>1
  <2> QED BY <2>1, <2>2, <2>3, <2>4
<1>5. ASSUME NEW n \in Nat, n \in P PROVE n + 1 \in P
  <2>1. CASE A[n + 1] = A[n]
    BY <2>1 DEF Grows
  <2>2. CASE A[n + 1] # A[n]
    <3>1. Cardinality(A[n + 1]) >= n + 1
      BY <1>5, <2>2
    <3>2. n + 1 \in Nat /\ (n + 1) + 1 \in Nat
      OBVIOUS
    <3>3. Cardinality(A[n + 1]) \in Nat /\ Cardinality(A[(n + 1) + 1]) \in Nat
      BY <1>2, <3>2
    <3>4. A[(n + 1) + 1] = A[n + 1] \/ Cardinality(A[(n + 1) + 1]) >= Cardinality(A[n + 1]) + 1
      BY <1>3, <3>2
    <3> QED BY <3>1, <3>2, <3>3, <3>4
  <2> QED BY <2>1, <2>2
<1>6. \A n \in Nat : n \in P
  <2> HIDE DEF P
  <2> QED BY <1>4, <1>5, NaturalsBySuccessor
<1>7. A[N + 1] = A[N]
  <2>1. N \in P /\ N + 1 \in Nat
    BY <1>1, <1>6
  <2>2. Cardinality(A[N + 1]) \in Nat /\ Cardinality(A[N + 1]) <= N
    BY <1>2, <2>1
  <2> HIDE DEF N
  <2> QED BY <1>1, <2>1, <2>2
<1> HIDE DEF N, P
<1>8. \A n \in Nat : n \in Stops(N)
  <2>1. 0 \in Stops(N)
    <3>1. N + 0 = N /\ N + 0 + 1 = N + 1
      BY <1>1
    <3> QED BY <1>7, <3>1
  <2>2. ASSUME NEW n \in Nat, n \in Stops(N) PROVE n + 1 \in Stops(N)
    <3>1. N + n \in Nat /\ N + (n + 1) = N + n + 1 /\ N + (n + 1) + 1 = N + n + 2
      BY <1>1
    <3>2. A[N + n] = A[N] /\ A[N + n + 1] = A[N]
      BY <2>2
    <3>3. A[N + n + 2] = A[N + n + 1]
      BY <3>1, <3>2 DEF Grows
    <3> QED BY <3>1, <3>2, <3>3
  <2> HIDE DEF Stops
  <2> QED BY <2>1, <2>2, NaturalsBySuccessor
\* Before it is complete the set has no more than when it is.
<1> DEFINE B == {n \in Nat : \A m \in Nat : A[m] \subseteq A[m + n]}
<1>9. \A n \in Nat : n \in B
  <2>1. 0 \in B
    <3>1. \A m \in Nat : m + 0 = m
      OBVIOUS
    <3> QED BY <3>1
  <2>2. ASSUME NEW n \in Nat, n \in B PROVE n + 1 \in B
    <3> SUFFICES ASSUME NEW m \in Nat PROVE A[m] \subseteq A[m + (n + 1)]
      OBVIOUS
    <3>1. m + n \in Nat /\ m + (n + 1) = m + n + 1
      OBVIOUS
    <3>2. A[m] \subseteq A[m + n]
      BY <2>2
    <3>3. A[m + n] \subseteq A[m + n + 1]
      BY <3>1 DEF Grows
    <3> QED BY <3>1, <3>2, <3>3
  <2> HIDE DEF B
  <2> QED BY <2>1, <2>2, NaturalsBySuccessor
<1> TAKE n \in Nat
<1>10. CASE n <= N
  <2>1. N - n \in Nat /\ n + (N - n) = N
    BY <1>1, <1>10
  <2>2. A[n] \subseteq A[n + (N - n)]
    BY <1>9, <2>1
  <2> QED BY <2>1, <2>2 DEF N
<1>11. CASE ~(n <= N)
  <2>1. n - N \in Nat /\ N + (n - N) = n
    BY <1>1, <1>11
  <2>2. A[N + (n - N)] = A[N]
    BY <1>8, <2>1
  <2> QED BY <2>1, <2>2 DEF N
<1> QED BY <1>10, <1>11
-----------------------------------------------------------------------------

\* D promises of no place more than a way over another, and each distance is that of
\* some way.
IsSolution(D, ways, S, source) ==
  /\ AreDistances(D, S)
  /\ D[source] = 0
  /\ \A s \in S : \A w \in ways[s] : D[s] <= D[w[1]] + w[2]

IsAttained(D, R, S) == \A s \in S : \E n \in Nat : R[n][s] <= D[s]

\* No distance after any number of rounds is less than one that solves the equations.
LEMMA RoundsAreNotLess ==
  ASSUME NEW S, NEW ways, AreWays(ways, S), NEW source \in S, NEW top \in Nat,
         NEW R, AreRounds(R, ways, S, source, top),
         NEW D, IsSolution(D, ways, S, source), \A s \in S : D[s] <= top
  PROVE  \A n \in Nat : \A s \in S : D[s] <= R[n][s]
<1> DEFINE P == {n \in Nat : \A s \in S : D[s] <= R[n][s]}
<1>1. AreDistances(D, S) /\ \A n \in Nat : AreDistances(R[n], S)
  BY DEF IsSolution, AreRounds
<1>2. \A s \in S : D[s] \in Nat
  BY <1>1, DistancesAreNat
<1>3. \A n \in Nat : \A s \in S : R[n][s] \in Nat
  BY <1>1, DistancesAreNat
<1>4. 0 \in P
  <2>1. \A s \in S : R[0][s] = IF s = source THEN 0 ELSE top
    BY DEF AreRounds, AtStart
  <2> QED BY <1>2, <2>1 DEF IsSolution
<1>5. ASSUME NEW n \in Nat, n \in P PROVE n + 1 \in P
  <2> SUFFICES ASSUME NEW s \in S PROVE D[s] <= R[n + 1][s]
    OBVIOUS
  <2>1. R[n + 1] = Improved(ways, R[n]) /\ AreDistances(R[n], S)
    BY DEF AreRounds
  <2>2. R[n + 1][s] = R[n][s] \/ \E w \in ways[s] : R[n + 1][s] = R[n][w[1]] + w[2]
    BY <2>1, ImprovedIsLeast
  <2>3. ASSUME NEW w \in ways[s], R[n + 1][s] = R[n][w[1]] + w[2]
        PROVE  D[s] <= R[n + 1][s]
    <3>1. w[1] \in S /\ w[2] \in Nat
      BY DEF AreWays
    <3>2. D[s] <= D[w[1]] + w[2]
      BY DEF IsSolution
    <3>3. D[w[1]] <= R[n][w[1]] /\ D[w[1]] \in Nat /\ R[n][w[1]] \in Nat /\ D[s] \in Nat
      BY <1>2, <1>3, <1>5, <3>1
    <3> QED BY <2>3, <3>1, <3>2, <3>3
  <2>4. D[s] <= R[n][s]
    BY <1>5
  <2> QED BY <2>2, <2>3, <2>4
<1> HIDE DEF P
<1>6. \A n \in Nat : n \in P
  BY <1>4, <1>5, NaturalsBySuccessor
<1> QED BY <1>6 DEF P

\* Distances that solve the equations and are attained are the shortest.
LEMMA SolutionIsShortest ==
  ASSUME NEW S, NEW ways, AreWays(ways, S), NEW source \in S, NEW top \in Nat,
         NEW D, IsSolution(D, ways, S, source), \A s \in S : D[s] <= top,
         IsAttained(D, Rounds(ways, source, top), S)
  PROVE  \A s \in S : Shortest(ways, source, top)[s] = D[s]
<1>1. PICK R : R = Rounds(ways, source, top)
  OBVIOUS
<1>2. AreRounds(R, ways, S, source, top)
  BY <1>1, RoundsByRound
<1> DEFINE A == [n \in Nat |-> {s \in S : R[n][s] = D[s]}]
           N == Cardinality(S)
<1>3. \A n \in Nat : \A s \in S : D[s] <= R[n][s]
  BY <1>2, RoundsAreNotLess
<1>4. \A n \in Nat : AreDistances(R[n], S) /\ R[n + 1] = Improved(ways, R[n])
  BY <1>2 DEF AreRounds
<1>5. \A s \in S : D[s] \in Nat
  BY DistancesAreNat DEF IsSolution
<1>6. \A n \in Nat : \A s \in S : R[n][s] \in Nat
  BY <1>4, DistancesAreNat
<1>7. ASSUME NEW n \in Nat
      PROVE  \A s \in S :
               /\ R[n + 1][s] <= R[n][s]
               /\ \A w \in ways[s] : R[n + 1][s] <= R[n][w[1]] + w[2]
               /\ R[n + 1][s] = R[n][s] \/ \E w \in ways[s] : R[n + 1][s] = R[n][w[1]] + w[2]
  <2>1. R[n + 1] = Improved(ways, R[n]) /\ AreDistances(R[n], S)
    BY <1>4
  <2> QED BY <2>1, ImprovedIsLeast
<1>8. \A n \in Nat : A[n] = {s \in S : R[n][s] = D[s]}
  OBVIOUS
<1>9. ASSUME NEW n \in Nat PROVE A[n] \subseteq A[n + 1]
  <2> SUFFICES ASSUME NEW s \in S, R[n][s] = D[s] PROVE R[n + 1][s] = D[s]
    BY <1>8
  <2>1. n + 1 \in Nat
    OBVIOUS
  <2>2. R[n + 1][s] \in Nat /\ D[s] \in Nat /\ D[s] <= R[n + 1][s]
    BY <1>3, <1>5, <1>6, <2>1
  <2>3. R[n + 1][s] <= D[s]
    BY <1>7
  <2> QED BY <2>2, <2>3
<1>10. ASSUME NEW n \in Nat, A[n + 1] = A[n] PROVE A[n + 2] = A[n + 1]
  <2>1. n + 1 \in Nat /\ (n + 1) + 1 = n + 2 /\ n + 2 \in Nat
    OBVIOUS
  <2>2. A[n + 1] \subseteq A[n + 2]
    BY <1>9, <2>1
  <2>3. ASSUME NEW s \in S, R[n + 2][s] = D[s] PROVE R[n + 1][s] = D[s]
    <3>1. R[n + 2][s] = R[n + 1][s] \/ \E w \in ways[s] : R[n + 2][s] = R[n + 1][w[1]] + w[2]
      BY <1>7, <2>1
    <3>2. ASSUME NEW w \in ways[s], R[n + 2][s] = R[n + 1][w[1]] + w[2]
          PROVE  R[n + 1][s] = D[s]
      <4> DEFINE t == w[1]
                 d == w[2]
      <4>1. t \in S /\ d \in Nat
        BY DEF AreWays
      <4>2. D[s] <= D[t] + d
        BY DEF IsSolution
      <4> HIDE DEF t, d
      <4>3. D[t] <= R[n + 1][t] /\ D[t] \in Nat /\ R[n + 1][t] \in Nat /\ D[s] \in Nat
            /\ R[n + 1][s] \in Nat /\ D[s] <= R[n + 1][s]
        BY <1>3, <1>5, <1>6, <2>1, <4>1
      <4>4. D[s] = R[n + 1][t] + d
        BY <2>3, <3>2 DEF t, d
      <4>5. R[n + 1][t] = D[t]
        BY <4>1, <4>2, <4>3, <4>4
      <4>6. R[n][t] = D[t]
        BY <1>8, <1>10, <2>1, <4>1, <4>5
      <4>7. R[n + 1][s] <= R[n][t] + d
        BY <1>7 DEF t, d
      <4> QED BY <4>1, <4>3, <4>4, <4>5, <4>6, <4>7
    <3> QED BY <2>3, <3>1, <3>2
  <2>4. A[n + 2] = {s \in S : R[n + 2][s] = D[s]} /\ A[n + 1] = {s \in S : R[n + 1][s] = D[s]}
    BY <1>8, <2>1
  <2> HIDE DEF A
  <2> QED BY <2>2, <2>3, <2>4
<1> HIDE DEF A
<1>11. Grows(A, S)
  BY <1>8, <1>9, <1>10 DEF Grows
<1>12. IsFiniteSet(S) /\ N \in Nat /\ DOMAIN ways = S
  BY FS_CardinalityType DEF AreWays
<1>13. \A n \in Nat : A[n] \subseteq A[N]
  BY <1>11, <1>12, GrowthEnds
<1>14. ASSUME NEW s \in S PROVE R[N][s] = D[s]
  <2>1. PICK n \in Nat : R[n][s] <= D[s]
    BY <1>1 DEF IsAttained
  <2>2. R[n][s] = D[s]
    <3>1. R[n][s] \in Nat /\ D[s] \in Nat /\ D[s] <= R[n][s]
      BY <1>3, <1>5, <1>6
    <3> QED BY <2>1, <3>1
  <2> QED BY <1>8, <1>12, <1>13, <2>2
<1> QED BY <1>1, <1>12, <1>14 DEF Shortest
=============================================================================
