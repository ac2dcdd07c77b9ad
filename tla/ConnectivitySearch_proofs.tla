---------------------- MODULE ConnectivitySearch_proofs ----------------------
(***************************************************************************)
(* Whatever chains there are, however they change, and however often the   *)
(* epoch wraps around: a search takes a chain for visited exactly when it  *)
(* has visited it, visits none twice, and what it finds is what can be     *)
(* reached.                                                                *)
(***************************************************************************)
EXTENDS ConnectivitySearch, SharedLemmas, SequenceTheorems, TLAPS

LEMMA LinksFacts ==
  ASSUME NEW l \in Links
  PROVE  /\ \A s \in Slots(l) : s[1] \in Chains(l) /\ Opp(s) \in Slots(l) /\ l[s] \subseteq Slots(l)
         /\ \A w \in Chains(l) : <<w, "A">> \in Slots(l) /\ <<w, "B">> \in Slots(l)
         /\ Chains(l) \subseteq Nat
<1>1. Slots(l) = Chains(l) \X Ends /\ Chains(l) \subseteq Nat
      /\ l \in [Chains(l) \X Ends -> SUBSET (Chains(l) \X Ends)]
  BY LinksAssumption DEF IsLinks, Slots
<1>2. ASSUME NEW s \in Slots(l)
      PROVE  s[1] \in Chains(l) /\ Opp(s) \in Slots(l) /\ l[s] \subseteq Slots(l)
  BY <1>1 DEF Opp, Ends
<1>3. ASSUME NEW w \in Chains(l)
      PROVE  <<w, "A">> \in Slots(l) /\ <<w, "B">> \in Slots(l)
  BY <1>1 DEF Ends
<1> QED BY <1>1, <1>2, <1>3

\* Taking the last of a list, and adding to it.
LEMMA WithoutLast ==
  ASSUME NEW S, NEW x \in Seq(S), x # <<>>
  PROVE  x[Len(x)] \in S /\ SubSeq(x, 1, Len(x) - 1) \in Seq(S)
<1>1. Len(x) \in Nat /\ Len(x) > 0
  OBVIOUS
<1> QED BY <1>1

LEMMA Appended ==
  ASSUME NEW S, NEW x \in Seq(S), NEW e \in S
  PROVE  /\ Append(x, e) \in Seq(S)
         /\ Len(Append(x, e)) = Len(x) + 1 /\ Len(x) \in Nat
         /\ \A i \in 1..Len(x) : Append(x, e)[i] = x[i]
         /\ Append(x, e)[Len(x) + 1] = e
OBVIOUS

SearchInv == TypeOK /\ MarksAreOfThisSearch /\ VisitedOnce

LEMMA AtInit == Init => SearchInv
<1> SUFFICES ASSUME Init
             PROVE  SearchInv
  OBVIOUS
<1>1. /\ ngs \in Links /\ mark = [w \in {} |-> 0] /\ epoch = 0 /\ answer = FALSE /\ call = "slot" /\ pc = "idle"
      /\ EpochMod \in Nat /\ EpochMod > 1
  BY EpochAssumption DEF Init
<1>2. DOMAIN mark = {}
  <2>1. mark = [w \in {} |-> 0]
    BY <1>1
  <2>2. DOMAIN [w \in {} |-> 0] = {}
    OBVIOUS
  <2> QED BY <2>1, <2>2, Zenon
<1>3. pc # "searching"
  BY <1>1
<1>4. TypeOK
  <2>1. epoch \in 0..EpochMod - 1
    BY <1>1
  <2>2. DOMAIN mark \subseteq Nat /\ \A w \in DOMAIN mark : mark[w] \in 0..epoch
    BY <1>2
  <2>3. answer \in BOOLEAN /\ call \in {"slot", "chain", "dfs"}
        /\ pc \in {"idle", "searching", "done"}
    BY <1>1
  <2> QED BY <1>1, <1>3, <2>1, <2>2, <2>3 DEF TypeOK
<1> QED BY <1>3, <1>4 DEF SearchInv, MarksAreOfThisSearch, VisitedOnce

\* A new epoch is one that no chain is marked with.
LEMMA ResetMarksOnlyFirst ==
  ASSUME SearchInv, NEW w \in Chains(ngs), ResetSearch(w)
  PROVE  /\ epoch' \in 1..EpochMod - 1
         /\ DOMAIN mark' = (DOMAIN mark) \cup Chains(ngs)
         /\ \A x \in DOMAIN mark' : mark'[x] \in 0..epoch' /\ (mark'[x] = epoch' <=> x = w)
         /\ reached' = <<w>>
<1>1. /\ epoch \in 0..EpochMod - 1 /\ EpochMod \in Nat /\ EpochMod > 1
      /\ \A x \in DOMAIN mark : mark[x] \in 0..epoch
  BY EpochAssumption DEF SearchInv, TypeOK
<1>2. DOMAIN Resized = (DOMAIN mark) \cup Chains(ngs)
  BY DEF Resized
<1>3. \A x \in DOMAIN Resized : Resized[x] \in 0..epoch
  BY <1>1 DEF Resized
<1>4. CASE epoch + 1 = EpochMod
  <2>1. epoch' = 1 /\ mark' = [x \in DOMAIN Resized |-> IF x = w THEN 1 ELSE 0] /\ reached' = <<w>>
    BY <1>4 DEF ResetSearch
  <2> QED BY <1>1, <1>2, <2>1
<1>5. CASE epoch + 1 # EpochMod
  <2>1. epoch' = epoch + 1 /\ mark' = [Resized EXCEPT ![w] = epoch + 1] /\ reached' = <<w>>
    BY <1>5 DEF ResetSearch
  <2>2. DOMAIN mark' = DOMAIN Resized
    BY <2>1
  <2>3. \A x \in DOMAIN Resized : mark'[x] = IF x = w THEN epoch + 1 ELSE Resized[x]
    BY <2>1
  <2> QED BY <1>1, <1>2, <1>3, <1>5, <2>1, <2>2, <2>3
<1> QED BY <1>4, <1>5

LEMMA BeginKeepsInv ==
  ASSUME SearchInv, NEW s \in Slots(ngs), NEW t, NEW what \in {"slot", "chain", "dfs"},
         NEW more \in Slots(ngs) \cup {NoSlot}, Begin(s, t, what, more)
  PROVE  SearchInv'
<1>1. ngs \in Links /\ ngs' = ngs /\ ResetSearch(s[1]) /\ todo' = <<s>> /\ pending' = {}
      /\ answer' = FALSE /\ call' = what /\ second' = more /\ pc' = "searching"
  BY DEF Begin, SearchInv, TypeOK
<1>2. s[1] \in Chains(ngs) /\ Chains(ngs) \subseteq Nat
  BY <1>1, LinksFacts
<1>3. /\ epoch' \in 1..EpochMod - 1
      /\ DOMAIN mark' = (DOMAIN mark) \cup Chains(ngs)
      /\ \A x \in DOMAIN mark' : mark'[x] \in 0..epoch' /\ (mark'[x] = epoch' <=> x = s[1])
      /\ reached' = <<s[1]>>
  BY <1>1, <1>2, ResetMarksOnlyFirst
<1>4. DOMAIN mark \subseteq Nat
  BY DEF SearchInv, TypeOK
<1>5. SearchTypeOK'
  BY <1>1, <1>2, <1>3 DEF SearchTypeOK
<1>6. TypeOK'
  <2>1. DOMAIN mark' \subseteq Nat
    BY <1>2, <1>3, <1>4
  <2>2. epoch' \in 0..EpochMod - 1
    BY <1>3, EpochAssumption
  <2>3. \A w \in DOMAIN mark' : mark'[w] \in 0..epoch'
    BY <1>3
  <2>4. call' \in {"slot", "chain", "dfs"}
    BY <1>1
  <2> QED BY <1>1, <1>5, <2>1, <2>2, <2>3, <2>4 DEF TypeOK
<1>7. MarksAreOfThisSearch'
  BY <1>1, <1>2, <1>3 DEF MarksAreOfThisSearch
<1>8. VisitedOnce'
  BY <1>3 DEF VisitedOnce
<1> QED BY <1>6, <1>7, <1>8 DEF SearchInv

\* A neighbour is passed by or visited.
LEMMA LookAtKeepsInv ==
  ASSUME SearchInv, pc = "searching", NEW n \in pending, LookAt(n),
         UNCHANGED <<ngs, epoch, from, target, call, second>>
  PROVE  SearchInv'
<1>1. SearchTypeOK /\ TypeOK /\ MarksAreOfThisSearch /\ VisitedOnce /\ ngs \in Links
  BY DEF SearchInv, TypeOK
<1>2. n \in Slots(ngs) /\ n[1] \in Chains(ngs) /\ Opp(n) \in Slots(ngs)
  BY <1>1, LinksFacts DEF SearchTypeOK
<1>3. CASE n = target
  <2>1. answer' = TRUE /\ pc' = "done" /\ mark' = mark
    BY <1>3 DEF LookAt, Found
  <2> QED BY <1>1, <2>1 DEF SearchInv, TypeOK, MarksAreOfThisSearch, VisitedOnce
<1>4. CASE n # target /\ mark[n[1]] = epoch
  <2>1. pending' = pending \ {n} /\ UNCHANGED <<mark, reached, todo, answer, pc>>
    BY <1>4 DEF LookAt
  <2> QED BY <1>1, <2>1 DEF SearchInv, TypeOK, SearchTypeOK, MarksAreOfThisSearch, VisitedOnce
<1>5. CASE n # target /\ mark[n[1]] # epoch
  <2>1. /\ pending' = pending \ {n} /\ answer' = answer /\ pc' = pc
        /\ mark' = [mark EXCEPT ![n[1]] = epoch]
        /\ reached' = Append(reached, n[1])
        /\ todo' = Append(todo, Opp(n))
    BY <1>5 DEF LookAt, Visit
  <2>2. n[1] \in DOMAIN mark
    BY <1>1, <1>2 DEF SearchTypeOK
  <2>3. DOMAIN mark' = DOMAIN mark
        /\ \A x \in DOMAIN mark : mark'[x] = IF x = n[1] THEN epoch ELSE mark[x]
    BY <2>1, <2>2
  <2>4. reached \in Seq(Chains(ngs)) /\ todo \in Seq(Slots(ngs))
    BY <1>1 DEF SearchTypeOK
  <2>5. /\ reached' \in Seq(Chains(ngs))
        /\ Len(reached') = Len(reached) + 1 /\ Len(reached) \in Nat
        /\ \A i \in 1..Len(reached) : reached'[i] = reached[i]
        /\ reached'[Len(reached) + 1] = n[1]
    BY <1>2, <2>1, <2>4, Appended
  <2>6. todo' \in Seq(Slots(ngs))
    BY <1>2, <2>1, <2>4, Appended
  <2>7. \A i \in 1..Len(reached) : reached[i] # n[1]
    BY <1>1, <1>2, <1>5 DEF MarksAreOfThisSearch
  <2>8. SearchTypeOK'
    BY <1>1, <2>1, <2>3, <2>5, <2>6 DEF SearchTypeOK
  <2>9. TypeOK'
    BY <1>1, <2>1, <2>3, <2>8 DEF TypeOK, SearchTypeOK
  <2>10. MarksAreOfThisSearch'
    <3>1. ASSUME NEW w \in Chains(ngs)
          PROVE  mark'[w] = epoch <=> \E i \in 1..Len(reached') : reached'[i] = w
      <4>1. w \in DOMAIN mark
        BY <1>1 DEF SearchTypeOK
      <4>2. CASE w = n[1]
        BY <2>2, <2>3, <2>5, <4>2
      <4>3. CASE w # n[1]
        <5>1. mark'[w] = mark[w]
          BY <2>3, <4>1, <4>3
        <5>2. (\E i \in 1..Len(reached') : reached'[i] = w) <=> \E i \in 1..Len(reached) : reached[i] = w
          BY <2>5, <4>3
        <5> QED BY <1>1, <5>1, <5>2 DEF MarksAreOfThisSearch
      <4> QED BY <4>2, <4>3
    <3> QED BY <3>1 DEF MarksAreOfThisSearch
  <2>11. VisitedOnce'
    <3>1. ASSUME NEW i \in 1..Len(reached) + 1, NEW j \in 1..Len(reached) + 1,
                 reached'[i] = reached'[j]
          PROVE  i = j
      BY <1>1, <2>5, <2>7, <3>1 DEF VisitedOnce
    <3> QED BY <2>5, <3>1 DEF VisitedOnce
  <2> QED BY <2>9, <2>10, <2>11 DEF SearchInv
<1> QED BY <1>3, <1>4, <1>5

LEMMA TakeKeepsInv == SearchInv /\ Take => SearchInv'
<1> SUFFICES ASSUME SearchInv, Take PROVE SearchInv'
  OBVIOUS
<1> DEFINE s == todo[Len(todo)]
<1>1. TypeOK /\ SearchTypeOK /\ MarksAreOfThisSearch /\ VisitedOnce /\ ngs \in Links
      /\ UNCHANGED <<ngs, mark, epoch, reached, from, target, call, second>>
      /\ todo # <<>> /\ pc = "searching"
  BY DEF SearchInv, TypeOK, Take
<1>2. s \in Slots(ngs) /\ SubSeq(todo, 1, Len(todo) - 1) \in Seq(Slots(ngs))
  BY <1>1, WithoutLast DEF SearchTypeOK
<1>3. CASE s = target
  <2>1. answer' = TRUE /\ pc' = "done"
    BY <1>3 DEF Take, Found
  <2> QED BY <1>1, <2>1 DEF SearchInv, TypeOK, MarksAreOfThisSearch, VisitedOnce
<1>4. CASE s # target
  <2>1. pending' = ngs[s] /\ todo' = SubSeq(todo, 1, Len(todo) - 1) /\ answer' = answer /\ pc' = pc
    BY <1>4 DEF Take
  <2>2. pending' \subseteq Slots(ngs)
    BY <1>1, <1>2, <2>1, LinksFacts
  <2>3. todo' \in Seq(Slots(ngs))
    BY <1>2, <2>1
  <2>4. SearchTypeOK'
    BY <1>1, <2>2, <2>3 DEF SearchTypeOK
  <2> QED BY <1>1, <2>1, <2>4 DEF SearchInv, TypeOK, MarksAreOfThisSearch, VisitedOnce
<1> QED BY <1>3, <1>4

LEMMA AtStep == SearchInv /\ [Next]_vars => SearchInv'
<1> SUFFICES ASSUME SearchInv, [Next]_vars PROVE SearchInv'
  OBVIOUS
<1>0. ngs \in Links
  BY DEF SearchInv, TypeOK
<1>1. ASSUME FindConnectedSlot PROVE SearchInv'
  BY <1>1, BeginKeepsInv DEF FindConnectedSlot, FindFromSlot
<1>2. ASSUME NEW w \in Chains(ngs), FindFromChain(w) PROVE SearchInv'
  <2>1. <<w, "A">> \in Slots(ngs) /\ <<w, "B">> \in Slots(ngs)
    BY <1>0, LinksFacts
  <2> QED BY <1>2, <2>1, BeginKeepsInv DEF FindFromChain
<1>3. ASSUME Dfs PROVE SearchInv'
  BY <1>3, BeginKeepsInv DEF Dfs, DfsTo
<1>4. ASSUME DfsAtOnce PROVE SearchInv'
  BY <1>4 DEF DfsAtOnce, DfsToItself, SearchInv, TypeOK, MarksAreOfThisSearch, VisitedOnce
<1>5. ASSUME Take PROVE SearchInv'
  BY <1>5, TakeKeepsInv
<1>6. ASSUME LookAtNeighbour PROVE SearchInv'
  BY <1>6, LookAtKeepsInv DEF LookAtNeighbour
<1>7. ASSUME SearchOn PROVE SearchInv'
  <2>1. second \in Slots(ngs) /\ TypeOK /\ SearchTypeOK
    BY <1>7 DEF SearchOn, SearchInv, TypeOK, SearchTypeOK
  <2>2. todo' \in Seq(Slots(ngs)) /\ second' = NoSlot
    BY <1>7, <2>1 DEF SearchOn
  <2> QED BY <1>7, <2>1, <2>2
          DEF SearchOn, SearchInv, TypeOK, SearchTypeOK, MarksAreOfThisSearch, VisitedOnce
<1>8. ASSUME EndSearch PROVE SearchInv'
  BY <1>8 DEF EndSearch, SearchInv, TypeOK, MarksAreOfThisSearch, VisitedOnce
<1>9. ASSUME ChangeChains PROVE SearchInv'
  BY <1>9 DEF ChangeChains, SearchInv, TypeOK, MarksAreOfThisSearch, VisitedOnce
<1>10. ASSUME UNCHANGED vars PROVE SearchInv'
  BY <1>10 DEF vars, SearchInv, TypeOK, SearchTypeOK, MarksAreOfThisSearch, VisitedOnce
<1> QED BY <1>1, <1>2, <1>3, <1>4, <1>5, <1>6, <1>7, <1>8, <1>9, <1>10
        DEF Next, FindConnectedChain

LEMMA SearchInvAlways == Spec => []SearchInv
BY AtInit, AtStep, PTL DEF Spec

\* The epoch may wrap around at any time and the chains may change between
\* searches: a mark left by an earlier search is never taken for one of this.
THEOREM ConnectivityMarksAreOfThisSearch == Spec => []MarksAreOfThisSearch
<1>1. SearchInv => MarksAreOfThisSearch
  BY DEF SearchInv
<1> QED BY <1>1, SearchInvAlways, PTL

\* No search visits a chain twice.
THEOREM ConnectivityVisitedOnce == Spec => []VisitedOnce
<1>1. SearchInv => VisitedOnce
  BY DEF SearchInv
<1> QED BY <1>1, SearchInvAlways, PTL

\* The search keeps its types, any marks, epoch and queue included (connectivity.h).
THEOREM ConnectivityTypeOK == Spec => []TypeOK
<1>1. SearchInv => TypeOK
  BY DEF SearchInv
<1> QED BY <1>1, SearchInvAlways, PTL

-----------------------------------------------------------------------------
(* What can be reached *)

LEMMA NoSlotIsNone == \A l \in Links : NoSlot \notin Slots(l)
<1> SUFFICES ASSUME NEW l \in Links, NoSlot \in Slots(l) PROVE FALSE
  OBVIOUS
<1>1. Slots(l) = Chains(l) \X Ends
  BY LinksAssumption DEF IsLinks, Slots
<1>2. "none" \in Ends
  BY <1>1 DEF NoSlot
<1> QED BY <1>2 DEF Ends

\* The two ends of a chain, and the ends at one vertex.
LEMMA EndsOfAChain ==
  ASSUME NEW l \in Links
  PROVE  /\ \A s \in Slots(l) : Opp(s)[1] = s[1] /\ Opp(s) # s /\ Opp(Opp(s)) = s
         /\ \A s, t \in Slots(l) : s[1] = t[1] => s = t \/ s = Opp(t)
         /\ \A s \in Slots(l) : \A t \in l[s] : l[t] = (l[s] \ {t}) \cup {s}
<1>1. Slots(l) = Chains(l) \X Ends
      /\ \A s \in Slots(l) : \A t \in l[s] : l[t] = (l[s] \ {t}) \cup {s}
  BY LinksAssumption DEF IsLinks, Slots
<1>2. \A s \in Slots(l) : Opp(s)[1] = s[1] /\ Opp(s) # s /\ Opp(Opp(s)) = s
  <2> SUFFICES ASSUME NEW s \in Slots(l)
               PROVE  Opp(s)[1] = s[1] /\ Opp(s) # s /\ Opp(Opp(s)) = s
    OBVIOUS
  <2>1. PICK w \in Chains(l), e \in Ends : s = <<w, e>>
    BY <1>1
  <2> QED BY <2>1 DEF Opp, Ends
<1>3. \A s, t \in Slots(l) : s[1] = t[1] => s = t \/ s = Opp(t)
  <2> SUFFICES ASSUME NEW s \in Slots(l), NEW t \in Slots(l), s[1] = t[1]
               PROVE  s = t \/ s = Opp(t)
    OBVIOUS
  <2>1. PICK w \in Chains(l), e \in Ends : s = <<w, e>>
    BY <1>1
  <2>2. PICK v \in Chains(l), f \in Ends : t = <<v, f>>
    BY <1>1
  <2> QED BY <2>1, <2>2 DEF Opp, Ends
<1> QED BY <1>1, <1>2, <1>3

\* Crossed has the first end, and crosses the chains that it comes to.
LEMMA CrossedCrosses ==
  ASSUME NEW l \in Links, NEW b \in Slots(l)
  PROVE  Crossed(l, b) \subseteq Slots(l) /\ Crosses(l, b, Crossed(l, b))
<1>1. Crossed(l, b) \subseteq Slots(l)
  BY DEF Crossed
<1>2. b \in Crossed(l, b)
  BY DEF Crossed, Crosses
<1>3. ASSUME NEW t \in Crossed(l, b), NEW n \in l[t] \ {b}
      PROVE  Opp(n) \in Crossed(l, b)
  <2>1. t \in Slots(l) /\ n \in Slots(l) /\ Opp(n) \in Slots(l)
    BY <1>1, <1>3, LinksFacts
  <2>2. ASSUME NEW S \in SUBSET Slots(l), Crosses(l, b, S)
        PROVE  Opp(n) \in S
    <3>1. t \in S
      BY <2>2 DEF Crossed
    <3> QED BY <1>3, <2>2, <3>1 DEF Crosses
  <2> QED BY <2>1, <2>2 DEF Crossed
<1> QED BY <1>1, <1>2, <1>3 DEF Crosses

\* The ends at c have been gone on to: it is not the one sought, its neighbours
\* are in chains of V, and none of them is the one sought.
Settled(l, V, goal, c) == c # goal /\ \A n \in l[c] : n[1] \in V /\ n # goal

\* If this holds for both ends of every chain of V, or of the first chain b at
\* least for b and for the other end as far as that one has been entered, there is
\* nothing else to come to from b.
LEMMA NothingElseIsCrossed ==
  ASSUME NEW l \in Links, NEW b \in Slots(l), NEW V, NEW goal, b[1] \in V,
         Settled(l, V, goal, b),
         \A c \in Slots(l) : c[1] \in V /\ c[1] # b[1] => Settled(l, V, goal, c)
  PROVE  \A c \in Crossed(l, b) : c[1] \in V /\ Settled(l, V, goal, c)
<1> DEFINE Z == {c \in Slots(l) : c[1] \in V /\ Settled(l, V, goal, c)}
<1>1. b \in Z
  OBVIOUS
<1>2. ASSUME NEW t \in Z, NEW n \in l[t] \ {b}
      PROVE  Opp(n) \in Z
  <2>1. n \in Slots(l) /\ Opp(n) \in Slots(l) /\ n[1] \in V /\ n # b
    BY LinksFacts DEF Settled
  <2>2. Opp(n)[1] = n[1] /\ (n[1] = b[1] => Opp(n) = b)
    BY <2>1, EndsOfAChain
  <2>3. CASE n[1] = b[1]
    BY <1>1, <2>2, <2>3
  <2>4. CASE n[1] # b[1]
    BY <2>1, <2>2, <2>4
  <2> QED BY <2>3, <2>4
<1> HIDE DEF Z
<1>3. Crosses(l, b, Z)
  BY <1>1, <1>2 DEF Crosses
<1>4. Z \in SUBSET Slots(l)
  BY DEF Z
<1>5. Crossed(l, b) \subseteq Z
  BY <1>3, <1>4 DEF Crossed
<1> QED BY <1>5 DEF Z

-----------------------------------------------------------------------------
(* The search *)

Visited == {reached[i] : i \in 1..Len(reached)}
InTodo == {todo[i] : i \in 1..Len(todo)}

\* The ends that the search has begun from, and what can be reached from them.
Begun == IF call = "chain" /\ second = NoSlot THEN {from, Opp(from)} ELSE {from}
AllCrossed == UNION {Crossed(ngs, b) : b \in Begun}
AllSeen == UNION {Seen(ngs, b) : b \in Begun}

\* What the call asks for.
CallOK ==
  /\ from \in Slots(ngs) /\ answer = FALSE
  /\ call = "dfs" => target \in Slots(ngs) /\ target # from
  /\ call # "dfs" => target = NoSlot
  /\ second = NoSlot \/ (call = "chain" /\ second = Opp(from))

\* The search does not go astray.
OnlyReachable ==
  /\ \A t \in InTodo : t \in AllCrossed /\ t[1] \in Visited
  /\ \A w \in Visited : \E t \in AllSeen : t[1] = w

\* An end is to be gone on from, or the neighbours it has are visited or about to be
\* looked at.
Opened(c) ==
  c \in InTodo \/ (c # target /\ \A n \in ngs[c] : n \in pending \/ (n[1] \in Visited /\ n # target))

\* The pending neighbours are those of an end of a visited chain.
PendingOf(p) ==
  /\ p \in AllCrossed /\ p[1] \in Visited /\ p # target
  /\ pending \subseteq ngs[p]
  /\ \A n \in ngs[p] : n \in pending \/ (n[1] \in Visited /\ n # target)

\* The search forgets nothing.  Of a chain that was entered, the end entered
\* through needs no step of its own: it has the neighbours of the end come from.
NothingForgotten ==
  /\ from[1] \in Visited
  /\ \A b \in Begun : Opened(b)
  /\ \A c \in Slots(ngs) : c[1] \in Visited /\ c[1] # from[1] => Opened(c)
  /\ pending = {} \/ \E p \in Slots(ngs) : PendingOf(p)

ReachInv ==
  /\ pc = "searching" => CallOK /\ OnlyReachable /\ NothingForgotten
  /\ ResultIsReach

LEMMA SeenHasCrossed ==
  ASSUME NEW l \in Links, NEW b \in Slots(l)
  PROVE  /\ b \in Crossed(l, b) /\ Crossed(l, b) \subseteq Seen(l, b)
         /\ \A c \in Crossed(l, b) : l[c] \subseteq Seen(l, b)
<1>1. b \in Crossed(l, b)
  BY CrossedCrosses DEF Crosses
<1> QED BY <1>1 DEF Seen

\* The elements of a list of numbers, all different, can be put in order.
LEMMA SortedSorts ==
  ASSUME NEW S, S \subseteq Nat, NEW x \in Seq(S),
         \A i, j \in 1..Len(x) : x[i] = x[j] => i = j
  PROVE  /\ Len(Sorted(x)) = Len(x)
         /\ {Sorted(x)[i] : i \in 1..Len(x)} = {x[i] : i \in 1..Len(x)}
         /\ \A i, j \in 1..Len(x) : i < j => Sorted(x)[i] < Sorted(x)[j]
<1> DEFINE n == Len(x)
           R == {x[i] : i \in 1..n}
<1>1. n \in Nat /\ DOMAIN x = 1..n /\ R \subseteq Nat /\ Range(x) = R
  <2>1. n \in Nat /\ DOMAIN x = 1..n /\ \A i \in 1..n : x[i] \in S
    OBVIOUS
  <2> QED BY <2>1 DEF Range
<1>2. IsFiniteSet(R) /\ Cardinality(R) = n
  <2>1. IsFiniteSet(1..n) /\ Cardinality(1..n) = n
    BY <1>1, FS_Interval
  <2>2. x \in Bijection(1..n, R)
    <3>1. x \in [1..n -> R]
      BY <1>1
    <3> QED BY <1>1, <3>1 DEF Bijection, Injection, Surjection, IsInjective
  <2>3. ExistsBijection(1..n, R)
    BY <2>2 DEF ExistsBijection
  <2> HIDE DEF R, n
  <2> QED BY <2>1, <2>3, FS_Bijection
<1> HIDE DEF R, n
<1>3. PICK y : Ascends(y, n, R)
  BY <1>1, <1>2, AscendingExists
<1> DEFINE P(z) == /\ Range(z) = Range(x)
                   /\ \A i, j \in DOMAIN x : i < j => z[i] < z[j]
<1>4. y \in [DOMAIN x -> Range(x)] /\ P(y)
  <2>1. y \in [1..n -> R] /\ DOMAIN y = 1..n
    BY <1>3 DEF Ascends
  <2>2. Range(y) = R
    BY <1>3, <2>1 DEF Ascends, Range
  <2> QED BY <1>1, <1>3, <2>1, <2>2 DEF Ascends
<1>5. Sorted(x) \in [DOMAIN x -> Range(x)] /\ P(Sorted(x))
  BY <1>4 DEF Sorted
<1>6. Sorted(x) \in [1..n -> R] /\ Range(Sorted(x)) = R
      /\ \A i, j \in 1..n : i < j => Sorted(x)[i] < Sorted(x)[j]
  BY <1>1, <1>5
<1> HIDE DEF P
<1>7. DOMAIN Sorted(x) = 1..n
  BY <1>6
<1>8. Len(Sorted(x)) = n
  <2>1. Sorted(x) \in Seq(R)
    BY <1>1, <1>6
  <2> QED BY <1>1, <1>7, <2>1
<1>9. {Sorted(x)[i] : i \in 1..n} = R
  BY <1>6, <1>7 DEF Range
<1> QED BY <1>6, <1>8, <1>9 DEF R, n

\* A search begins from one end.
LEMMA BeginReaches ==
  ASSUME SearchInv, NEW s \in Slots(ngs), NEW t, NEW what, NEW more, Begin(s, t, what, more),
         what = "dfs" => t \in Slots(ngs) /\ t # s,
         what # "dfs" => t = NoSlot,
         more = IF what = "chain" THEN Opp(s) ELSE NoSlot
  PROVE  ReachInv'
<1>1. ngs \in Links /\ ngs' = ngs /\ ResetSearch(s[1]) /\ todo' = <<s>> /\ pending' = {}
      /\ from' = s /\ target' = t
      /\ answer' = FALSE /\ call' = what /\ second' = more /\ pc' = "searching"
  BY DEF Begin, SearchInv, TypeOK
<1>2. reached' = <<s[1]>> /\ s[1] \in Chains(ngs) /\ Opp(s) \in Slots(ngs)
  BY <1>1, LinksFacts, ResetMarksOnlyFirst
<1>3. NoSlot \notin Slots(ngs)
  BY <1>1, NoSlotIsNone
<1>4. Visited' = {s[1]} /\ InTodo' = {s}
  <2>1. Visited' = {(<<s[1]>>)[i] : i \in 1..1}
    BY <1>2 DEF Visited
  <2>2. InTodo' = {(<<s>>)[i] : i \in 1..1}
    BY <1>1 DEF InTodo
  <2> QED BY <2>1, <2>2
<1>5. Begun' = {s}
  BY <1>1, <1>2, <1>3 DEF Begun
<1>6. AllCrossed' = Crossed(ngs, s) /\ AllSeen' = Seen(ngs, s)
  BY <1>1, <1>5 DEF AllCrossed, AllSeen
<1>7. s \in AllCrossed' /\ s \in AllSeen'
  BY <1>1, <1>6, SeenHasCrossed
<1>8. CallOK'
  BY <1>1, <1>2, <1>3 DEF CallOK
<1>9. OnlyReachable'
  BY <1>4, <1>7 DEF OnlyReachable
<1>10. NothingForgotten'
  BY <1>1, <1>4, <1>5 DEF NothingForgotten, Opened
<1>11. ResultIsReach'
  BY <1>1 DEF ResultIsReach
<1> QED BY <1>8, <1>9, <1>10, <1>11 DEF ReachInv

\* What the search has begun from stays.
LEMMA SameSearch ==
  ASSUME UNCHANGED <<ngs, from, target, call, second>>
  PROVE  Begun' = Begun /\ AllCrossed' = AllCrossed /\ AllSeen' = AllSeen
<1>1. Begun' = Begun
  BY DEF Begun
<1> QED BY <1>1 DEF AllCrossed, AllSeen

LEMMA BegunAreEnds ==
  ASSUME ngs \in Links, CallOK
  PROVE  /\ from \in Begun /\ \A b \in Begun : b \in Slots(ngs) /\ b[1] = from[1]
         /\ AllCrossed \subseteq Slots(ngs) /\ AllCrossed \subseteq AllSeen
         /\ \A c \in AllCrossed : ngs[c] \subseteq AllSeen
         /\ \A c \in AllCrossed : \A n \in ngs[c] : n[1] # from[1] => Opp(n) \in AllCrossed
<1>1. from \in Begun /\ \A b \in Begun : b \in Slots(ngs) /\ b[1] = from[1]
  BY LinksFacts, EndsOfAChain DEF Begun, CallOK
<1>2. ASSUME NEW c \in AllCrossed
      PROVE  /\ c \in Slots(ngs) /\ c \in AllSeen /\ ngs[c] \subseteq AllSeen
             /\ \A n \in ngs[c] : n[1] # from[1] => Opp(n) \in AllCrossed
  <2>1. PICK b \in Begun : c \in Crossed(ngs, b)
    BY DEF AllCrossed
  <2>2. c \in Slots(ngs) /\ Crosses(ngs, b, Crossed(ngs, b))
    BY <1>1, <2>1, CrossedCrosses
  <2>3. c \in Seen(ngs, b) /\ ngs[c] \subseteq Seen(ngs, b)
    BY <1>1, <2>1, SeenHasCrossed
  <2>4. \A n \in ngs[c] : n[1] # from[1] => Opp(n) \in Crossed(ngs, b)
    BY <1>1, <2>1, <2>2 DEF Crosses
  <2>5. Seen(ngs, b) \subseteq AllSeen /\ Crossed(ngs, b) \subseteq AllCrossed
    BY DEF AllSeen, AllCrossed
  <2> QED BY <2>2, <2>3, <2>4, <2>5
<1> QED BY <1>1, <1>2

\* The end or the neighbour sought has been found.
LEMMA FoundReaches ==
  ASSUME SearchInv, CallOK, target \in AllSeen, Found,
         UNCHANGED <<ngs, from, target, call, second>>
  PROVE  ReachInv'
<1>1. ngs \in Links /\ answer' = TRUE /\ pc' = "done"
  BY DEF SearchInv, TypeOK, Found
<1>2. PICK b \in Begun : target \in Seen(ngs, b)
  BY DEF AllSeen
<1>3. target \in Slots(ngs)
  <2>1. b \in Slots(ngs)
    BY <1>1, BegunAreEnds
  <2>2. Crossed(ngs, b) \subseteq Slots(ngs)
    BY <1>1, <2>1, CrossedCrosses
  <2>3. \A c \in Slots(ngs) : ngs[c] \subseteq Slots(ngs)
    BY <1>1, LinksFacts
  <2> QED BY <1>2, <2>2, <2>3 DEF Seen
<1>4. call = "dfs"
  BY <1>1, <1>3, NoSlotIsNone DEF CallOK
<1>5. b = from
  BY <1>2, <1>4 DEF Begun
<1>6. ResultIsReach'
  BY <1>1, <1>2, <1>4, <1>5 DEF ResultIsReach
<1> QED BY <1>1, <1>6 DEF ReachInv

LEMMA FrontOf ==
  ASSUME NEW S, NEW x \in Seq(S), x # <<>>, NEW y, y = SubSeq(x, 1, Len(x) - 1)
  PROVE  Len(y) = Len(x) - 1 /\ \A i \in 1..Len(x) - 1 : y[i] = x[i]
<1>1. Len(x) \in Nat /\ Len(x) > 0 /\ \A i \in 1..Len(x) : x[i] \in S
  OBVIOUS
<1>2. Len(y) = Len(x) - 1
  <2>1. 1 \in Int /\ Len(x) - 1 \in Int /\ \A i \in 1..Len(x) - 1 : x[i] \in S
    BY <1>1
  <2>2. Len(y) = IF 1 <= Len(x) - 1 THEN Len(x) - 1 - 1 + 1 ELSE 0
    BY <2>1, SubSeqProperties
  <2>3. \A n \in Nat : n > 0 => (IF 1 <= n - 1 THEN n - 1 - 1 + 1 ELSE 0) = n - 1
    OBVIOUS
  <2>4. (IF 1 <= Len(x) - 1 THEN Len(x) - 1 - 1 + 1 ELSE 0) = Len(x) - 1
    BY <1>1, <2>3
  <2> QED BY <2>2, <2>4, Zenon
<1>3. \A i \in 1..Len(x) - 1 : y[i] = x[i]
  BY <1>1
<1> QED BY <1>2, <1>3

LEMMA TakeReaches ==
  ASSUME SearchInv, ReachInv, Take
  PROVE  ReachInv'
<1>1. ngs \in Links /\ SearchTypeOK /\ CallOK /\ OnlyReachable /\ NothingForgotten
      /\ UNCHANGED <<ngs, mark, epoch, reached, from, target, call, second>>
      /\ todo # <<>> /\ pc = "searching" /\ pending = {}
  BY DEF SearchInv, ReachInv, TypeOK, Take
<1>2. Len(todo) \in Nat /\ Len(todo) > 0 /\ Len(todo) \in 1..Len(todo)
  BY <1>1 DEF SearchTypeOK
<1>3. PICK s \in {todo[Len(todo)]} : s = todo[Len(todo)]
  OBVIOUS
<1>a. s \in InTodo /\ s \in AllCrossed /\ s[1] \in Visited /\ s \in Slots(ngs) /\ s \in AllSeen
      /\ ngs[s] \subseteq AllSeen
  <2>1. s \in InTodo
    BY <1>2, <1>3 DEF InTodo
  <2> QED BY <1>1, <2>1, BegunAreEnds DEF OnlyReachable
<1>4. CASE s = target
  <2>1. Found
    BY <1>3, <1>4 DEF Take
  <2> QED BY <1>1, <1>a, <1>4, <2>1, FoundReaches
<1>5. CASE s # target
  <2>1. pending' = ngs[s] /\ todo' = SubSeq(todo, 1, Len(todo) - 1) /\ answer' = answer /\ pc' = pc
    BY <1>3, <1>5 DEF Take
  <2>2. Begun' = Begun /\ AllCrossed' = AllCrossed /\ AllSeen' = AllSeen
    BY <1>1, SameSearch
  <2>3. Visited' = Visited
    BY <1>1 DEF Visited
  <2>4. InTodo' \subseteq InTodo /\ InTodo \subseteq InTodo' \cup {s}
    <3>1. Len(todo') = Len(todo) - 1 /\ \A i \in 1..Len(todo) - 1 : todo'[i] = todo[i]
      BY <1>1, <1>2, <2>1, FrontOf DEF SearchTypeOK
    <3>2. \A i \in 1..Len(todo) : i = Len(todo) \/ i \in 1..Len(todo) - 1
      BY <1>2
    <3>3. \A i \in 1..Len(todo) - 1 : i \in 1..Len(todo)
      BY <1>2
    <3> QED BY <1>3, <3>1, <3>2, <3>3 DEF InTodo
  <2>5. CallOK'
    BY <1>1, <2>1 DEF CallOK
  <2>6. OnlyReachable'
    BY <1>1, <2>2, <2>3, <2>4 DEF OnlyReachable
  <2>7. ASSUME NEW c \in Slots(ngs), Opened(c)
        PROVE  Opened(c)'
    <3>1. CASE c = s
      BY <1>1, <1>5, <2>1, <3>1 DEF Opened
    <3>2. CASE c # s
      <4>1. CASE c \in InTodo
        BY <2>4, <3>2, <4>1 DEF Opened
      <4>2. CASE c \notin InTodo
        BY <1>1, <2>3, <2>7, <4>2 DEF Opened
      <4> QED BY <4>1, <4>2
    <3> QED BY <3>1, <3>2
  <2>8. PendingOf(s)'
    BY <1>1, <1>a, <1>5, <2>1, <2>2, <2>3 DEF PendingOf
  <2>9. NothingForgotten'
    <3>1. from[1] \in Visited /\ \A b \in Begun : b \in Slots(ngs) /\ Opened(b)
      BY <1>1, BegunAreEnds DEF NothingForgotten
    <3>2. \A c \in Slots(ngs) : c[1] \in Visited /\ c[1] # from[1] => Opened(c)
      BY <1>1 DEF NothingForgotten
    <3>3. \A b \in Begun' : Opened(b)'
      BY <2>2, <2>7, <3>1
    <3>4. \A c \in Slots(ngs') : c[1] \in Visited' /\ c[1] # from'[1] => Opened(c)'
      BY <1>1, <2>3, <2>7, <3>2
    <3>5. \E p \in Slots(ngs') : PendingOf(p)'
      BY <1>1, <1>a, <2>8
    <3> QED BY <1>1, <2>3, <3>1, <3>3, <3>4, <3>5 DEF NothingForgotten
  <2>10. ResultIsReach'
    BY <1>1, <2>1 DEF ResultIsReach
  <2> QED BY <2>5, <2>6, <2>9, <2>10 DEF ReachInv
<1> QED BY <1>4, <1>5

LEMMA LookAtReaches ==
  ASSUME SearchInv, ReachInv, pc = "searching", NEW n \in pending, LookAt(n),
         UNCHANGED <<ngs, epoch, from, target, call, second>>
  PROVE  ReachInv'
<1>1. ngs \in Links /\ SearchTypeOK /\ CallOK /\ OnlyReachable /\ NothingForgotten /\ MarksAreOfThisSearch
  BY DEF SearchInv, ReachInv, TypeOK
<1>2. n \in Slots(ngs) /\ n[1] \in Chains(ngs) /\ Opp(n) \in Slots(ngs) /\ Opp(n)[1] = n[1]
  BY <1>1, LinksFacts, EndsOfAChain DEF SearchTypeOK
<1>3. PICK p \in Slots(ngs) : PendingOf(p)
  BY <1>1 DEF NothingForgotten
<1>4. n \in ngs[p] /\ n \in AllSeen /\ (n[1] # from[1] => Opp(n) \in AllCrossed)
  BY <1>1, <1>3, BegunAreEnds DEF PendingOf
<1>5. n[1] \in Visited <=> mark[n[1]] = epoch
  BY <1>1, <1>2 DEF MarksAreOfThisSearch, Visited
<1>6. Begun' = Begun /\ AllCrossed' = AllCrossed /\ AllSeen' = AllSeen
  BY SameSearch
<1>7. CASE n = target
  <2>1. Found
    BY <1>7 DEF LookAt
  <2> QED BY <1>1, <1>4, <1>7, <2>1, FoundReaches
<1>8. CASE n # target
  <2>1. pending' = pending \ {n} /\ answer' = answer /\ pc' = pc
    BY <1>8 DEF LookAt
  <2>2. /\ Visited' = Visited \cup {n[1]}
        /\ InTodo' = InTodo \cup (IF n[1] \in Visited THEN {} ELSE {Opp(n)})
    <3>1. CASE n[1] \in Visited
      <4>1. UNCHANGED <<reached, todo>>
        BY <1>5, <1>8, <3>1 DEF LookAt
      <4> QED BY <3>1, <4>1 DEF Visited, InTodo
    <3>2. CASE n[1] \notin Visited
      <4>1. reached' = Append(reached, n[1]) /\ todo' = Append(todo, Opp(n))
        BY <1>5, <1>8, <3>2 DEF LookAt, Visit
      <4>2. reached \in Seq(Chains(ngs)) /\ todo \in Seq(Slots(ngs))
        BY <1>1 DEF SearchTypeOK
      <4>3. /\ Len(reached') = Len(reached) + 1 /\ Len(reached) \in Nat
            /\ \A i \in 1..Len(reached) : reached'[i] = reached[i]
            /\ reached'[Len(reached) + 1] = n[1]
        BY <1>2, <4>1, <4>2, Appended
      <4>4. /\ Len(todo') = Len(todo) + 1 /\ Len(todo) \in Nat
            /\ \A i \in 1..Len(todo) : todo'[i] = todo[i]
            /\ todo'[Len(todo) + 1] = Opp(n)
        BY <1>2, <4>1, <4>2, Appended
      <4>5. Visited' = Visited \cup {n[1]}
        BY <4>3 DEF Visited
      <4>6. InTodo' = InTodo \cup {Opp(n)}
        BY <4>4 DEF InTodo
      <4> QED BY <3>2, <4>5, <4>6
    <3> QED BY <3>1, <3>2
  <2>3. n[1] \notin Visited => n[1] # from[1]
    BY <1>1 DEF NothingForgotten
  <2>4. CallOK'
    BY <1>1, <2>1 DEF CallOK
  <2>5. OnlyReachable'
    BY <1>1, <1>2, <1>4, <1>6, <2>2, <2>3 DEF OnlyReachable
  <2>6. ASSUME NEW c \in Slots(ngs), Opened(c)
        PROVE  Opened(c)'
    BY <1>8, <2>1, <2>2, <2>6 DEF Opened
  <2>7. PendingOf(p)'
    BY <1>3, <1>6, <1>8, <2>1, <2>2 DEF PendingOf
  <2>8. ASSUME n[1] \notin Visited
        PROVE  Opened(n)' /\ Opened(Opp(n))'
    <3>1. Opened(Opp(n))'
      BY <2>2, <2>8 DEF Opened
    <3>2. ngs[n] = (ngs[p] \ {n}) \cup {p}
      BY <1>1, <1>3, <1>4, EndsOfAChain
    <3>3. \A m \in ngs[n] : m \in pending' \/ (m[1] \in Visited' /\ m # target)
      BY <1>3, <2>1, <2>2, <3>2 DEF PendingOf
    <3> QED BY <1>8, <3>1, <3>3 DEF Opened
  <2>9. NothingForgotten'
    <3>1. from[1] \in Visited /\ \A b \in Begun : b \in Slots(ngs) /\ Opened(b)
      BY <1>1, BegunAreEnds DEF NothingForgotten
    <3>2. \A c \in Slots(ngs) : c[1] \in Visited /\ c[1] # from[1] => Opened(c)
      BY <1>1 DEF NothingForgotten
    <3>3. \A b \in Begun' : Opened(b)'
      BY <1>6, <2>6, <3>1
    <3>4. ASSUME NEW c \in Slots(ngs), c[1] \in Visited', c[1] # from[1]
          PROVE  Opened(c)'
      <4>1. CASE c[1] \in Visited
        BY <2>6, <3>2, <3>4, <4>1
      <4>2. CASE c[1] \notin Visited
        <5>1. c[1] = n[1] /\ n[1] \notin Visited
          BY <2>2, <3>4, <4>2
        <5>2. c = n \/ c = Opp(n)
          BY <1>1, <1>2, <5>1, EndsOfAChain
        <5> QED BY <2>8, <5>1, <5>2
      <4> QED BY <4>1, <4>2
    <3>5. \E q \in Slots(ngs') : PendingOf(q)'
      BY <2>7
    <3> QED BY <2>2, <3>1, <3>3, <3>4, <3>5 DEF NothingForgotten
  <2>10. ResultIsReach'
    BY <2>1 DEF ResultIsReach
  <2> QED BY <2>4, <2>5, <2>9, <2>10 DEF ReachInv
<1> QED BY <1>7, <1>8

\* The search of a chain goes on from its other end.
LEMMA SearchOnReaches ==
  ASSUME SearchInv, ReachInv, SearchOn
  PROVE  ReachInv'
<1>1. /\ ngs \in Links /\ CallOK /\ OnlyReachable /\ NothingForgotten
      /\ pc = "searching" /\ pending = {} /\ todo = <<>> /\ second # NoSlot
      /\ todo' = <<second>> /\ second' = NoSlot
      /\ UNCHANGED <<ngs, mark, epoch, reached, pending, from, target, answer, call, pc>>
  BY DEF SearchInv, ReachInv, TypeOK, SearchOn
<1>2. call = "chain" /\ second = Opp(from) /\ target = NoSlot
      /\ from \in Slots(ngs) /\ Opp(from) \in Slots(ngs) /\ Opp(from)[1] = from[1]
  BY <1>1, LinksFacts, EndsOfAChain DEF CallOK
<1>3. Begun = {from} /\ Begun' = {from, Opp(from)}
  BY <1>1, <1>2 DEF Begun
<1>4. AllCrossed \subseteq AllCrossed' /\ AllSeen \subseteq AllSeen'
  BY <1>1, <1>3 DEF AllCrossed, AllSeen
<1>5. Visited' = Visited /\ InTodo = {}
  BY <1>1 DEF Visited, InTodo
<1>6. InTodo' = {Opp(from)}
  <2>1. InTodo' = {(<<second>>)[i] : i \in 1..1}
    BY <1>1 DEF InTodo
  <2> QED BY <1>2, <2>1
<1>7. Opp(from) \in AllCrossed'
  <2>1. Opp(from) \in Crossed(ngs, Opp(from))
    BY <1>1, <1>2, SeenHasCrossed
  <2> QED BY <1>1, <1>3, <2>1 DEF AllCrossed
<1>8. CallOK'
  BY <1>1, <1>2 DEF CallOK
<1>9. OnlyReachable'
  BY <1>1, <1>2, <1>4, <1>5, <1>6, <1>7 DEF OnlyReachable, NothingForgotten
<1>10. ASSUME NEW c \in Slots(ngs), Opened(c)
       PROVE  Opened(c)'
  BY <1>1, <1>5, <1>10 DEF Opened
<1>11. Opened(Opp(from))'
  BY <1>1, <1>6 DEF Opened
<1>12. NothingForgotten'
  BY <1>1, <1>2, <1>3, <1>5, <1>10, <1>11 DEF NothingForgotten
<1>13. ResultIsReach'
  BY <1>1 DEF ResultIsReach
<1> QED BY <1>8, <1>9, <1>12, <1>13 DEF ReachInv

\* When nothing is left to be looked at, all that can be reached has been.
LEMMA EndReaches ==
  ASSUME SearchInv, ReachInv, EndSearch
  PROVE  ReachInv'
<1>1. /\ ngs \in Links /\ CallOK /\ OnlyReachable /\ NothingForgotten /\ SearchTypeOK /\ VisitedOnce
      /\ pc = "searching" /\ pending = {} /\ todo = <<>> /\ second = NoSlot
      /\ reached' = (IF call = "chain" THEN Sorted(reached) ELSE reached)
      /\ pc' = "done"
      /\ UNCHANGED <<ngs, mark, epoch, todo, pending, from, target, answer, call, second>>
  BY DEF SearchInv, ReachInv, TypeOK, EndSearch
<1>2. InTodo = {}
  BY <1>1 DEF InTodo
<1>3. \A c \in Slots(ngs) : Opened(c) => Settled(ngs, Visited, target, c)
  BY <1>1, <1>2 DEF Opened, Settled
<1>4. from \in Begun /\ \A b \in Begun : b \in Slots(ngs) /\ b[1] = from[1]
  BY <1>1, BegunAreEnds
<1>5. ASSUME NEW b \in Begun
      PROVE  \A t \in Seen(ngs, b) : t[1] \in Visited /\ t # target
  <2>1. b \in Slots(ngs) /\ b[1] = from[1] /\ b[1] \in Visited /\ Settled(ngs, Visited, target, b)
    BY <1>1, <1>3, <1>4 DEF NothingForgotten
  <2>2. \A c \in Slots(ngs) : c[1] \in Visited /\ c[1] # b[1] => Settled(ngs, Visited, target, c)
    BY <1>1, <1>3, <2>1 DEF NothingForgotten
  <2>3. \A c \in Crossed(ngs, b) : c[1] \in Visited /\ Settled(ngs, Visited, target, c)
    BY <1>1, <2>1, <2>2, NothingElseIsCrossed
  <2> QED BY <2>3 DEF Settled, Seen
<1>6. Visited = {t[1] : t \in AllSeen}
  <2>1. \A t \in AllSeen : t[1] \in Visited
    BY <1>5 DEF AllSeen
  <2>2. \A w \in Visited : \E t \in AllSeen : t[1] = w
    BY <1>1 DEF OnlyReachable
  <2> QED BY <2>1, <2>2
<1>7. CASE call = "chain"
  <2>1. AllSeen = Seen(ngs, from) \cup Seen(ngs, Opp(from))
    BY <1>1, <1>7 DEF AllSeen, Begun
  <2>2. Visited = {t[1] : t \in Seen(ngs, from)} \cup {t[1] : t \in Seen(ngs, Opp(from))}
    BY <1>6, <2>1
  <2>3. reached \in Seq(Chains(ngs)) /\ Chains(ngs) \subseteq Nat
        /\ \A i, j \in 1..Len(reached) : reached[i] = reached[j] => i = j
    BY <1>1, LinksFacts DEF SearchTypeOK, VisitedOnce
  <2>4. /\ Len(reached') = Len(reached)
        /\ {reached'[i] : i \in 1..Len(reached)} = Visited
        /\ \A i, j \in 1..Len(reached) : i < j => reached'[i] < reached'[j]
    <3>1. reached' = Sorted(reached)
      BY <1>1, <1>7
    <3>2. /\ Len(Sorted(reached)) = Len(reached)
          /\ {Sorted(reached)[i] : i \in 1..Len(reached)} = {reached[i] : i \in 1..Len(reached)}
          /\ \A i, j \in 1..Len(reached) : i < j => Sorted(reached)[i] < Sorted(reached)[j]
      BY <2>3, SortedSorts
    <3> QED BY <3>1, <3>2, Zenon DEF Visited
  <2>5. Len(reached) \in Nat
    BY <2>3
  <2>6. {reached'[i] : i \in 1..Len(reached')} = Visited
    BY <2>4
  <2>7. \A i \in 1..Len(reached') - 1 : reached'[i] < reached'[i + 1]
    BY <2>4, <2>5
  <2> QED BY <1>1, <1>7, <2>2, <2>6, <2>7 DEF ReachInv, ResultIsReach
<1>8. CASE call # "chain"
  <2>1. AllSeen = Seen(ngs, from) /\ Begun = {from}
    BY <1>8 DEF AllSeen, Begun
  <2>2. {reached'[i] : i \in 1..Len(reached')} = {t[1] : t \in Seen(ngs, from)}
    BY <1>1, <1>6, <1>8, <2>1 DEF Visited
  <2>3. target \notin Seen(ngs, from) /\ answer = FALSE
    BY <1>1, <1>5, <2>1 DEF CallOK
  <2> QED BY <1>1, <1>8, <2>2, <2>3 DEF ReachInv, ResultIsReach
<1> QED BY <1>7, <1>8

LEMMA NextReaches == SearchInv /\ ReachInv /\ [Next]_vars => ReachInv'
<1> SUFFICES ASSUME SearchInv, ReachInv, [Next]_vars PROVE ReachInv'
  OBVIOUS
<1>0. ngs \in Links
  BY DEF SearchInv, TypeOK
<1>1. ASSUME FindConnectedSlot PROVE ReachInv'
  BY <1>1, BeginReaches DEF FindConnectedSlot, FindFromSlot
<1>2. ASSUME NEW w \in Chains(ngs), FindFromChain(w) PROVE ReachInv'
  <2>1. <<w, "A">> \in Slots(ngs) /\ Opp(<<w, "A">>) = <<w, "B">>
    BY <1>0, LinksFacts DEF Opp
  <2> QED BY <1>2, <2>1, BeginReaches DEF FindFromChain
<1>3. ASSUME NEW s \in Slots(ngs), NEW t \in Slots(ngs), DfsTo(s, t) PROVE ReachInv'
  BY <1>3, BeginReaches DEF DfsTo
<1>4. ASSUME NEW s \in Slots(ngs), DfsToItself(s) PROVE ReachInv'
  <2>1. s \in Seen(ngs, s)
    BY <1>0, SeenHasCrossed
  <2> QED BY <1>4, <2>1 DEF DfsToItself, ReachInv, ResultIsReach
<1>5. ASSUME Take PROVE ReachInv'
  BY <1>5, TakeReaches
<1>6. ASSUME LookAtNeighbour PROVE ReachInv'
  BY <1>6, LookAtReaches DEF LookAtNeighbour
<1>7. ASSUME SearchOn PROVE ReachInv'
  BY <1>7, SearchOnReaches
<1>8. ASSUME EndSearch PROVE ReachInv'
  BY <1>8, EndReaches
<1>9. ASSUME ChangeChains PROVE ReachInv'
  BY <1>9 DEF ChangeChains, ReachInv, ResultIsReach
<1>10. ASSUME UNCHANGED vars PROVE ReachInv'
  <2>1. /\ UNCHANGED <<ngs, mark, epoch, reached, todo, pending>>
        /\ UNCHANGED <<from, target, answer, call, second, pc>>
    BY <1>10 DEF vars
  <2>2. /\ Visited' = Visited /\ InTodo' = InTodo
        /\ Begun' = Begun /\ AllCrossed' = AllCrossed /\ AllSeen' = AllSeen
    BY <2>1, SameSearch DEF Visited, InTodo
  <2>3. CallOK' = CallOK /\ OnlyReachable' = OnlyReachable /\ ResultIsReach' = ResultIsReach
    BY <2>1, <2>2 DEF CallOK, OnlyReachable, ResultIsReach
  <2>4. NothingForgotten' = NothingForgotten
    BY <2>1, <2>2 DEF NothingForgotten, Opened, PendingOf
  <2> QED BY <2>1, <2>3, <2>4 DEF ReachInv
<1> QED BY <1>1, <1>2, <1>3, <1>4, <1>5, <1>6, <1>7, <1>8, <1>9, <1>10
        DEF Next, FindConnectedChain, Dfs, DfsAtOnce

\* What a search finds is what can be reached, for any chains, joined in any way, with
\* loops and rings: although it enters a chain once only and goes on from one end of
\* it.  The chains connected to a chain are listed in ascending order.
THEOREM ConnectivityResultIsReach == Spec => []ResultIsReach
<1>1. Init => ReachInv
  BY DEF Init, ReachInv, ResultIsReach
<1>2. Spec => []ReachInv
  BY <1>1, NextReaches, SearchInvAlways, PTL DEF Spec
<1>3. ReachInv => ResultIsReach
  BY DEF ReachInv
<1> QED BY <1>2, <1>3, PTL
=============================================================================
