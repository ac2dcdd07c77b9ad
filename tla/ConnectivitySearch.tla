-------------------------- MODULE ConnectivitySearch --------------------------
(***************************************************************************)
(* The search object of structure/analyzers/connectivity.h: which chains   *)
(* can be reached from a chain or a chain end.  It serves many searches    *)
(* and does not clear its marks between them: a chain is visited if its    *)
(* mark is the number of the search, the epoch, which is finite and wraps  *)
(* around.  The chains it refers to may change between searches.           *)
(*                                                                         *)
(* Chains are given by their neighbour links, a function from chain ends   *)
(* <<w, e>> to sets of chain ends.  The neighbours of an end are looked at *)
(* in any order; the code goes through them as they are listed.            *)
(***************************************************************************)
EXTENDS Integers, Sequences, FiniteSets, SequencesExt

CONSTANTS Links,      \* the neighbour links there may be
          EpochMod    \* the number of values of an epoch, 2^32 in the code

Ends == {"A", "B"}
Opp(s) == <<s[1], IF s[2] = "A" THEN "B" ELSE "A">>
Slots(l) == DOMAIN l
Chains(l) == {s[1] : s \in Slots(l)}

\* Ends that meet at one vertex are neighbours of each other.
IsLinks(l) ==
  /\ Chains(l) \subseteq Nat
  /\ l \in [Chains(l) \X Ends -> SUBSET (Chains(l) \X Ends)]
  /\ \A s \in Slots(l) : s \notin l[s] /\ \A t \in l[s] : l[t] = (l[s] \ {t}) \cup {s}

ASSUME LinksAssumption == \A l \in Links : IsLinks(l)
ASSUME EpochAssumption == EpochMod \in Nat /\ EpochMod > 1

VARIABLES
  ngs,       \* the links of the chains as they are
  mark,      \* for each chain the epoch in which it was last visited
  epoch,     \* the number of the search
  reached,   \* the chains visited by it, in order
  todo,      \* the ends to go on from, the last one first
  pending,   \* the neighbours yet to be looked at of the one taken last
  from,      \* the end or the chain that the search began with
  target,    \* the end sought, if any
  answer,    \* whether it was found
  call,      \* "slot", "chain" or "dfs", the operation called last
  second,    \* the end from which the search is to go on afterwards, if any
  pc         \* "idle", "searching" or "done"

vars == <<ngs, mark, epoch, reached, todo, pending, from, target, answer, call, second, pc>>

NoSlot == <<0, "none">>

Init ==
  /\ ngs \in Links
  /\ mark = [w \in {} |-> 0] /\ epoch = 0
  /\ reached = <<>> /\ todo = <<>> /\ pending = {}
  /\ from = NoSlot /\ target = NoSlot /\ second = NoSlot
  /\ answer = FALSE /\ call = "slot" /\ pc = "idle"

-----------------------------------------------------------------------------

\* Room for chains that have been added.
Resized == [w \in (DOMAIN mark) \cup Chains(ngs) |-> IF w \in DOMAIN mark THEN mark[w] ELSE 0]

\* Faulty: the epoch restarts from 1 and the marks stay.
ResetSearchKeepingMarks(w) ==
  LET next == IF epoch + 1 = EpochMod THEN 1 ELSE epoch + 1
  IN  /\ epoch' = next
      /\ mark' = [Resized EXCEPT ![w] = next]
      /\ reached' = <<w>>

\* reset_search, and the visit to the first chain, w.
ResetSearch(w) ==
  IF epoch + 1 = EpochMod
  THEN /\ epoch' = 1
       /\ mark' = [x \in DOMAIN Resized |-> IF x = w THEN 1 ELSE 0]
       /\ reached' = <<w>>
  ELSE /\ epoch' = epoch + 1
       /\ mark' = [Resized EXCEPT ![w] = epoch + 1]
       /\ reached' = <<w>>

Begin(s, t, what, more) ==
  /\ pc # "searching"
  /\ ResetSearch(s[1])
  /\ todo' = <<s>> /\ pending' = {}
  /\ from' = s /\ target' = t /\ answer' = FALSE
  /\ call' = what /\ second' = more
  /\ pc' = "searching"
  /\ UNCHANGED ngs

\* find_connected_chains of an end, and of a chain: from its one end, then from
\* the other.
FindFromSlot(s) == Begin(s, NoSlot, "slot", NoSlot)
FindFromChain(w) == Begin(<<w, "A">>, NoSlot, "chain", <<w, "B">>)

\* dfs, which is done at once if both ends are the same.
DfsTo(s, t) == s # t /\ Begin(s, t, "dfs", NoSlot)
DfsToItself(s) ==
  /\ pc # "searching"
  /\ from' = s /\ target' = s /\ answer' = TRUE /\ call' = "dfs" /\ pc' = "done"
  /\ UNCHANGED <<ngs, mark, epoch, reached, todo, pending, second>>

Found ==
  /\ answer' = TRUE /\ pc' = "done"
  /\ pending' = {} /\ todo' = <<>>

\* The end taken from todo is the one sought, or its neighbours are looked at.
Take ==
  /\ pc = "searching" /\ pending = {} /\ todo # <<>>
  /\ LET s == todo[Len(todo)]
     IN  IF s = target THEN Found
         ELSE /\ pending' = ngs[s]
              /\ todo' = SubSeq(todo, 1, Len(todo) - 1)
              /\ UNCHANGED <<answer, pc>>
  /\ UNCHANGED <<ngs, mark, epoch, reached, from, target, call, second>>

\* Faulty: a chain is gone on from at the end where it was entered.
VisitNear(n) ==
  /\ mark' = [mark EXCEPT ![n[1]] = epoch]
  /\ reached' = Append(reached, n[1])
  /\ todo' = Append(todo, n)

\* visit, of a chain not visited before, to be gone on from at its other end.
Visit(n) ==
  /\ mark' = [mark EXCEPT ![n[1]] = epoch]
  /\ reached' = Append(reached, n[1])
  /\ todo' = Append(todo, Opp(n))

\* Faulty: a neighbour in a chain visited before stays to be looked at.
LookAtUntilNew(n) ==
  IF n = target THEN Found /\ UNCHANGED <<mark, reached>>
  ELSE /\ pending' = IF mark[n[1]] = epoch THEN pending ELSE pending \ {n}
       /\ IF mark[n[1]] = epoch THEN UNCHANGED <<mark, reached, todo>> ELSE Visit(n)
       /\ UNCHANGED <<answer, pc>>

LookAt(n) ==
  IF n = target THEN Found /\ UNCHANGED <<mark, reached>>
  ELSE /\ pending' = pending \ {n}
       /\ IF mark[n[1]] = epoch THEN UNCHANGED <<mark, reached, todo>> ELSE Visit(n)
       /\ UNCHANGED <<answer, pc>>

LookAtNeighbour ==
  /\ pc = "searching"
  /\ \E n \in pending : LookAt(n)
  /\ UNCHANGED <<ngs, epoch, from, target, call, second>>

SearchOn ==
  /\ pc = "searching" /\ pending = {} /\ todo = <<>> /\ second # NoSlot
  /\ todo' = <<second>> /\ second' = NoSlot
  /\ UNCHANGED <<ngs, mark, epoch, reached, pending, from, target, answer, call, pc>>

\* The numbers of x, all different, in ascending order.
Sorted(x) ==
  CHOOSE y \in [DOMAIN x -> Range(x)] :
    /\ Range(y) = Range(x)
    /\ \A i, j \in DOMAIN x : i < j => y[i] < y[j]

\* Only the chains connected to a chain are sorted.
EndSearch ==
  /\ pc = "searching" /\ pending = {} /\ todo = <<>> /\ second = NoSlot
  /\ reached' = IF call = "chain" THEN Sorted(reached) ELSE reached
  /\ pc' = "done"
  /\ UNCHANGED <<ngs, mark, epoch, todo, pending, from, target, answer, call, second>>

\* The chains change between two searches.
ChangeChains ==
  /\ pc = "done"
  /\ ngs' \in Links /\ pc' = "idle"
  /\ UNCHANGED <<mark, epoch, reached, todo, pending, from, target, answer, call, second>>

FindConnectedSlot == \E s \in Slots(ngs) : FindFromSlot(s)
FindConnectedChain == \E w \in Chains(ngs) : FindFromChain(w)
Dfs == \E s, t \in Slots(ngs) : DfsTo(s, t)
DfsAtOnce == \E s \in Slots(ngs) : DfsToItself(s)

Next ==
  \/ FindConnectedSlot \/ FindConnectedChain \/ Dfs \/ DfsAtOnce
  \/ Take \/ LookAtNeighbour \/ SearchOn \/ EndSearch \/ ChangeChains

\* A search once begun runs to its end: it is one call.
Spec == Init /\ [][Next]_vars /\ WF_vars(Take \/ LookAtNeighbour \/ SearchOn \/ EndSearch)
-----------------------------------------------------------------------------

\* While searching; between searches chains may have come and gone.
SearchTypeOK ==
  /\ Chains(ngs) \subseteq DOMAIN mark
  /\ epoch \in 1..EpochMod - 1
  /\ reached \in Seq(Chains(ngs))
  /\ todo \in Seq(Slots(ngs))
  /\ pending \subseteq Slots(ngs)
  /\ second \in Slots(ngs) \cup {NoSlot}

TypeOK ==
  /\ ngs \in Links
  /\ DOMAIN mark \subseteq Nat
  /\ epoch \in 0..EpochMod - 1
  /\ \A w \in DOMAIN mark : mark[w] \in 0..epoch
  /\ answer \in BOOLEAN
  /\ call \in {"slot", "chain", "dfs"}
  /\ pc \in {"idle", "searching", "done"}
  /\ pc = "searching" => SearchTypeOK

\* A mark left by an earlier search, however many there were and whatever chains
\* there were then, is never taken for one of this search (connectivity.h:232).
MarksAreOfThisSearch ==
  pc = "searching" =>
    \A w \in Chains(ngs) : mark[w] = epoch <=> \E i \in 1..Len(reached) : reached[i] = w

\* No chain is visited twice.
VisitedOnce ==
  pc = "searching" =>
    \A i, j \in 1..Len(reached) : reached[i] = reached[j] => i = j

\* The ends come to when chains are entered through either end any number of times,
\* except the first chain through the end the search began with: the least set of
\* ends with this one that crosses every chain it comes to.
Crosses(l, s, S) == s \in S /\ \A t \in S : \A n \in l[t] \ {s} : Opp(n) \in S
Crossed(l, s) ==
  LET crossing == {S \in SUBSET Slots(l) : Crosses(l, s, S)}
  IN  {t \in Slots(l) : \A S \in crossing : t \in S}
Seen(l, s) == Crossed(l, s) \cup UNION {l[t] : t \in Crossed(l, s)}

\* The chains found and the answers given are right, although a chain is entered
\* once only and gone on from at one end (connectivity.h:200).
ResultIsReach ==
  pc = "done" =>
    LET found == {reached[i] : i \in 1..Len(reached)}
        seen(s) == {t[1] : t \in Seen(ngs, s)}
    IN  /\ call = "slot" => found = seen(from)
        /\ call = "chain" =>
             /\ found = seen(from) \cup seen(Opp(from))
             /\ \A i \in 1..Len(reached) - 1 : reached[i] < reached[i + 1]
        /\ call = "dfs" => (answer <=> target \in Seen(ngs, from))

\* Every search ends (connectivity.h:184).
SearchEnds == pc = "searching" ~> pc = "done"
=============================================================================
