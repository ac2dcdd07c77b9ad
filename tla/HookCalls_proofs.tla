-------------------------- MODULE HookCalls_proofs --------------------------
(***************************************************************************)
(* Whatever the transformations do and however deep they nest, the context *)
(* is what encloses a hook and has room for it, the planning hook is       *)
(* called once in each call of the client, inner hooks run inside of those *)
(* of the composed transformation, no hook and no client reads descriptors *)
(* of an earlier graph, and no request outlives its call.                  *)
(*                                                                         *)
(* First the invariant of the context alone.  Then what the steps of every *)
(* transformation share, pulls of any number of steps included: what they  *)
(* nest is of a lower level, each change is followed by an update before   *)
(* an on_end.  Then the invariant that joins both.                         *)
(***************************************************************************)
EXTENDS HookCalls, SharedLemmas, SequenceTheorems, TLAPS

IsCall(c) ==
  c = [t |-> c.t, script |-> c.script, at |-> c.at, wants |-> c.wants, holds |-> c.holds]

AreCalls(x) == (\E S : x \in Seq(S)) /\ \A i \in 1..Len(x) : IsCall(x[i])

\* One frame less than calls, in their order.
Encloses(x, c) ==
  /\ \E T : c \in Seq(T)
  /\ Len(c) = (IF x = <<>> THEN 0 ELSE Len(x) - 1)
  /\ \A i \in 1..Len(c) : c[i] = x[i].t

\* The invariant behind the three.
Enclosing == AreCalls(calls) /\ Encloses(calls, context) /\ PlannedOnce

-----------------------------------------------------------------------------
(* Lemmas *)

LEMMA NextStep ==
  ASSUME NEW c, IsCall(c)
  PROVE  /\ IsCall([c EXCEPT !.at = c.at + 1])
         /\ [c EXCEPT !.at = c.at + 1].t = c.t
<1>1. c = [t |-> c.t, script |-> c.script, at |-> c.at, wants |-> c.wants, holds |-> c.holds]
  BY DEF IsCall
<1> DEFINE d == [t |-> c.t, script |-> c.script, at |-> c.at + 1, wants |-> c.wants, holds |-> c.holds]
<1>2. [c EXCEPT !.at = c.at + 1] = d
  BY <1>1
<1>3. IsCall(d) /\ d.t = c.t
  BY DEF IsCall
<1> QED BY <1>2, <1>3

LEMMA BegunIsCall ==
  ASSUME NEW t, NEW script, NEW w, NEW h
  PROVE  IsCall(Begun(t, script, w, h)) /\ Begun(t, script, w, h).t = t
BY DEF Begun, IsCall

\* Replacing the last of a list.
LEMMA LastReplaced ==
  ASSUME NEW x, NEW S, x \in Seq(S), x # <<>>, NEW d, NEW y,
         y = [x EXCEPT ![Len(x)] = d]
  PROVE  /\ y \in Seq(S \cup {d})
         /\ Len(y) = Len(x) /\ y # <<>>
         /\ \A i \in 1..Len(x) : y[i] = IF i = Len(x) THEN d ELSE x[i]
<1>1. Len(x) \in Nat /\ Len(x) > 0 /\ DOMAIN x = 1..Len(x)
  OBVIOUS
<1>2. x \in Seq(S \cup {d}) /\ Len(x) \in 1..Len(x)
  BY <1>1
<1>3. y \in Seq(S \cup {d}) /\ Len(y) = Len(x)
  BY <1>2
<1>4. y # <<>>
  BY <1>1, <1>3
<1>5. \A i \in 1..Len(x) : y[i] = IF i = Len(x) THEN d ELSE x[i]
  BY <1>1
<1> QED BY <1>3, <1>4, <1>5

LEMMA Appended ==
  ASSUME NEW S, NEW x \in Seq(S), NEW e, NEW y, y = Append(x, e)
  PROVE  /\ y \in Seq(S \cup {e})
         /\ Len(y) = Len(x) + 1 /\ Len(x) \in Nat /\ y # <<>>
         /\ \A i \in 1..Len(x) : y[i] = x[i]
         /\ y[Len(x) + 1] = e
<1>1. x \in Seq(S \cup {e}) /\ e \in S \cup {e}
  OBVIOUS
<1>2. y \in Seq(S \cup {e}) /\ Len(y) = Len(x) + 1 /\ Len(x) \in Nat
  BY <1>1
<1>3. y # <<>>
  BY <1>2
<1>4. (\A i \in 1..Len(x) : y[i] = x[i]) /\ y[Len(x) + 1] = e
  BY <1>1
<1> QED BY <1>2, <1>3, <1>4

LEMMA WithoutLast ==
  ASSUME NEW S, NEW x \in Seq(S), x # <<>>, NEW y, y = Front(x)
  PROVE  /\ y \in Seq(S)
         /\ Len(y) = Len(x) - 1 /\ Len(x) \in Nat /\ Len(x) > 0
         /\ \A i \in 1..Len(x) - 1 : y[i] = x[i]
<1>1. Len(x) \in Nat /\ Len(x) > 0
  OBVIOUS
<1>2. y = SubSeq(x, 1, Len(x) - 1)
  BY DEF Front
<1>3. y \in Seq(S)
  BY <1>1, <1>2
<1>4. Len(y) = Len(x) - 1
  <2>1. 1 \in Int /\ Len(x) - 1 \in Int /\ \A i \in 1..Len(x) - 1 : x[i] \in S
    BY <1>1
  <2>2. Len(y) = IF 1 <= Len(x) - 1 THEN Len(x) - 1 - 1 + 1 ELSE 0
    BY <1>2, <2>1, SubSeqProperties
  <2> QED BY <1>1, <2>2
<1>5. \A i \in 1..Len(x) - 1 : y[i] = x[i]
  BY <1>1, <1>2
<1> QED BY <1>1, <1>3, <1>4, <1>5

-----------------------------------------------------------------------------
(* The invariant *)

LEMMA InitEncloses == Init => Enclosing
<1> SUFFICES ASSUME Init
             PROVE  Enclosing
  OBVIOUS
<1>1. calls = <<>> /\ context = <<>>
  BY DEF Init
<1>2. calls \in Seq({}) /\ Len(calls) = 0 /\ context \in Seq({}) /\ Len(context) = 0
  BY <1>1
<1>3. AreCalls(calls)
  BY <1>2 DEF AreCalls
<1>4. Encloses(calls, context)
  BY <1>1, <1>2 DEF Encloses
<1>5. PlannedOnce
  BY <1>1 DEF PlannedOnce, Idle
<1> QED BY <1>3, <1>4, <1>5 DEF Enclosing

\* Going on to the next step of the innermost call.
LEMMA AdvancedEncloses ==
  ASSUME NEW x, NEW c, AreCalls(x), Encloses(x, c), x # <<>>,
         NEW y, y = [x EXCEPT ![Len(x)].at = @ + 1]
  PROVE  /\ AreCalls(y) /\ Encloses(y, c) /\ y # <<>> /\ Len(y) = Len(x)
         /\ \A i \in 1..Len(x) : y[i].t = x[i].t
<1>1. PICK S : x \in Seq(S)
  BY DEF AreCalls
<1>2. Len(x) \in Nat /\ Len(x) > 0
  BY <1>1
<1> DEFINE d == [x[Len(x)] EXCEPT !.at = x[Len(x)].at + 1]
<1>3. IsCall(d) /\ d.t = x[Len(x)].t
  <2>1. IsCall(x[Len(x)])
    BY <1>2 DEF AreCalls
  <2> QED BY <2>1, NextStep
<1>4. y = [x EXCEPT ![Len(x)] = d]
  OBVIOUS
<1> HIDE DEF d
<1>5. /\ y \in Seq(S \cup {d}) /\ Len(y) = Len(x) /\ y # <<>>
      /\ \A i \in 1..Len(x) : y[i] = IF i = Len(x) THEN d ELSE x[i]
  BY <1>1, <1>4, LastReplaced
<1>6. \A i \in 1..Len(x) : IsCall(y[i]) /\ y[i].t = x[i].t
  BY <1>3, <1>5 DEF AreCalls
<1>7. AreCalls(y)
  BY <1>5, <1>6 DEF AreCalls
<1>8. Encloses(y, c)
  BY <1>2, <1>5, <1>6 DEF Encloses
<1> QED BY <1>5, <1>6, <1>7, <1>8

\* A call of the client, of nothing, is enclosed by nothing.
LEMMA SingleEncloses ==
  ASSUME NEW c, NEW e, IsCall(e), c = <<>>
  PROVE  AreCalls(<<e>>) /\ Encloses(<<e>>, c)
<1>1. <<e>> \in Seq({e}) /\ Len(<<e>>) = 1 /\ <<e>>[1] = e /\ <<e>> # <<>>
  OBVIOUS
<1>2. c \in Seq({}) /\ Len(c) = 0
  OBVIOUS
<1>3. AreCalls(<<e>>)
  <2>1. \E S : <<e>> \in Seq(S)
    BY <1>1
  <2>2. \A i \in 1..Len(<<e>>) : IsCall(<<e>>[i])
    <3>1. \A i \in 1..Len(<<e>>) : <<e>>[i] = e
      BY <1>1
    <3> QED BY <3>1
  <2> QED BY <2>1, <2>2 DEF AreCalls
<1> QED BY <1>1, <1>2, <1>3 DEF Encloses

\* A call begun inside of the innermost one, x, which the context now names.
LEMMA InnerEncloses ==
  ASSUME NEW x, NEW c, AreCalls(x), Encloses(x, c), x # <<>>,
         NEW e, IsCall(e),
         NEW y, y = Append(x, e), NEW d, d = Append(c, x[Len(x)].t)
  PROVE  AreCalls(y) /\ Encloses(y, d) /\ y # <<>>
<1>1. PICK S : x \in Seq(S)
  BY DEF AreCalls
<1>2. PICK T : c \in Seq(T)
  BY DEF Encloses
<1>3. /\ y \in Seq(S \cup {e}) /\ Len(y) = Len(x) + 1 /\ Len(x) \in Nat /\ y # <<>>
      /\ \A i \in 1..Len(x) : y[i] = x[i]
      /\ y[Len(x) + 1] = e
  BY <1>1, Appended
<1>4. /\ d \in Seq(T \cup {x[Len(x)].t}) /\ Len(d) = Len(c) + 1 /\ Len(c) \in Nat
      /\ \A i \in 1..Len(c) : d[i] = c[i]
      /\ d[Len(c) + 1] = x[Len(x)].t
  BY <1>2, Appended
<1>5. Len(c) = Len(x) - 1 /\ \A i \in 1..Len(c) : c[i] = x[i].t
  BY DEF Encloses
<1>6. AreCalls(y)
  <2>1. \A i \in 1..Len(y) : IsCall(y[i])
    BY <1>3 DEF AreCalls
  <2> QED BY <1>3, <2>1 DEF AreCalls
<1>7. Len(d) = Len(y) - 1
  BY <1>3, <1>4, <1>5
<1>8. ASSUME NEW i \in 1..Len(d)
      PROVE  d[i] = y[i].t
  <2>1. CASE i = Len(x)
    BY <1>3, <1>4, <1>5, <2>1
  <2>2. CASE i # Len(x)
    BY <1>3, <1>4, <1>5, <2>2
  <2> QED BY <2>1, <2>2
<1> QED BY <1>3, <1>4, <1>6, <1>7, <1>8 DEF Encloses

\* The return of an inner call takes one frame off both.
LEMMA ReturnEncloses ==
  ASSUME NEW x, NEW c, AreCalls(x), Encloses(x, c), Len(x) > 1,
         NEW y, y = Front(x), NEW d, d = Front(c)
  PROVE  AreCalls(y) /\ Encloses(y, d)
<1>1. PICK S : x \in Seq(S)
  BY DEF AreCalls
<1>2. PICK T : c \in Seq(T)
  BY DEF Encloses
<1>3. x # <<>> /\ Len(x) \in Nat
  BY <1>1
<1>4. Len(c) = Len(x) - 1 /\ \A i \in 1..Len(c) : c[i] = x[i].t
  BY <1>3 DEF Encloses
<1>5. c # <<>>
  BY <1>3, <1>4
<1>6. y \in Seq(S) /\ Len(y) = Len(x) - 1 /\ \A i \in 1..Len(x) - 1 : y[i] = x[i]
  BY <1>1, <1>3, WithoutLast
<1>7. d \in Seq(T) /\ Len(d) = Len(c) - 1 /\ \A i \in 1..Len(c) - 1 : d[i] = c[i]
  BY <1>2, <1>5, WithoutLast
<1>8. AreCalls(y)
  <2>1. \A i \in 1..Len(y) : IsCall(y[i])
    BY <1>3, <1>6 DEF AreCalls
  <2> QED BY <1>6, <2>1 DEF AreCalls
<1>9. y # <<>> /\ Len(d) = Len(y) - 1
  BY <1>3, <1>4, <1>6, <1>7
<1>10. \A i \in 1..Len(d) : d[i] = y[i].t
  BY <1>3, <1>4, <1>6, <1>7
<1> QED BY <1>7, <1>8, <1>9, <1>10 DEF Encloses

\* Taking as many frames off the context as calls there are inside.
LEMMA UnwoundIsEmpty ==
  ASSUME NEW x, NEW c, AreCalls(x), Encloses(x, c), x # <<>>
  PROVE  Unwound(c, Len(x) - 1) = <<>>
<1>1. Len(x) \in Nat /\ Len(x) > 0
  BY DEF AreCalls
<1>2. Len(c) = Len(x) - 1
  BY DEF Encloses
<1>3. Len(c) - (Len(x) - 1) = 0
  BY <1>1, <1>2
<1>4. SubSeq(c, 1, 0) = <<>>
  BY SubSeqEmpty
<1> QED BY <1>3, <1>4 DEF Unwound

\* Steps that only go on: to the next step, with or without a change.
LEMMA GoingOnEncloses ==
  ASSUME Enclosing, ~Idle, calls' = Advanced, context' = context, plans' = plans
  PROVE  Enclosing'
<1>1. AreCalls(calls) /\ Encloses(calls, context) /\ calls # <<>> /\ plans = 1
  BY DEF Enclosing, PlannedOnce, Idle
<1>2. AreCalls(calls') /\ Encloses(calls', context)
  BY <1>1, AdvancedEncloses DEF Advanced
<1>3. AreCalls(calls)' /\ Encloses(calls, context)'
  BY <1>2 DEF AreCalls, Encloses
<1>4. PlannedOnce'
  BY <1>1 DEF PlannedOnce
<1> QED BY <1>3, <1>4 DEF Enclosing

\* Between calls the context is empty.
LEMMA IdleIsEmpty ==
  ASSUME NEW x, NEW c, Encloses(x, c), x = <<>> \/ Len(x) = 1
  PROVE  c = <<>> /\ Encloses(<<>>, c)
<1>1. PICK T : c \in Seq(T)
  BY DEF Encloses
<1>2. Len(c) = 0
  BY DEF Encloses
<1>3. c = <<>>
  BY <1>1, <1>2
<1>4. (IF <<>> = <<>> THEN 0 ELSE Len(<<>>) - 1) = 0
  OBVIOUS
<1>5. \A i \in 1..Len(c) : c[i] = <<>>[i].t
  BY <1>2
<1>6. Encloses(<<>>, c)
  BY <1>1, <1>2, <1>4, <1>5, Zenon DEF Encloses
<1> QED BY <1>3, <1>6

LEMMA NoCalls == AreCalls(<<>>) /\ Encloses(<<>>, <<>>)
<1>1. <<>> \in Seq({}) /\ Len(<<>>) = 0
  OBVIOUS
<1>2. AreCalls(<<>>)
  BY <1>1 DEF AreCalls
<1> QED BY <1>1, <1>2 DEF Encloses

LEMMA ApplyEncloses ==
  ASSUME Enclosing, NEW t, NEW keep, Apply(t, keep)
  PROVE  Enclosing'
<1>1. calls = <<>> /\ Encloses(calls, context)
  BY DEF Apply, Idle, Enclosing
<1>2. context = <<>>
  BY <1>1, IdleIsEmpty
<1>3. PICK script, holds : calls' = <<Begun(t, script, keep, holds)>>
  BY DEF Apply
<1> DEFINE e == Begun(t, script, keep, holds)
<1>4. IsCall(e)
  BY BegunIsCall
<1> HIDE DEF e
<1>5. AreCalls(<<e>>) /\ Encloses(<<e>>, context)
  BY <1>2, <1>4, SingleEncloses
<1>6. calls' = <<e>> /\ context' = context
  BY <1>3 DEF e, Apply
<1>7. AreCalls(calls') /\ Encloses(calls', context')
  BY <1>5, <1>6
<1>8. plans' = 1
  BY <1>2 DEF Apply, vet
<1>9. AreCalls(calls)' /\ Encloses(calls, context)'
  BY <1>7 DEF AreCalls, Encloses
<1> QED BY <1>8, <1>9 DEF Enclosing, PlannedOnce

LEMMA CallInnerEncloses ==
  ASSUME Enclosing, CallInner
  PROVE  Enclosing'
<1>1. AreCalls(calls) /\ Encloses(calls, context) /\ calls # <<>> /\ plans = 1
  BY DEF Enclosing, PlannedOnce, Idle, CallInner, Running
<1>2. PICK script, keep : calls' = Append(Advanced, Begun(step.of, script, keep, keep))
  BY DEF CallInner
<1> DEFINE x == Advanced
           e == Begun(step.of, script, keep, keep)
<1>3. IsCall(e)
  BY BegunIsCall
<1>4. /\ AreCalls(x) /\ Encloses(x, context) /\ x # <<>> /\ Len(x) = Len(calls)
      /\ \A i \in 1..Len(calls) : x[i].t = calls[i].t
  BY <1>1, AdvancedEncloses DEF Advanced
<1>5. calls' = Append(x, e)
  BY <1>2
<1>6. context' = Append(context, x[Len(x)].t)
  <2>1. Len(calls) \in 1..Len(calls)
    BY <1>1 DEF AreCalls
  <2>2. x[Len(x)].t = top.t
    BY <1>4, <2>1 DEF top, Last
  <2>3. context' = Append(context, top.t)
    BY DEF CallInner, Entered
  <2> QED BY <2>2, <2>3
<1> HIDE DEF x, e
<1>7. AreCalls(calls') /\ Encloses(calls', context')
  BY <1>3, <1>4, <1>5, <1>6, InnerEncloses
<1>8. plans' = 1
  <2>1. PICK T : context \in Seq(T)
    BY <1>1 DEF Encloses
  <2>2. Append(context, top.t) # <<>>
    BY <2>1, Appended
  <2> QED BY <1>1, <2>2 DEF CallInner, Entered, vet
<1>9. AreCalls(calls)' /\ Encloses(calls, context)'
  BY <1>7 DEF AreCalls, Encloses
<1> QED BY <1>8, <1>9 DEF Enclosing, PlannedOnce

LEMMA ReturnInnerEncloses ==
  ASSUME Enclosing, ReturnInner
  PROVE  Enclosing'
<1>1. AreCalls(calls) /\ Encloses(calls, context) /\ Len(calls) > 1
  BY DEF Enclosing, ReturnInner
<1>2. calls # <<>>
  BY <1>1
<1>3. AreCalls(calls') /\ Encloses(calls', context')
  BY <1>1, ReturnEncloses DEF ReturnInner
<1>4. plans' = 1
  BY <1>2 DEF Enclosing, PlannedOnce, Idle, ReturnInner
<1>5. AreCalls(calls)' /\ Encloses(calls, context)'
  BY <1>3 DEF AreCalls, Encloses
<1> QED BY <1>4, <1>5 DEF Enclosing, PlannedOnce

LEMMA EndEncloses ==
  ASSUME Enclosing, ReturnToClient \/ Throw
  PROVE  Enclosing'
<1>1. AreCalls(calls) /\ Encloses(calls, context)
  BY DEF Enclosing
<1>2. calls' = <<>>
  BY DEF ReturnToClient, Throw
<1>3. context' = <<>>
  <2>1. CASE ReturnToClient
    BY <1>1, <2>1, IdleIsEmpty DEF ReturnToClient
  <2>2. CASE Throw
    <3>1. calls # <<>>
      BY <2>2 DEF Throw, AtHook, Running, Idle
    <3> QED BY <1>1, <2>2, <3>1, UnwoundIsEmpty DEF Throw
  <2> QED BY <2>1, <2>2
<1>4. AreCalls(calls') /\ Encloses(calls', context')
  BY <1>2, <1>3, NoCalls
<1>5. AreCalls(calls)' /\ Encloses(calls, context)'
  BY <1>4 DEF AreCalls, Encloses
<1>6. PlannedOnce'
  BY <1>2 DEF PlannedOnce, Idle
<1> QED BY <1>5, <1>6 DEF Enclosing

LEMMA NextEncloses == Enclosing /\ [Next]_vars => Enclosing'
<1> SUFFICES ASSUME Enclosing, [Next]_vars
             PROVE  Enclosing'
  OBVIOUS
<1>1. ASSUME NEW t \in Transformations, NEW keep \in BOOLEAN, Apply(t, keep)
      PROVE  Enclosing'
  BY <1>1, ApplyEncloses
<1>2. CASE ChangeGraph \/ MarkStale \/ RunHook \/ ExchangeVertices
  <2>1. ~Idle /\ calls' = Advanced /\ context' = context /\ plans' = plans
    BY <1>2 DEF ChangeGraph, MarkStale, RunHook, ExchangeVertices, AtHook, Running
  <2> QED BY <2>1, GoingOnEncloses
<1>3. CASE CallInner
  BY <1>3, CallInnerEncloses
<1>4. CASE ReturnInner
  BY <1>4, ReturnInnerEncloses
<1>5. CASE ReturnToClient \/ Throw
  BY <1>5, EndEncloses
<1>6. CASE Read \/ UNCHANGED vars
  <2>1. calls' = calls /\ context' = context /\ plans' = plans
    BY <1>6 DEF Read, vars
  <2>2. AreCalls(calls)' /\ Encloses(calls, context)'
    BY <2>1 DEF Enclosing, AreCalls, Encloses
  <2>3. PlannedOnce'
    BY <2>1 DEF Enclosing, PlannedOnce, Idle
  <2> QED BY <2>2, <2>3 DEF Enclosing
<1> QED BY <1>1, <1>2, <1>3, <1>4, <1>5, <1>6 DEF Next

LEMMA AlwaysEnclosing == Spec => []Enclosing
BY InitEncloses, NextEncloses, PTL DEF Spec

-----------------------------------------------------------------------------
(* What is true of the steps of every transformation *)

\* How deep calls nest inside of a transformation.
Level(t) ==
  IF t \in {"EdgeMerger", "On1", "On2", "On3"} THEN 3
  ELSE IF t \in {"To22", "DeletingHostChain"} THEN 2
  ELSE IF t \in {"To12", "InNewChain", "EdgeSplit"} THEN 1 ELSE 0

\* The transformations that others call.
Called ==
  {"From11", "From12", "From12Cycle", "From13", "From22", "To11", "To12", "To13",
   "InExistingChain", "PreservingHostChain", "DeletingHostChain", "ComponentDeletion"}

AnyStep ==
  [op : {"on_start", "on_end", "change", "mark", "exchange", "nested"}, of : Called \cup {"itself"}]

NestsIn(n, x) ==
  \A j \in 1..Len(x) : x[j].op = "nested" => x[j].of \in Called /\ Level(x[j].of) < n

Closes(x) == \E j \in 1..Len(x) : x[j].op = "on_end"
Surrounds(x) ==
  \A j \in 1..Len(x) : x[j].op = "nested" =>
    /\ \E i \in 1..j - 1 : x[i].op = "on_start"
    /\ \E i \in j + 1..Len(x) : x[i].op = "on_end"

\* The first step of x from i on that leaves the descriptors right, if the inner
\* transformations do so, comes before the first hook of E.
Due(E, x, i) ==
  \E k \in i..Len(x) : x[k].op \in {"mark", "nested"} /\ \A j \in i..k - 1 : x[j].op \notin E

ChangesAreDue(E, x) == \A j \in 1..Len(x) : x[j].op = "change" => Due(E, x, j + 1)

\* The hooks that may not read before an update.
Reading(t) == IF t = "From12Cycle" THEN {} ELSE {"on_end"}

Exchanges(x, i) == \E j \in i..Len(x) : x[j].op = "exchange"

Keeping == {"From12", "From12Cycle", "From22", "To11"}

\* What the steps of a transformation share.
Composed(t, x) ==
  /\ x \in Seq(AnyStep)
  /\ NestsIn(Level(t), x)
  /\ t # "EdgeSplit" => Surrounds(x)
  /\ ChangesAreDue(Reading(t), x)
  /\ t \in Called => Due(Reading(t), x, 1)
  /\ t \in Keeping => Exchanges(x, 1)

LEMMA TheSteps ==
  /\ Start \in AnyStep /\ Start.op = "on_start"
  /\ End \in AnyStep /\ End.op = "on_end"
  /\ Change \in AnyStep /\ Change.op = "change"
  /\ Mark \in AnyStep /\ Mark.op = "mark"
  /\ Exchange \in AnyStep /\ Exchange.op = "exchange"
  /\ \A t \in Called : Inner(t) \in AnyStep /\ Inner(t).op = "nested" /\ Inner(t).of = t
<1>1. Start \in AnyStep /\ Start.op = "on_start"
  BY DEF Start, Do, AnyStep
<1>2. End \in AnyStep /\ End.op = "on_end"
  BY DEF End, Do, AnyStep
<1>3. Change \in AnyStep /\ Change.op = "change"
  BY DEF Change, Do, AnyStep
<1>4. Mark \in AnyStep /\ Mark.op = "mark"
  BY DEF Mark, Do, AnyStep
<1>5. Exchange \in AnyStep /\ Exchange.op = "exchange"
  BY DEF Exchange, Do, AnyStep
<1>6. \A t \in Called : Inner(t) \in AnyStep /\ Inner(t).op = "nested" /\ Inner(t).of = t
  BY DEF Inner, AnyStep
<1> QED BY <1>1, <1>2, <1>3, <1>4, <1>5, <1>6

\* The inner transformations by name.
LEMMA InnerSteps ==
  \A t \in {"From11", "From12", "From12Cycle", "From13", "From22", "To11", "To12", "To13",
            "InExistingChain", "PreservingHostChain", "DeletingHostChain", "ComponentDeletion"} :
    Inner(t) \in AnyStep /\ Inner(t).op = "nested" /\ Inner(t).of = t
BY TheSteps DEF Called

LEMMA SimpleIsComposed ==
  ASSUME NEW t \in Transformations, t \notin Keeping, t # "From12Cycle", NEW x \in Simple
  PROVE  Composed(t, x)
<1> USE TheSteps
<1>1. x = <<Start, Change, Mark, End>>
  BY DEF Simple
<1>2. x \in Seq(AnyStep) /\ Len(x) = 4
  BY <1>1
<1>3. x[1].op = "on_start" /\ x[2].op = "change" /\ x[3].op = "mark" /\ x[4].op = "on_end"
  BY <1>1
<1> HIDE TheSteps
<1>4. NestsIn(Level(t), x) /\ Surrounds(x)
  BY <1>2, <1>3 DEF NestsIn, Surrounds
<1>5. Due(Reading(t), x, 1) /\ Due(Reading(t), x, 3)
  BY <1>2, <1>3 DEF Due, Reading
<1>6. ChangesAreDue(Reading(t), x)
  BY <1>2, <1>3, <1>5 DEF ChangesAreDue
<1> QED BY <1>2, <1>4, <1>5, <1>6 DEF Composed

LEMMA KeepingMergerIsComposed ==
  ASSUME NEW t \in {"From12", "From22"}, NEW x \in KeepingMerger
  PROVE  Composed(t, x)
<1> USE TheSteps
<1>1. x = <<Start, Exchange, Change, Mark, End>>
  BY DEF KeepingMerger
<1>2. x \in Seq(AnyStep) /\ Len(x) = 5
  BY <1>1
<1>3. /\ x[1].op = "on_start" /\ x[2].op = "exchange" /\ x[3].op = "change"
      /\ x[4].op = "mark" /\ x[5].op = "on_end"
  BY <1>1
<1> HIDE TheSteps
<1>4. NestsIn(Level(t), x) /\ Surrounds(x) /\ Exchanges(x, 1)
  BY <1>2, <1>3 DEF NestsIn, Surrounds, Exchanges
<1>5. Due(Reading(t), x, 1) /\ Due(Reading(t), x, 4)
  BY <1>2, <1>3 DEF Due, Reading
<1>6. ChangesAreDue(Reading(t), x)
  BY <1>2, <1>3, <1>5 DEF ChangesAreDue
<1> QED BY <1>2, <1>4, <1>5, <1>6 DEF Composed

LEMMA CycleMergerIsComposed ==
  ASSUME NEW x \in CycleMerger
  PROVE  Composed("From12Cycle", x)
<1> USE TheSteps
<1>1. x = <<Start, Exchange, Change, End, Mark>>
  BY DEF CycleMerger
<1>2. x \in Seq(AnyStep) /\ Len(x) = 5
  BY <1>1
<1>3. /\ x[1].op = "on_start" /\ x[2].op = "exchange" /\ x[3].op = "change"
      /\ x[4].op = "on_end" /\ x[5].op = "mark"
  BY <1>1
<1> HIDE TheSteps
<1>4. NestsIn(Level("From12Cycle"), x) /\ Surrounds(x) /\ Exchanges(x, 1)
  BY <1>2, <1>3 DEF NestsIn, Surrounds, Exchanges
<1>5. Due(Reading("From12Cycle"), x, 1) /\ Due(Reading("From12Cycle"), x, 4)
  BY <1>2, <1>3 DEF Due, Reading
<1>6. ChangesAreDue(Reading("From12Cycle"), x)
  BY <1>2, <1>3, <1>5 DEF ChangesAreDue
<1> QED BY <1>2, <1>4, <1>5, <1>6 DEF Composed

LEMMA To11IsComposed ==
  ASSUME NEW x \in To11
  PROVE  Composed("To11", x)
<1> USE TheSteps
<1>1. CASE x = <<Start, Change, Mark, Exchange, End>>
  <2>1. x \in Seq(AnyStep) /\ Len(x) = 5
    BY <1>1
  <2>2. /\ x[1].op = "on_start" /\ x[2].op = "change" /\ x[3].op = "mark"
        /\ x[4].op = "exchange" /\ x[5].op = "on_end"
    BY <1>1
  <2> HIDE TheSteps
  <2>3. NestsIn(Level("To11"), x) /\ Surrounds(x) /\ Exchanges(x, 1)
    BY <2>1, <2>2 DEF NestsIn, Surrounds, Exchanges
  <2>4. Due(Reading("To11"), x, 1) /\ Due(Reading("To11"), x, 3)
    BY <2>1, <2>2 DEF Due, Reading
  <2>5. ChangesAreDue(Reading("To11"), x)
    BY <2>1, <2>2, <2>4 DEF ChangesAreDue
  <2> QED BY <2>1, <2>3, <2>4, <2>5 DEF Composed
<1>2. CASE x = <<Start, Start, Change, Mark, Exchange, End, End>>
  <2>1. x \in Seq(AnyStep) /\ Len(x) = 7
    BY <1>2
  <2>2. /\ x[1].op = "on_start" /\ x[2].op = "on_start" /\ x[3].op = "change"
        /\ x[4].op = "mark" /\ x[5].op = "exchange" /\ x[6].op = "on_end" /\ x[7].op = "on_end"
    BY <1>2
  <2> HIDE TheSteps
  <2>3. NestsIn(Level("To11"), x) /\ Surrounds(x) /\ Exchanges(x, 1)
    BY <2>1, <2>2 DEF NestsIn, Surrounds, Exchanges
  <2>4. Due(Reading("To11"), x, 1) /\ Due(Reading("To11"), x, 4)
    BY <2>1, <2>2 DEF Due, Reading
  <2>5. ChangesAreDue(Reading("To11"), x)
    BY <2>1, <2>2, <2>4 DEF ChangesAreDue
  <2> QED BY <2>1, <2>3, <2>4, <2>5 DEF Composed
<1> QED BY <1>1, <1>2 DEF To11

LEMMA To22IsComposed ==
  ASSUME NEW x \in To22
  PROVE  Composed("To22", x)
<1> USE TheSteps, InnerSteps
<1>1. x = <<Start, Inner("To13"), Inner("To12"), Inner("From11"), End>>
  BY DEF To22
<1>2. x \in Seq(AnyStep) /\ Len(x) = 5
  BY <1>1
<1>3. /\ x[1].op = "on_start" /\ x[2].of = "To13" /\ x[3].of = "To12"
      /\ x[4].of = "From11" /\ x[5].op = "on_end"
      /\ \A j \in {2, 3, 4} : x[j].op = "nested"
  BY <1>1
<1> HIDE TheSteps, InnerSteps
<1>4. NestsIn(Level("To22"), x)
  BY <1>2, <1>3 DEF NestsIn, Called, Level
<1>5. Surrounds(x) /\ ChangesAreDue(Reading("To22"), x)
  BY <1>2, <1>3 DEF Surrounds, ChangesAreDue
<1> QED BY <1>2, <1>4, <1>5 DEF Composed, Called, Keeping

LEMMA InNewChainIsComposed ==
  ASSUME NEW x \in InNewChain
  PROVE  Composed("InNewChain", x)
<1> USE TheSteps, InnerSteps
<1>1. PICK t \in {"From12", "From12Cycle", "From13"} : x = <<Change, Mark, Start, Inner(t), End>>
  BY DEF InNewChain
<1>2. x \in Seq(AnyStep) /\ Len(x) = 5
  BY <1>1
<1>3. /\ x[1].op = "change" /\ x[2].op = "mark" /\ x[3].op = "on_start"
      /\ x[4].op = "nested" /\ x[4].of = t /\ x[5].op = "on_end"
  BY <1>1
<1> HIDE TheSteps, InnerSteps
<1>4. NestsIn(Level("InNewChain"), x)
  BY <1>2, <1>3 DEF NestsIn, Called, Level
<1>5. Surrounds(x)
  BY <1>2, <1>3 DEF Surrounds
<1>6. Due(Reading("InNewChain"), x, 2)
  BY <1>2, <1>3 DEF Due
<1>7. ChangesAreDue(Reading("InNewChain"), x)
  BY <1>2, <1>3, <1>6 DEF ChangesAreDue
<1> QED BY <1>2, <1>4, <1>5, <1>7 DEF Composed, Called, Keeping

LEMMA DeletingHostChainIsComposed ==
  ASSUME NEW x \in DeletingHostChain
  PROVE  Composed("DeletingHostChain", x)
<1> USE TheSteps, InnerSteps
<1>1. PICK t \in {"To12", "To13"} : x = <<Start, Inner(t), Inner("ComponentDeletion"), End>>
  BY DEF DeletingHostChain
<1>2. x \in Seq(AnyStep) /\ Len(x) = 4
  BY <1>1
<1>3. /\ x[1].op = "on_start" /\ x[2].op = "nested" /\ x[2].of = t
      /\ x[3].op = "nested" /\ x[3].of = "ComponentDeletion" /\ x[4].op = "on_end"
  BY <1>1
<1> HIDE TheSteps, InnerSteps
<1>4. NestsIn(Level("DeletingHostChain"), x)
  BY <1>2, <1>3 DEF NestsIn, Called, Level
<1>5. Surrounds(x) /\ ChangesAreDue(Reading("DeletingHostChain"), x)
  BY <1>2, <1>3 DEF Surrounds, ChangesAreDue
<1>6. Due(Reading("DeletingHostChain"), x, 1)
  BY <1>2, <1>3 DEF Due, Reading
<1> QED BY <1>2, <1>4, <1>5, <1>6 DEF Composed, Keeping

LEMMA EdgeMergerIsComposed ==
  ASSUME NEW x \in EdgeMerger
  PROVE  Composed("EdgeMerger", x)
<1> USE TheSteps, InnerSteps
<1>1. PICK t \in {"DeletingHostChain", "PreservingHostChain"} : x = <<Start, Inner(t), End>>
  BY DEF EdgeMerger
<1>2. x \in Seq(AnyStep) /\ Len(x) = 3
  BY <1>1
<1>3. x[1].op = "on_start" /\ x[2].op = "nested" /\ x[2].of = t /\ x[3].op = "on_end"
  BY <1>1
<1> HIDE TheSteps, InnerSteps
<1>4. NestsIn(Level("EdgeMerger"), x)
  BY <1>2, <1>3 DEF NestsIn, Called, Level
<1>5. Surrounds(x) /\ ChangesAreDue(Reading("EdgeMerger"), x)
  BY <1>2, <1>3 DEF Surrounds, ChangesAreDue
<1> QED BY <1>2, <1>4, <1>5 DEF Composed, Called, Keeping

LEMMA EdgeSplitIsComposed ==
  ASSUME NEW x \in EdgeSplit
  PROVE  Composed("EdgeSplit", x)
<1> USE TheSteps, InnerSteps
<1>1. x = <<Inner("InExistingChain")>>
  BY DEF EdgeSplit
<1>2. x \in Seq(AnyStep) /\ Len(x) = 1 /\ x[1].op = "nested" /\ x[1].of = "InExistingChain"
  BY <1>1
<1> HIDE TheSteps, InnerSteps
<1>3. NestsIn(Level("EdgeSplit"), x) /\ ChangesAreDue(Reading("EdgeSplit"), x)
  BY <1>2 DEF NestsIn, Called, Level, ChangesAreDue
<1> QED BY <1>2, <1>3 DEF Composed, Called, Keeping

-----------------------------------------------------------------------------
(* Steps one after the other *)

NoEnd(x) == \A j \in 1..Len(x) : x[j].op # "on_end"
OpensFirst(x) == x # <<>> /\ x[1].op = "on_start"
InnersEnd(x) ==
  \A j \in 1..Len(x) : x[j].op = "nested" => \E i \in j + 1..Len(x) : x[i].op = "on_end"

LEMMA Joined ==
  ASSUME NEW x \in Seq(AnyStep), NEW y \in Seq(AnyStep), NEW z, z = x \o y
  PROVE  /\ z \in Seq(AnyStep) /\ Len(x) \in Nat /\ Len(y) \in Nat
         /\ Len(z) = Len(x) + Len(y)
         /\ \A i \in 1..Len(x) : z[i] = x[i]
         /\ \A i \in 1..Len(y) : z[Len(x) + i] = y[i]
         /\ \A k \in 1..Len(z) : k \notin 1..Len(x) => k - Len(x) \in 1..Len(y)
OBVIOUS

LEMMA JoinedNests ==
  ASSUME NEW x \in Seq(AnyStep), NEW y \in Seq(AnyStep), NEW z, z = x \o y,
         NEW n, NestsIn(n, x), NestsIn(n, y)
  PROVE  NestsIn(n, z)
<1>1. ASSUME NEW j \in 1..Len(z), z[j].op = "nested"
      PROVE  z[j].of \in Called /\ Level(z[j].of) < n
  <2>1. CASE j \in 1..Len(x)
    <3>1. z[j] = x[j]
      BY <2>1, Joined
    <3> QED BY <1>1, <2>1, <3>1 DEF NestsIn
  <2>2. CASE j \notin 1..Len(x)
    <3>1. PICK k \in 1..Len(y) : j = Len(x) + k /\ z[j] = y[k]
      <4>1. j - Len(x) \in 1..Len(y) /\ j = Len(x) + (j - Len(x))
        BY <2>2, Joined
      <4> QED BY <4>1, Joined
    <3> QED BY <1>1, <3>1 DEF NestsIn
  <2> QED BY <2>1, <2>2
<1> QED BY <1>1 DEF NestsIn

LEMMA DueFirst ==
  ASSUME NEW x \in Seq(AnyStep), NEW y \in Seq(AnyStep), NEW z, z = x \o y,
         NEW E, NEW i \in Nat \ {0}, Due(E, x, i)
  PROVE  Due(E, z, i)
<1>1. PICK k \in i..Len(x) :
        x[k].op \in {"mark", "nested"} /\ \A j \in i..k - 1 : x[j].op \notin E
  BY DEF Due
<1>2. Len(x) \in Nat /\ Len(y) \in Nat /\ Len(z) = Len(x) + Len(y)
      /\ \A m \in 1..Len(x) : z[m] = x[m]
  BY Joined
<1>3. k \in i..Len(z) /\ z[k] = x[k] /\ \A j \in i..k - 1 : z[j] = x[j]
  BY <1>2
<1> QED BY <1>1, <1>3 DEF Due

LEMMA DueSecond ==
  ASSUME NEW x \in Seq(AnyStep), NEW y \in Seq(AnyStep), NEW z, z = x \o y,
         NEW E, NEW i \in Nat \ {0}, Due(E, y, i),
         NEW h \in Nat \ {0}, h <= Len(x) + i,
         \A j \in h..Len(x) + i - 1 : z[j].op \notin E
  PROVE  Due(E, z, h)
<1>1. PICK k \in i..Len(y) :
        y[k].op \in {"mark", "nested"} /\ \A j \in i..k - 1 : y[j].op \notin E
  BY DEF Due
<1>2. Len(x) \in Nat /\ Len(y) \in Nat /\ Len(z) = Len(x) + Len(y)
      /\ \A m \in 1..Len(y) : z[Len(x) + m] = y[m]
  BY Joined
<1>3. Len(x) + k \in h..Len(z) /\ z[Len(x) + k] = y[k]
  BY <1>2
<1>4. ASSUME NEW j \in h..Len(x) + k - 1 PROVE z[j].op \notin E
  <2>1. CASE j < Len(x) + i
    <3>1. j \in h..Len(x) + i - 1
      BY <1>2, <2>1
    <3> QED BY <3>1
  <2>2. CASE j >= Len(x) + i
    <3>1. j - Len(x) \in i..k - 1 /\ j - Len(x) \in 1..Len(y) /\ j = Len(x) + (j - Len(x))
      BY <1>2, <2>2
    <3>2. z[j] = y[j - Len(x)]
      BY <1>2, <3>1
    <3> QED BY <1>1, <3>1, <3>2
  <2> QED BY <1>2, <2>1, <2>2
<1>5. PICK m \in h..Len(z) : m = Len(x) + k
  BY <1>3
<1>6. z[m].op \in {"mark", "nested"} /\ \A j \in h..m - 1 : z[j].op \notin E
  BY <1>1, <1>3, <1>4, <1>5
<1> QED BY <1>6 DEF Due

LEMMA JoinedChanges ==
  ASSUME NEW x \in Seq(AnyStep), NEW y \in Seq(AnyStep), NEW z, z = x \o y,
         NEW E, ChangesAreDue(E, x), ChangesAreDue(E, y)
  PROVE  ChangesAreDue(E, z)
<1> USE Joined
<1>1. ASSUME NEW j \in 1..Len(z), z[j].op = "change" PROVE Due(E, z, j + 1)
  <2>1. CASE j \in 1..Len(x)
    <3>1. Due(E, x, j + 1) /\ j + 1 \in Nat \ {0}
      BY <1>1, <2>1 DEF ChangesAreDue
    <3> QED BY <3>1, DueFirst
  <2>2. CASE j \notin 1..Len(x)
    <3>1. PICK k \in 1..Len(y) : j = Len(x) + k /\ z[j] = y[k]
      <4>1. j - Len(x) \in 1..Len(y) /\ j = Len(x) + (j - Len(x))
        BY <2>2
      <4> QED BY <4>1
    <3>2. Due(E, y, k + 1) /\ k + 1 \in Nat \ {0}
      BY <1>1, <3>1 DEF ChangesAreDue
    <3>3. /\ j + 1 \in Nat \ {0} /\ j + 1 <= Len(x) + (k + 1)
          /\ \A i \in j + 1..Len(x) + (k + 1) - 1 : z[i].op \notin E
      BY <3>1
    <3> QED BY <3>2, <3>3, DueSecond
  <2> QED BY <2>1, <2>2
<1> QED BY <1>1 DEF ChangesAreDue

\* Steps without on_end, before some that update: the changes among them are due.
LEMMA DueAfterAll ==
  ASSUME NEW x \in Seq(AnyStep), NEW y \in Seq(AnyStep), NEW z, z = x \o y, NoEnd(x),
         ChangesAreDue({"on_end"}, y), Due({"on_end"}, y, 1)
  PROVE  ChangesAreDue({"on_end"}, z) /\ Due({"on_end"}, z, 1)
<1> USE Joined
<1>1. ASSUME NEW h \in Nat \ {0}, h <= Len(x) + 1 PROVE Due({"on_end"}, z, h)
  <2>1. \A j \in h..Len(x) + 1 - 1 : z[j].op \notin {"on_end"}
    BY DEF NoEnd
  <2>2. 1 \in Nat \ {0}
    OBVIOUS
  <2> QED BY <1>1, <2>1, <2>2, DueSecond, Zenon
<1>2. ASSUME NEW j \in 1..Len(z), z[j].op = "change" PROVE Due({"on_end"}, z, j + 1)
  <2>1. CASE j \in 1..Len(x)
    BY <1>1, <2>1
  <2>2. CASE j \notin 1..Len(x)
    <3>1. PICK k \in 1..Len(y) : j = Len(x) + k /\ z[j] = y[k]
      <4>1. j - Len(x) \in 1..Len(y) /\ j = Len(x) + (j - Len(x))
        BY <2>2
      <4> QED BY <4>1
    <3>2. Due({"on_end"}, y, k + 1) /\ k + 1 \in Nat \ {0}
      BY <1>2, <3>1 DEF ChangesAreDue
    <3>3. /\ j + 1 \in Nat \ {0} /\ j + 1 <= Len(x) + (k + 1)
          /\ \A i \in j + 1..Len(x) + (k + 1) - 1 : z[i].op \notin {"on_end"}
      BY <3>1
    <3> QED BY <3>2, <3>3, DueSecond
  <2> QED BY <2>1, <2>2
<1>3. Due({"on_end"}, z, 1)
  BY <1>1
<1> QED BY <1>2, <1>3 DEF ChangesAreDue

LEMMA JoinedNoEnd ==
  ASSUME NEW x \in Seq(AnyStep), NEW y \in Seq(AnyStep), NEW z, z = x \o y,
         NoEnd(x), NoEnd(y)
  PROVE  NoEnd(z)
<1>1. ASSUME NEW j \in 1..Len(z) PROVE z[j].op # "on_end"
  <2>1. CASE j \in 1..Len(x)
    BY <2>1, Joined DEF NoEnd
  <2>2. CASE j \notin 1..Len(x)
    <3>1. j - Len(x) \in 1..Len(y) /\ j = Len(x) + (j - Len(x))
      BY <2>2, Joined
    <3>2. z[j] = y[j - Len(x)]
      BY <3>1, Joined
    <3> QED BY <3>1, <3>2 DEF NoEnd
  <2> QED BY <2>1, <2>2
<1> QED BY <1>1 DEF NoEnd

\* An on_end for the inner ones of x too, if y has one.
LEMMA JoinedInners ==
  ASSUME NEW x \in Seq(AnyStep), NEW y \in Seq(AnyStep), NEW z, z = x \o y,
         InnersEnd(x) \/ Closes(y), InnersEnd(y)
  PROVE  InnersEnd(z)
<1> USE Joined
<1>1. ASSUME NEW j \in 1..Len(z), z[j].op = "nested"
      PROVE  \E i \in j + 1..Len(z) : z[i].op = "on_end"
  <2>1. CASE j \in 1..Len(x) /\ InnersEnd(x)
    <3>1. PICK i \in j + 1..Len(x) : x[i].op = "on_end"
      BY <1>1, <2>1 DEF InnersEnd
    <3>2. i \in j + 1..Len(z) /\ z[i] = x[i]
      BY <3>1
    <3> QED BY <3>1, <3>2
  <2>2. CASE j \in 1..Len(x) /\ Closes(y)
    <3>1. PICK i \in 1..Len(y) : y[i].op = "on_end"
      BY <2>2 DEF Closes
    <3>2. Len(x) + i \in j + 1..Len(z) /\ z[Len(x) + i] = y[i]
      BY <2>2
    <3> QED BY <3>1, <3>2
  <2>3. CASE j \notin 1..Len(x)
    <3>1. PICK k \in 1..Len(y) : j = Len(x) + k /\ z[j] = y[k]
      <4>1. j - Len(x) \in 1..Len(y) /\ j = Len(x) + (j - Len(x))
        BY <2>3
      <4>2. z[Len(x) + (j - Len(x))] = y[j - Len(x)]
        BY <4>1
      <4> QED BY <4>1, <4>2
    <3>2. PICK i \in k + 1..Len(y) : y[i].op = "on_end"
      BY <1>1, <3>1 DEF InnersEnd
    <3>3. Len(x) + i \in j + 1..Len(z) /\ z[Len(x) + i] = y[i]
      BY <3>1, <3>2
    <3> QED BY <3>2, <3>3
  <2> QED BY <2>1, <2>2, <2>3
<1> QED BY <1>1 DEF InnersEnd

LEMMA JoinedOpensFirst ==
  ASSUME NEW x \in Seq(AnyStep), NEW y \in Seq(AnyStep), NEW z, z = x \o y, OpensFirst(x)
  PROVE  OpensFirst(z)
<1>1. Len(x) > 0 /\ Len(z) > 0 /\ z[1] = x[1]
  BY Joined DEF OpensFirst
<1> QED BY <1>1, Joined DEF OpensFirst

LEMMA JoinedCloses ==
  ASSUME NEW x \in Seq(AnyStep), NEW y \in Seq(AnyStep), NEW z, z = x \o y, Closes(y)
  PROVE  Closes(z)
<1>1. PICK i \in 1..Len(y) : y[i].op = "on_end"
  BY DEF Closes
<1>2. Len(x) + i \in 1..Len(z) /\ z[Len(x) + i] = y[i]
  BY Joined
<1> QED BY <1>1, <1>2 DEF Closes

LEMMA SurroundsIf ==
  ASSUME NEW x \in Seq(AnyStep), OpensFirst(x), InnersEnd(x)
  PROVE  Surrounds(x)
<1>1. ASSUME NEW j \in 1..Len(x), x[j].op = "nested"
      PROVE  \E i \in 1..j - 1 : x[i].op = "on_start"
  <2>1. j # 1 /\ 1 \in 1..j - 1
    BY <1>1 DEF OpensFirst
  <2> QED BY <2>1 DEF OpensFirst
<1> QED BY <1>1 DEF Surrounds, InnersEnd

LEMMA OneOfEach == \A S, T : \A z \in S \otimes T : \E x \in S, y \in T : z = x \o y
BY DEF \otimes

LEMMA To12IsComposed ==
  ASSUME NEW x \in To12
  PROVE  Composed("To12", x)
<1> DEFINE A == {<<Start, Change>>}
           B == {<<>>, <<Exchange>>}
           C == {<<Change, Mark>>, <<Change, Inner("From11")>>, <<Change, Exchange, Inner("From11")>>}
           D == {<<Mark, End>>}
<1>1. \E a \in A, b \in B, c \in C, d \in D : \E ab, abc : ab = a \o b /\ abc = ab \o c /\ x = abc \o d
  <2>1. x \in ((A \otimes B) \otimes C) \otimes D
    BY DEF To12
  <2> HIDE DEF A, B, C, D
  <2>2. PICK abc \in (A \otimes B) \otimes C, d \in D : x = abc \o d
    BY <2>1, OneOfEach
  <2>3. PICK ab \in A \otimes B, c \in C : abc = ab \o c
    BY OneOfEach
  <2>4. PICK a \in A, b \in B : ab = a \o b
    BY OneOfEach
  <2> QED BY <2>2, <2>3, <2>4
<1>2. ASSUME NEW a \in A
      PROVE  a \in Seq(AnyStep) /\ NestsIn(1, a) /\ NoEnd(a) /\ OpensFirst(a)
  <2>1. a = <<Start, Change>>
    OBVIOUS
  <2> HIDE DEF A, B, C, D
  <2>2. a \in Seq(AnyStep) /\ Len(a) = 2 /\ a # <<>>
    BY <2>1, TheSteps
  <2>3. a[1].op = "on_start" /\ a[2].op = "change"
    BY <2>1, TheSteps
  <2> QED BY <2>2, <2>3 DEF NestsIn, NoEnd, OpensFirst
<1>3. ASSUME NEW b \in B PROVE b \in Seq(AnyStep) /\ NestsIn(1, b) /\ NoEnd(b)
  <2>1. b = <<>> \/ b = <<Exchange>>
    OBVIOUS
  <2> HIDE DEF A, B, C, D
  <2>2. b \in Seq(AnyStep) /\ \A j \in 1..Len(b) : b[j].op = "exchange"
    <3>1. CASE b = <<>>
      <4>1. b \in Seq(AnyStep) /\ Len(b) = 0
        BY <3>1
      <4> QED BY <4>1
    <3>2. CASE b = <<Exchange>>
      <4>1. b \in Seq(AnyStep) /\ Len(b) = 1 /\ b[1].op = "exchange"
        BY <3>2, TheSteps
      <4> QED BY <4>1
    <3> QED BY <2>1, <3>1, <3>2
  <2> QED BY <2>2 DEF NestsIn, NoEnd
<1>4. ASSUME NEW c \in C PROVE c \in Seq(AnyStep) /\ NestsIn(1, c) /\ NoEnd(c)
  <2>1. \/ c = <<Change, Mark>> \/ c = <<Change, Inner("From11")>>
        \/ c = <<Change, Exchange, Inner("From11")>>
    OBVIOUS
  <2> HIDE DEF A, B, C, D
  <2>2. /\ c \in Seq(AnyStep)
        /\ \A j \in 1..Len(c) : \/ c[j].op \in {"change", "mark", "exchange"}
                                \/ c[j].op = "nested" /\ c[j].of = "From11"
    <3>1. CASE c = <<Change, Mark>>
      <4>1. c \in Seq(AnyStep) /\ Len(c) = 2 /\ c[1].op = "change" /\ c[2].op = "mark"
        BY <3>1, TheSteps
      <4> QED BY <4>1
    <3>2. CASE c = <<Change, Inner("From11")>>
      <4>1. /\ c \in Seq(AnyStep) /\ Len(c) = 2 /\ c[1].op = "change"
            /\ c[2].op = "nested" /\ c[2].of = "From11"
        BY <3>2, TheSteps, InnerSteps
      <4> QED BY <4>1
    <3>3. CASE c = <<Change, Exchange, Inner("From11")>>
      <4>1. /\ c \in Seq(AnyStep) /\ Len(c) = 3 /\ c[1].op = "change" /\ c[2].op = "exchange"
            /\ c[3].op = "nested" /\ c[3].of = "From11"
        BY <3>3, TheSteps, InnerSteps
      <4> QED BY <4>1
    <3> QED BY <2>1, <3>1, <3>2, <3>3
  <2> QED BY <2>2 DEF NestsIn, NoEnd, Called, Level
<1>5. ASSUME NEW d \in D
      PROVE  /\ d \in Seq(AnyStep) /\ NestsIn(1, d) /\ InnersEnd(d) /\ Closes(d)
             /\ ChangesAreDue({"on_end"}, d) /\ Due({"on_end"}, d, 1)
  <2>1. d = <<Mark, End>>
    OBVIOUS
  <2> HIDE DEF A, B, C, D
  <2>2. d \in Seq(AnyStep) /\ Len(d) = 2
    BY <2>1, TheSteps
  <2>3. d[1].op = "mark" /\ d[2].op = "on_end"
    BY <2>1, TheSteps
  <2> QED BY <2>2, <2>3 DEF NestsIn, InnersEnd, Closes, ChangesAreDue, Due
<1>6a. PICK a \in A, b \in B, c \in C, d \in D : \E ab, abc :
        ab = a \o b /\ abc = ab \o c /\ x = abc \o d
  BY <1>1
<1>6. PICK ab, abc :
        ab = a \o b /\ abc = ab \o c /\ x = abc \o d
  BY <1>6a
<1> HIDE DEF A, B, C, D
<1>7. a \in Seq(AnyStep) /\ NestsIn(1, a) /\ NoEnd(a) /\ OpensFirst(a)
  BY <1>2
<1>8. b \in Seq(AnyStep) /\ NestsIn(1, b) /\ NoEnd(b)
  BY <1>3
<1>9. ab \in Seq(AnyStep) /\ NestsIn(1, ab) /\ NoEnd(ab) /\ OpensFirst(ab)
  <2>1. ab \in Seq(AnyStep) /\ OpensFirst(ab)
    BY <1>6, <1>7, <1>8, Joined, JoinedOpensFirst
  <2>2. NestsIn(1, ab)
    BY <1>6, <1>7, <1>8, JoinedNests
  <2>3. NoEnd(ab)
    BY <1>6, <1>7, <1>8, JoinedNoEnd
  <2> QED BY <2>1, <2>2, <2>3
<1>10. c \in Seq(AnyStep) /\ NestsIn(1, c) /\ NoEnd(c)
  BY <1>4
<1>11. abc \in Seq(AnyStep) /\ NestsIn(1, abc) /\ NoEnd(abc) /\ OpensFirst(abc)
  <2>1. abc \in Seq(AnyStep) /\ OpensFirst(abc)
    BY <1>6, <1>9, <1>10, Joined, JoinedOpensFirst
  <2>2. NestsIn(1, abc)
    BY <1>6, <1>9, <1>10, JoinedNests
  <2>3. NoEnd(abc)
    BY <1>6, <1>9, <1>10, JoinedNoEnd
  <2> QED BY <2>1, <2>2, <2>3
<1>12. /\ d \in Seq(AnyStep) /\ NestsIn(1, d) /\ InnersEnd(d) /\ Closes(d)
       /\ ChangesAreDue({"on_end"}, d) /\ Due({"on_end"}, d, 1)
  BY <1>5
<1>13. x \in Seq(AnyStep) /\ NestsIn(1, x) /\ OpensFirst(x) /\ InnersEnd(x)
  <2>1. x \in Seq(AnyStep) /\ OpensFirst(x)
    BY <1>6, <1>11, <1>12, Joined, JoinedOpensFirst
  <2>2. NestsIn(1, x)
    BY <1>6, <1>11, <1>12, JoinedNests
  <2>3. InnersEnd(x)
    BY <1>6, <1>11, <1>12, JoinedInners
  <2> QED BY <2>1, <2>2, <2>3
<1>14. ChangesAreDue({"on_end"}, x) /\ Due({"on_end"}, x, 1)
  BY <1>6, <1>11, <1>12, DueAfterAll
<1>15. Surrounds(x)
  BY <1>13, SurroundsIf
<1>16. Level("To12") = 1 /\ Reading("To12") = {"on_end"} /\ "To12" \notin Keeping
  BY DEF Level, Reading, Keeping
<1> QED BY <1>13, <1>14, <1>15, <1>16 DEF Composed

-----------------------------------------------------------------------------
(* Pulls of any number of steps *)

\* Steps of a pull, and such that its inner transformations have an on_end.
Part(x) == x \in Seq(AnyStep) /\ NestsIn(3, x) /\ ChangesAreDue({"on_end"}, x)
Turn(x) == Part(x) /\ InnersEnd(x)

LEMMA JoinedPart ==
  ASSUME NEW x, NEW y, Part(x), Part(y), NEW z, z = x \o y
  PROVE  /\ Part(z)
         /\ Closes(y) => Closes(z)
         /\ OpensFirst(x) => OpensFirst(z)
         /\ (InnersEnd(x) \/ Closes(y)) /\ InnersEnd(y) => Turn(z)
<1>1. x \in Seq(AnyStep) /\ y \in Seq(AnyStep)
  BY DEF Part
<1>2. z \in Seq(AnyStep) /\ NestsIn(3, z) /\ ChangesAreDue({"on_end"}, z)
  BY <1>1, Joined, JoinedNests, JoinedChanges DEF Part
<1>3. /\ Closes(y) => Closes(z)
      /\ OpensFirst(x) => OpensFirst(z)
      /\ (InnersEnd(x) \/ Closes(y)) /\ InnersEnd(y) => InnersEnd(z)
  BY <1>1, JoinedCloses, JoinedOpensFirst, JoinedInners
<1> QED BY <1>2, <1>3 DEF Part, Turn

LEMMA NothingIsTurn == Turn(<<>>)
<1>1. <<>> \in Seq(AnyStep) /\ Len(<<>>) = 0
  OBVIOUS
<1> QED BY <1>1 DEF Turn, Part, NestsIn, ChangesAreDue, InnersEnd

LEMMA PullAlongIsPart ==
  ASSUME NEW x \in PullAlong
  PROVE  Part(x)
<1>1. CASE x = <<>>
  BY <1>1, NothingIsTurn DEF Turn
<1>2. CASE x = <<Change, Mark>>
  <2>1. x \in Seq(AnyStep) /\ Len(x) = 2 /\ x[1].op = "change" /\ x[2].op = "mark"
    BY <1>2, TheSteps
  <2>2. Due({"on_end"}, x, 2)
    BY <2>1 DEF Due
  <2> QED BY <2>1, <2>2 DEF Part, NestsIn, ChangesAreDue
<1>3. CASE x = <<Inner("InExistingChain"), Change, Mark, Change, Inner("DeletingHostChain"), Change, Mark>>
  <2>1. x \in Seq(AnyStep) /\ Len(x) = 7
    BY <1>3, TheSteps, InnerSteps
  <2>2. /\ x[1].op = "nested" /\ x[1].of = "InExistingChain" /\ x[2].op = "change"
        /\ x[3].op = "mark" /\ x[4].op = "change"
        /\ x[5].op = "nested" /\ x[5].of = "DeletingHostChain"
        /\ x[6].op = "change" /\ x[7].op = "mark"
    BY <1>3, TheSteps, InnerSteps
  <2>3. \A i \in {3, 5, 7} : Due({"on_end"}, x, i)
    BY <2>1, <2>2 DEF Due
  <2>4. ChangesAreDue({"on_end"}, x)
    BY <2>1, <2>2, <2>3 DEF ChangesAreDue
  <2>5. NestsIn(3, x)
    BY <2>1, <2>2 DEF NestsIn, Called, Level
  <2> QED BY <2>1, <2>4, <2>5 DEF Part
<1> QED BY <1>1, <1>2, <1>3 DEF PullAlong

\* Single steps.
LEMMA SingleParts ==
  /\ Part(<<Start>>) /\ Turn(<<Start>>) /\ OpensFirst(<<Start>>)
  /\ Turn(<<End>>) /\ Closes(<<End>>)
  /\ \A t \in Called : Part(<<Inner(t)>>)
<1>1. Part(<<Start>>) /\ Turn(<<Start>>) /\ OpensFirst(<<Start>>)
  <2> DEFINE x == <<Start>>
  <2>1. x \in Seq(AnyStep) /\ Len(x) = 1 /\ x[1].op = "on_start" /\ x # <<>>
    BY TheSteps
  <2> HIDE DEF x
  <2>2. Part(x) /\ Turn(x) /\ OpensFirst(x)
    BY <2>1 DEF Part, Turn, NestsIn, ChangesAreDue, InnersEnd, OpensFirst
  <2> QED BY <2>2 DEF x
<1>2. Turn(<<End>>) /\ Closes(<<End>>)
  <2> DEFINE x == <<End>>
  <2>1. x \in Seq(AnyStep) /\ Len(x) = 1 /\ x[1].op = "on_end"
    BY TheSteps
  <2> HIDE DEF x
  <2>2. Turn(x) /\ Closes(x)
    BY <2>1 DEF Part, Turn, NestsIn, ChangesAreDue, InnersEnd, Closes
  <2> QED BY <2>2 DEF x
<1>3. ASSUME NEW t \in Called PROVE Part(<<Inner(t)>>)
  <2> DEFINE x == <<Inner(t)>>
  <2>1. x \in Seq(AnyStep) /\ Len(x) = 1 /\ x[1].op = "nested" /\ x[1].of = t
    BY TheSteps
  <2> HIDE DEF x
  <2>2. Level(t) < 3
    BY DEF Called, Level
  <2>3. Part(x)
    BY <2>1, <2>2 DEF Part, NestsIn, ChangesAreDue
  <2> QED BY <2>3 DEF x
<1> QED BY <1>1, <1>2, <1>3

Turns == {x \in Seq(AnyStep) : Turn(x)}

\* One more step of a pull, and its on_end.
LEMMA OneMoreTurn ==
  ASSUME NEW S, S \subseteq Turns, NEW E, \A e \in E : Turn(e) /\ Closes(e),
         NEW x \in S \otimes PullAlong \otimes E
  PROVE  x \in Turns
<1> DEFINE Joins(z, y1, y2) == z = y1 \o y2
<1>8. \A T, U : \A z \in T \otimes U : \E y1 \in T, y2 \in U : Joins(z, y1, y2)
  BY OneOfEach
<1> HIDE DEF Joins
<1>1. PICK c \in S \otimes PullAlong, e \in E : Joins(x, c, e)
  BY <1>8
<1>2. PICK a \in S, b \in PullAlong : Joins(c, a, b)
  BY <1>8
<1>3. Part(a) /\ Part(b)
  BY PullAlongIsPart DEF Turns, Turn
<1>4. Part(c)
  BY <1>2, <1>3, JoinedPart DEF Joins
<1>5. Part(e) /\ InnersEnd(e) /\ Closes(e)
  BY DEF Turn
<1>6. Turn(x)
  BY <1>1, <1>4, <1>5, JoinedPart DEF Joins
<1> QED BY <1>6 DEF Turns, Turn, Part

LEMMA OneMoreStep ==
  ASSUME NEW S, S \subseteq Turns
  PROVE  S \otimes PullAlong \otimes {<<End>>} \subseteq Turns
<1> DEFINE E == {<<End>>}
<1>1. \A e \in E : Turn(e) /\ Closes(e)
  BY SingleParts
<1> HIDE DEF E
<1>2. \A x \in S \otimes PullAlong \otimes E : x \in Turns
  BY <1>1, OneMoreTurn
<1> QED BY <1>2 DEF E

LEMMA StepsAreTurns == \A n \in 0..MaxPullSteps : Steps[n] \subseteq Turns
<1> DEFINE N == 0..MaxPullSteps
           More(S) == S \otimes PullAlong \otimes {<<End>>}
           A == SUBSET Turns
           F == [n \in Nat |-> [S \in A |-> More(S)]]
           Def(g) == [n \in N |-> IF n = 0 THEN {<<>>} ELSE More(g[n - 1])]
<1>1. {<<>>} \in A
  BY NothingIsTurn DEF Turns, Turn, Part
<1>2. \A S \in A : More(S) \in A
  BY OneMoreStep
<1>3. F \in [Nat -> [A -> A]]
  BY <1>2
<1>4. PICK f \in [Nat -> A] : f[0] = {<<>>} /\ \A n \in Nat : f[n + 1] = F[n][f[n]]
  <2>1. PICK b : b = {<<>>}
    OBVIOUS
  <2>2. b \in A
    BY <1>1, <2>1
  <2> HIDE DEF A, F, More, Def
  <2>3. Advances(F, A)
    BY <1>3 DEF Advances
  <2>4. PICK f : Follows(f, b, F, A)
    BY <2>2, <2>3, RecursionExists
  <2> QED BY <2>1, <2>4 DEF Follows
<1>5. \A n \in Nat : f[n + 1] = More(f[n])
  BY <1>4
<1> DEFINE g == [n \in N |-> f[n]]
<1>6. g = Def(g)
  <2> HIDE DEF More, A
  <2>1. ASSUME NEW n \in N, n # 0 PROVE f[n] = More(g[n - 1])
    <3>1. n - 1 \in Nat /\ n - 1 \in N /\ n = (n - 1) + 1
      BY <2>1, HookCallsAssumption
    <3>2. f[(n - 1) + 1] = More(f[n - 1])
      BY <1>5, <3>1
    <3> QED BY <3>1, <3>2
  <2> QED BY <1>4, <2>1
<1>7. \E h : h = Def(h)
  <2> HIDE DEF Def, g
  <2> QED BY <1>6
<1>8. Steps = CHOOSE h : h = Def(h)
  BY DEF Steps
<1>9. Steps = Def(Steps)
  <2> HIDE DEF Def
  <2> QED BY <1>7, <1>8
<1>10. Steps[0] = {<<>>}
  BY <1>9, HookCallsAssumption
<1>11. \A n \in N : n # 0 => Steps[n] = More(Steps[n - 1])
  <2> HIDE DEF More
  <2> QED BY <1>9
<1> DEFINE P == {n \in Nat : n \in N => Steps[n] \in A}
<1>12. 0 \in P
  BY <1>1, <1>10
<1>13. ASSUME NEW n \in Nat, n \in P PROVE n + 1 \in P
  <2>1. CASE n + 1 \in N
    <3>1. n \in N /\ (n + 1) - 1 = n /\ n + 1 # 0
      BY <2>1, HookCallsAssumption
    <3>2. Steps[n] \in A
      BY <1>13, <3>1
    <3>3. Steps[n + 1] = More(Steps[n])
      <4> HIDE DEF More
      <4> QED BY <1>11, <2>1, <3>1
    <3>4. More(Steps[n]) \in A
      <4> HIDE DEF More, A
      <4> QED BY <1>2, <3>2
    <3> HIDE DEF More, A
    <3> QED BY <3>3, <3>4
  <2>2. CASE n + 1 \notin N
    BY <2>2
  <2> QED BY <2>1, <2>2
<1>14. \A n \in Nat : n \in P
  <2> HIDE DEF P
  <2> QED BY <1>12, <1>13, NaturalsBySuccessor
<1> QED BY <1>14, HookCallsAssumption

LEMMA RemainingAreTurns == \A x \in Remaining : Turn(x)
<1> SUFFICES ASSUME NEW x \in Remaining PROVE Turn(x)
  OBVIOUS
<1>1. PICK n \in 1..MaxPullSteps : x \in Steps[n - 1]
  BY DEF Remaining
<1>2. n - 1 \in 0..MaxPullSteps
  BY HookCallsAssumption
<1> QED BY <1>1, <1>2, StepsAreTurns DEF Turns

LEMMA PullIsComposed ==
  ASSUME NEW t \in {"On1", "On2", "On3"}, NEW x, Turn(x), OpensFirst(x)
  PROVE  Composed(t, x)
<1>1. Surrounds(x)
  BY SurroundsIf DEF Turn, Part
<1>2. Level(t) = 3 /\ Reading(t) = {"on_end"} /\ t \notin Called /\ t \notin Keeping
  BY DEF Level, Reading, Called, Keeping
<1> QED BY <1>1, <1>2 DEF Composed, Turn, Part

LEMMA On1IsComposed == \A x \in On1 : Composed("On1", x)
<1> SUFFICES ASSUME NEW x \in On1 PROVE Composed("On1", x)
  OBVIOUS
<1>1. PICK n \in 1..MaxPullSteps : \E y \in Steps[n] : x = <<Start>> \o y
  BY DEF On1, \otimes
<1>2. PICK y \in Steps[n] : x = <<Start>> \o y
  BY <1>1
<1>3. Turn(y)
  <2>1. n \in 0..MaxPullSteps
    BY HookCallsAssumption
  <2> QED BY <2>1, StepsAreTurns DEF Turns
<1>4. Turn(x) /\ OpensFirst(x)
  BY <1>2, <1>3, SingleParts, JoinedPart DEF Turn
<1> QED BY <1>4, PullIsComposed

LEMMA On2IsComposed == \A x \in On2 : Composed("On2", x)
<1> SUFFICES ASSUME NEW x \in On2 PROVE Composed("On2", x)
  OBVIOUS
<1> DEFINE Turned == {<<Change, Mark>>} \cup
             ({<<Inner("To11")>>} \otimes PullAlong \otimes {<<Inner("From12")>>})
<1> DEFINE S == {<<Start>>}
           E == {<<End>>}
<1>1. \E s \in S, y \in Turned, e \in E, r \in Remaining : \E a, b :
        a = s \o y /\ b = a \o e /\ x = b \o r
  <2>1. x \in ((S \otimes Turned) \otimes E) \otimes Remaining
    BY DEF On2
  <2> HIDE DEF S, E, Turned
  <2>2. PICK b \in (S \otimes Turned) \otimes E, r \in Remaining : x = b \o r
    BY <2>1, OneOfEach
  <2>3. PICK a \in S \otimes Turned, e \in E : b = a \o e
    BY OneOfEach
  <2>4. PICK s \in S, y \in Turned : a = s \o y
    BY OneOfEach
  <2> QED BY <2>2, <2>3, <2>4
<1>2. ASSUME NEW y \in Turned PROVE Part(y)
  <2>1. CASE y = <<Change, Mark>>
    BY <2>1, PullAlongIsPart DEF PullAlong
  <2>2. CASE y \in {<<Inner("To11")>>} \otimes PullAlong \otimes {<<Inner("From12")>>}
    <3> DEFINE I == {<<Inner("To11")>>}
               F == {<<Inner("From12")>>}
    <3>8. Part(<<Inner("To11")>>) /\ Part(<<Inner("From12")>>)
      BY SingleParts DEF Called
    <3>9. (\A i \in I : Part(i)) /\ (\A f \in F : Part(f))
      BY <3>8
    <3>7. y \in (I \otimes PullAlong) \otimes F
      BY <2>2
    <3> HIDE DEF I, F
    <3>1. PICK c \in I \otimes PullAlong, f \in F : y = c \o f
      BY <3>7, OneOfEach
    <3>2. PICK i \in I, p \in PullAlong : c = i \o p
      BY OneOfEach
    <3>3. Part(i) /\ Part(p) /\ Part(f)
      BY <3>9, PullAlongIsPart
    <3>4. Part(c)
      BY <3>2, <3>3, JoinedPart
    <3> QED BY <3>1, <3>3, <3>4, JoinedPart
  <2> QED BY <2>1, <2>2
<1>3a. PICK s \in S, y \in Turned, e \in E, r \in Remaining : \E a, b :
        a = s \o y /\ b = a \o e /\ x = b \o r
  BY <1>1
<1>3. PICK a, b :
        a = s \o y /\ b = a \o e /\ x = b \o r
  BY <1>3a
<1>4. Part(s) /\ OpensFirst(s) /\ Part(e) /\ InnersEnd(e) /\ Closes(e)
  BY SingleParts DEF Turn
<1> HIDE DEF S, E, Turned
<1>5. Part(y) /\ Part(r) /\ InnersEnd(r)
  BY <1>2, RemainingAreTurns DEF Turn
<1>6. Part(a) /\ OpensFirst(a)
  BY <1>3, <1>4, <1>5, JoinedPart
<1>7. Turn(b) /\ OpensFirst(b)
  BY <1>3, <1>4, <1>6, JoinedPart
<1>8. Turn(x) /\ OpensFirst(x)
  BY <1>3, <1>5, <1>7, JoinedPart DEF Turn
<1> QED BY <1>8, PullIsComposed

LEMMA On3IsComposed == \A x \in On3 : Composed("On3", x)
<1> SUFFICES ASSUME NEW x \in On3 PROVE Composed("On3", x)
  OBVIOUS
<1> DEFINE S == {<<Start, Inner("To12")>>}
           E == {<<Inner(t), End>> : t \in {"From12", "From12Cycle", "From22"}}
<1>1. \E s \in S, p \in PullAlong, e \in E, r \in Remaining : \E a, b :
        a = s \o p /\ b = a \o e /\ x = b \o r
  <2>1. x \in ((S \otimes PullAlong) \otimes E) \otimes Remaining
    BY DEF On3
  <2> HIDE DEF S, E
  <2>2. PICK b \in (S \otimes PullAlong) \otimes E, r \in Remaining : x = b \o r
    BY <2>1, OneOfEach
  <2>3. PICK a \in S \otimes PullAlong, e \in E : b = a \o e
    BY OneOfEach
  <2>4. PICK s \in S, p \in PullAlong : a = s \o p
    BY OneOfEach
  <2> QED BY <2>2, <2>3, <2>4
<1>2. ASSUME NEW s \in S PROVE Part(s) /\ OpensFirst(s)
  <2>0. s = <<Start, Inner("To12")>>
    OBVIOUS
  <2> HIDE DEF S, E
  <2>1. /\ s \in Seq(AnyStep) /\ Len(s) = 2 /\ s # <<>>
        /\ s[1].op = "on_start" /\ s[2].op = "nested" /\ s[2].of = "To12"
    BY <2>0, TheSteps, InnerSteps
  <2> QED BY <2>1 DEF Part, OpensFirst, NestsIn, ChangesAreDue, Called, Level
<1>3. ASSUME NEW e \in E PROVE Part(e) /\ InnersEnd(e) /\ Closes(e)
  <2>1. PICK t \in {"From12", "From12Cycle", "From22"} : e = <<Inner(t), End>>
    OBVIOUS
  <2>2. /\ e \in Seq(AnyStep) /\ Len(e) = 2
        /\ e[1].op = "nested" /\ e[1].of = t /\ e[2].op = "on_end"
    BY <2>1, TheSteps, InnerSteps
  <2>3. NestsIn(3, e) /\ ChangesAreDue({"on_end"}, e)
    BY <2>2 DEF NestsIn, ChangesAreDue, Called, Level
  <2>4. InnersEnd(e) /\ Closes(e)
    BY <2>2 DEF InnersEnd, Closes
  <2> QED BY <2>2, <2>3, <2>4 DEF Part
<1> HIDE DEF S, E
<1>4a. PICK s \in S, p \in PullAlong, e \in E, r \in Remaining : \E a, b :
        a = s \o p /\ b = a \o e /\ x = b \o r
  BY <1>1
<1>4. PICK a, b :
        a = s \o p /\ b = a \o e /\ x = b \o r
  BY <1>4a
<1>5. Part(s) /\ OpensFirst(s) /\ Part(e) /\ InnersEnd(e) /\ Closes(e)
  BY <1>2, <1>3
<1>6. Part(p) /\ Part(r) /\ InnersEnd(r)
  BY PullAlongIsPart, RemainingAreTurns DEF Turn
<1>7. Part(a) /\ OpensFirst(a)
  BY <1>4, <1>5, <1>6, JoinedPart
<1>8. Turn(b) /\ OpensFirst(b)
  BY <1>4, <1>5, <1>7, JoinedPart
<1>9. Turn(x) /\ OpensFirst(x)
  BY <1>4, <1>6, <1>8, JoinedPart DEF Turn
<1> QED BY <1>9, PullIsComposed

-----------------------------------------------------------------------------
(* All of them *)

\* What is claimed of the steps holds for those of every transformation.
LEMMA ScriptsAreComposed ==
  \A t \in Transformations : \A x \in Scripts[t] : Composed(t, x)
<1> SUFFICES ASSUME NEW t \in Transformations, NEW x \in Scripts[t] PROVE Composed(t, x)
  OBVIOUS
<1>1. CASE t \in {"From11", "From13", "To13", "InExistingChain", "PreservingHostChain",
                  "ComponentCreation", "ComponentDeletion"}
  <2>1. x \in Simple
    BY <1>1 DEF Scripts
  <2>2. t \notin Keeping /\ t # "From12Cycle"
    BY <1>1 DEF Keeping
  <2> QED BY <2>1, <2>2, SimpleIsComposed
<1>2. CASE t \in {"From12", "From22"}
  BY <1>2, KeepingMergerIsComposed DEF Scripts
<1>3. CASE t \in {"From12Cycle", "To11", "To12", "To22"}
  BY <1>3, CycleMergerIsComposed, To11IsComposed, To12IsComposed, To22IsComposed DEF Scripts
<1>4. CASE t \in {"InNewChain", "DeletingHostChain", "EdgeMerger", "EdgeSplit"}
  BY <1>4, InNewChainIsComposed, DeletingHostChainIsComposed, EdgeMergerIsComposed,
     EdgeSplitIsComposed DEF Scripts
<1>5. CASE t \in {"On1", "On2", "On3"}
  BY <1>5, On1IsComposed, On2IsComposed, On3IsComposed DEF Scripts
<1> QED BY <1>1, <1>2, <1>3, <1>4, <1>5 DEF Transformations, Scripts

-----------------------------------------------------------------------------
(* How deep calls nest, and what their ends leave *)

IsRun(c) ==
  /\ c.t \in Transformations /\ c.script \in Scripts[c.t] /\ c.holds \in BOOLEAN
  /\ c.at \in 1..Len(c.script) + 1

\* A call that has another one inside waits after the step that called it.
WellCalled(x) ==
  \A i \in 1..Len(x) :
    /\ IsRun(x[i]) /\ i + Level(x[i].t) <= 4
    /\ i < Len(x) => x[i].at > 1 /\ x[i].script[x[i].at - 1].op = "nested"

\* The descriptors are, or will be, those of the graph; or the innermost call has an
\* update to come.
UpdateDue(x, isChanged, fresh) ==
  /\ isChanged \/ fresh
  /\ x # <<>> => fresh \/ Due(Reading(x[Len(x)].t), x[Len(x)].script, x[Len(x)].at)

\* The request to the client's call, if there is one, is still to be met.
RequestPending(x, requests) ==
  x # <<>> /\ x[1].t \in Keeping =>
    (Keepers[x[1].t] \in requests => x[1].holds /\ Exchanges(x[1].script, x[1].at))

Flags == changed \in BOOLEAN /\ vedStale \in BOOLEAN /\ current \in BOOLEAN

\* The invariant.
Orderly ==
  /\ Enclosing /\ Flags /\ WellCalled(calls)
  /\ UpdateDue(calls, changed, vedStale \/ current)
  /\ RequestPending(calls, asked)

LEMMA LevelIsNumber == \A t : Level(t) \in 0..3
BY DEF Level

LEMMA CalledAreTransformations == Called \subseteq Transformations
BY DEF Called, Transformations, Scripts

LEMMA KeeperNames == DOMAIN Keepers = Keeping \cup {"To12"} /\ "To12" \notin Keeping
BY DEF Keepers, Keeping

\* What a call is at, as its steps are composed.
LEMMA RunIsComposed ==
  ASSUME NEW c, IsRun(c)
  PROVE  Composed(c.t, c.script) /\ Len(c.script) \in Nat
<1>1. Composed(c.t, c.script)
  BY ScriptsAreComposed DEF IsRun
<1> QED BY <1>1 DEF Composed

LEMMA Innermost ==
  ASSUME AreCalls(calls), calls # <<>>
  PROVE  Len(calls) \in Nat \ {0} /\ top = calls[Len(calls)]
<1>1. Len(calls) \in Nat \ {0}
  BY DEF AreCalls
<1> QED BY <1>1 DEF top, Last

\* Going on changes where the innermost call is at, and nothing else.
LEMMA GoingOn ==
  ASSUME NEW x, AreCalls(x), x # <<>>, NEW y, y = [x EXCEPT ![Len(x)].at = @ + 1]
  PROVE  /\ Len(y) = Len(x) /\ Len(x) \in Nat \ {0} /\ y # <<>>
         /\ \A i \in 1..Len(x) : i # Len(x) => y[i] = x[i]
         /\ y[Len(x)].t = x[Len(x)].t /\ y[Len(x)].script = x[Len(x)].script
         /\ y[Len(x)].holds = x[Len(x)].holds /\ y[Len(x)].at = x[Len(x)].at + 1
<1>1. PICK S : x \in Seq(S)
  BY DEF AreCalls
<1>2. Len(x) \in Nat \ {0}
  BY <1>1
<1> DEFINE c == x[Len(x)]
           d == [c EXCEPT !.at = c.at + 1]
<1>3. y = [x EXCEPT ![Len(x)] = d]
  OBVIOUS
<1>4. d.t = c.t /\ d.script = c.script /\ d.holds = c.holds /\ d.at = c.at + 1
  <2>1. IsCall(c)
    BY <1>2 DEF AreCalls
  <2>2. c = [t |-> c.t, script |-> c.script, at |-> c.at, wants |-> c.wants, holds |-> c.holds]
    BY <2>1 DEF IsCall
  <2> QED BY <2>2
<1> HIDE DEF d
<1>5. /\ y \in Seq(S \cup {d}) /\ Len(y) = Len(x) /\ y # <<>>
      /\ \A i \in 1..Len(x) : y[i] = IF i = Len(x) THEN d ELSE x[i]
  BY <1>1, <1>3, LastReplaced
<1>6. y[Len(x)] = d
  BY <1>2, <1>5
<1> QED BY <1>2, <1>4, <1>5, <1>6

\* The innermost call, when it runs a step.
LEMMA AtStep ==
  ASSUME Orderly, NEW op, Running(op)
  PROVE  /\ AreCalls(calls) /\ calls # <<>> /\ Len(calls) \in Nat \ {0}
         /\ top = calls[Len(calls)] /\ IsRun(top) /\ Composed(top.t, top.script)
         /\ Len(calls) + Level(top.t) <= 4
         /\ top.at \in 1..Len(top.script) /\ Len(top.script) \in Nat
         /\ top.script[top.at].op = op
<1>1. AreCalls(calls) /\ calls # <<>>
  BY DEF Orderly, Enclosing, Running, Idle
<1>2. Len(calls) \in Nat \ {0} /\ top = calls[Len(calls)]
  BY <1>1, Innermost
<1>3. IsRun(top) /\ Len(calls) + Level(top.t) <= 4
  BY <1>2 DEF Orderly, WellCalled
<1>4. Composed(top.t, top.script) /\ Len(top.script) \in Nat
  BY <1>3, RunIsComposed
<1>5. top.at \in 1..Len(top.script) /\ top.script[top.at].op = op
  BY <1>3, <1>4 DEF IsRun, Running, step
<1> QED BY <1>1, <1>2, <1>3, <1>4, <1>5

LEMMA WellCalledGoesOn ==
  ASSUME Orderly, NEW op, Running(op), calls' = Advanced
  PROVE  WellCalled(calls')
<1> DEFINE n == Len(calls)
<1>1. /\ AreCalls(calls) /\ calls # <<>> /\ n \in Nat \ {0}
      /\ top = calls[n] /\ IsRun(top) /\ n + Level(top.t) <= 4
      /\ top.at \in 1..Len(top.script) /\ Len(top.script) \in Nat
  BY AtStep
<1>2. PICK y : y = calls'
  OBVIOUS
<1>3. /\ Len(y) = n
      /\ \A i \in 1..n : i # n => y[i] = calls[i]
      /\ y[n].t = calls[n].t /\ y[n].script = calls[n].script
      /\ y[n].holds = calls[n].holds /\ y[n].at = calls[n].at + 1
  BY <1>1, <1>2, GoingOn DEF Advanced
<1>4. WellCalled(calls)
  BY DEF Orderly
<1> HIDE DEF n
<1>5. IsRun(y[n]) /\ n + Level(y[n].t) <= 4
  BY <1>1, <1>3 DEF IsRun
<1>6. ASSUME NEW i \in 1..n, i # n
      PROVE  /\ IsRun(y[i]) /\ i + Level(y[i].t) <= 4
             /\ y[i].at > 1 /\ y[i].script[y[i].at - 1].op = "nested"
  <2>1. i < n
    BY <1>1, <1>6
  <2> QED BY <1>3, <1>4, <1>6, <2>1 DEF WellCalled, n
<1>7. WellCalled(y)
  <2> SUFFICES ASSUME NEW i \in 1..Len(y)
               PROVE  /\ IsRun(y[i]) /\ i + Level(y[i].t) <= 4
                      /\ i < Len(y) => y[i].at > 1 /\ y[i].script[y[i].at - 1].op = "nested"
    BY DEF WellCalled
  <2>1. CASE i = n
    BY <1>1, <1>3, <1>5, <2>1
  <2>2. CASE i # n
    BY <1>3, <1>6, <2>2
  <2> QED BY <2>1, <2>2
<1> QED BY <1>2, <1>7

\* An update that is due stays so until it comes, and no hook that is to read is
\* passed before.
LEMMA DueGoesOn ==
  ASSUME NEW E, NEW x \in Seq(AnyStep), NEW i \in 1..Len(x), Due(E, x, i),
         x[i].op \notin {"mark", "nested"}
  PROVE  x[i].op \notin E /\ Due(E, x, i + 1)
<1>1. PICK k \in i..Len(x) :
        x[k].op \in {"mark", "nested"} /\ \A j \in i..k - 1 : x[j].op \notin E
  BY DEF Due
<1>2. k # i /\ k \in i + 1..Len(x) /\ i \in i..k - 1
  BY <1>1
<1> QED BY <1>1, <1>2 DEF Due

LEMMA RequestGoesOn ==
  ASSUME Orderly, NEW op, Running(op), calls' = Advanced,
         asked' = asked, op # "exchange" \/ ~top.holds \/ Len(calls) > 1
  PROVE  RequestPending(calls', asked')
<1> DEFINE n == Len(calls)
<1>1. /\ AreCalls(calls) /\ calls # <<>> /\ n \in Nat \ {0}
      /\ top = calls[n] /\ IsRun(top)
      /\ top.at \in 1..Len(top.script) /\ Len(top.script) \in Nat
      /\ top.script[top.at].op = op
  BY AtStep
<1>2. PICK y : y = calls'
  OBVIOUS
<1>3. /\ Len(y) = n
      /\ \A i \in 1..n : i # n => y[i] = calls[i]
      /\ y[n].t = calls[n].t /\ y[n].script = calls[n].script
      /\ y[n].holds = calls[n].holds /\ y[n].at = calls[n].at + 1
  BY <1>1, <1>2, GoingOn DEF Advanced
<1>4. RequestPending(calls, asked)
  BY DEF Orderly
<1> HIDE DEF n
<1>5. ASSUME y[1].t \in Keeping, Keepers[y[1].t] \in asked
      PROVE  y[1].holds /\ Exchanges(y[1].script, y[1].at)
  <2>1. CASE n = 1
    <3>1. top.holds /\ Exchanges(top.script, top.at)
      BY <1>1, <1>3, <1>4, <1>5, <2>1 DEF RequestPending
    <3>2. op # "exchange"
      BY <2>1, <3>1 DEF n
    <3>3. PICK j \in top.at..Len(top.script) : top.script[j].op = "exchange"
      BY <3>1 DEF Exchanges
    <3>4. j \in top.at + 1..Len(top.script)
      BY <1>1, <3>2, <3>3
    <3>5. Exchanges(top.script, top.at + 1)
      BY <3>3, <3>4 DEF Exchanges
    <3> QED BY <1>1, <1>3, <2>1, <3>1, <3>5
  <2>2. CASE n # 1
    <3>1. 1 \in 1..n /\ y[1] = calls[1]
      BY <1>1, <1>3, <2>2
    <3> QED BY <1>1, <1>4, <1>5, <3>1 DEF RequestPending
  <2> QED BY <2>1, <2>2
<1>6. RequestPending(y, asked)
  BY <1>5 DEF RequestPending
<1> QED BY <1>2, <1>6

\* With the exchange the request of the client is met.
LEMMA RequestMet ==
  ASSUME Orderly, Running("exchange"), calls' = Advanced, Len(calls) = 1,
         asked' = IF top.t # "To12" THEN Cleared(top.t) ELSE asked
  PROVE  RequestPending(calls', asked')
<1>1. AreCalls(calls) /\ calls # <<>> /\ top = calls[1]
  BY AtStep
<1>2. PICK y : y = calls'
  OBVIOUS
<1>3. y[1].t = top.t
  <2>1. y[Len(calls)].t = calls[Len(calls)].t
    BY <1>1, <1>2, GoingOn DEF Advanced
  <2> QED BY <1>1, <2>1
<1>4. y[1].t \in Keeping => Keepers[y[1].t] \notin asked'
  BY <1>3, KeeperNames DEF Cleared
<1>5. RequestPending(y, asked')
  BY <1>4 DEF RequestPending
<1> QED BY <1>2, <1>5

\* The update that is due, seen from calls with the innermost one a step further.
LEMMA DueOfAdvanced ==
  ASSUME Orderly, NEW op, Running(op), calls' = Advanced, NEW changing, NEW fresh,
         changing \/ fresh,
         fresh \/ Due(Reading(top.t), top.script, top.at + 1)
  PROVE  UpdateDue(calls', changing, fresh)
<1>1. AreCalls(calls) /\ calls # <<>> /\ top = calls[Len(calls)]
  BY AtStep
<1>2. PICK y : y = calls'
  OBVIOUS
<1>3. /\ Len(y) = Len(calls) /\ y[Len(calls)].t = top.t /\ y[Len(calls)].script = top.script
      /\ y[Len(calls)].at = top.at + 1
  BY <1>1, <1>2, GoingOn DEF Advanced
<1>4. UpdateDue(y, changing, fresh)
  BY <1>3 DEF UpdateDue
<1> QED BY <1>2, <1>4

LEMMA OrderlyAfter ==
  ASSUME Enclosing', Flags', WellCalled(calls'), UpdateDue(calls', changed', vedStale' \/ current'),
         RequestPending(calls', asked')
  PROVE  Orderly'
<1>1. WellCalled(calls)'
  BY DEF WellCalled, IsRun
<1>2. UpdateDue(calls, changed, vedStale \/ current)'
  BY DEF UpdateDue, Due, Reading
<1>3. RequestPending(calls, asked)'
  BY DEF RequestPending, Exchanges
<1> QED BY <1>1, <1>2, <1>3 DEF Orderly

LEMMA ChangeIsOrderly ==
  ASSUME Orderly, Enclosing', ChangeGraph
  PROVE  Orderly'
<1>1. Running("change") /\ calls' = Advanced
  BY DEF ChangeGraph
<1>2. /\ Composed(top.t, top.script) /\ top.at \in 1..Len(top.script)
      /\ top.script[top.at].op = "change"
  BY <1>1, AtStep
<1>3. Due(Reading(top.t), top.script, top.at + 1)
  BY <1>2 DEF Composed, ChangesAreDue
<1>4. UpdateDue(calls', changed', vedStale' \/ current')
  <2>1. UpdateDue(calls', TRUE, FALSE)
    BY <1>1, <1>3, DueOfAdvanced
  <2> QED BY <2>1 DEF ChangeGraph, UpdateDue
<1>5. WellCalled(calls')
  BY <1>1, WellCalledGoesOn
<1>6. RequestPending(calls', asked')
  BY <1>1, RequestGoesOn DEF ChangeGraph
<1>7. Flags'
  BY DEF ChangeGraph, Flags, Orderly
<1> QED BY <1>4, <1>5, <1>6, <1>7, OrderlyAfter

LEMMA MarkIsOrderly ==
  ASSUME Orderly, Enclosing', MarkStale
  PROVE  Orderly'
<1>1. Running("mark") /\ calls' = Advanced
  BY DEF MarkStale
<1>2. UpdateDue(calls', changed', vedStale' \/ current')
  <2>1. UpdateDue(calls', changed, TRUE)
    BY <1>1, DueOfAdvanced
  <2> QED BY <2>1 DEF MarkStale, UpdateDue
<1>3. WellCalled(calls')
  BY <1>1, WellCalledGoesOn
<1>4. RequestPending(calls', asked')
  BY <1>1, RequestGoesOn DEF MarkStale
<1>5. Flags'
  BY DEF MarkStale, Flags, Orderly
<1> QED BY <1>2, <1>3, <1>4, <1>5, OrderlyAfter

\* What was due before a step that is none of the updates.
LEMMA DueAfterOther ==
  ASSUME Orderly, NEW op, Running(op), op \notin {"mark", "nested"}
  PROVE  (vedStale \/ current) \/ Due(Reading(top.t), top.script, top.at + 1)
<1>1. /\ calls # <<>> /\ top = calls[Len(calls)] /\ Composed(top.t, top.script)
      /\ top.at \in 1..Len(top.script) /\ top.script[top.at].op = op
  BY AtStep
<1>2. (vedStale \/ current) \/ Due(Reading(top.t), top.script, top.at)
  BY <1>1 DEF Orderly, UpdateDue
<1>3. top.script \in Seq(AnyStep)
  BY <1>1 DEF Composed
<1> QED BY <1>1, <1>2, <1>3, DueGoesOn

LEMMA ExchangeIsOrderly ==
  ASSUME Orderly, Enclosing', ExchangeVertices
  PROVE  Orderly'
<1>1. Running("exchange") /\ calls' = Advanced
  BY DEF ExchangeVertices
<1>2. Len(calls) \in Nat \ {0} /\ top.holds \in BOOLEAN
  BY <1>1, AtStep DEF IsRun
<1>3. WellCalled(calls')
  BY <1>1, WellCalledGoesOn
<1>4. CASE top.holds
  <2>1. UpdateDue(calls', changed', vedStale' \/ current')
    <3>1. UpdateDue(calls', TRUE, TRUE)
      BY <1>1, DueOfAdvanced
    <3> QED BY <1>4, <3>1 DEF ExchangeVertices, UpdateDue
  <2>2. Flags'
    BY <1>4 DEF ExchangeVertices, Flags, Orderly
  <2>3. RequestPending(calls', asked')
    <3>1. CASE Len(calls) = 1
      <4>1. asked' = IF top.t # "To12" THEN Cleared(top.t) ELSE asked
        BY <1>4, <3>1 DEF ExchangeVertices
      <4> QED BY <1>1, <3>1, <4>1, RequestMet
    <3>2. CASE Len(calls) # 1
      <4>1. asked' = IF Len(calls) = 1 /\ top.t # "To12" THEN Cleared(top.t) ELSE asked
        BY <1>4 DEF ExchangeVertices
      <4>2. asked' = asked
        BY <3>2, <4>1
      <4>3. Len(calls) > 1
        <5>1. \A n \in Nat \ {0} : n # 1 => n > 1
          OBVIOUS
        <5> QED BY <1>2, <3>2, <5>1
      <4> QED BY <1>1, <4>2, <4>3, RequestGoesOn
    <3> QED BY <3>1, <3>2
  <2> QED BY <1>3, <2>1, <2>2, <2>3, OrderlyAfter
<1>5. CASE ~top.holds
  <2>1. changed' = changed /\ vedStale' = vedStale /\ current' = current /\ asked' = asked
    BY <1>5 DEF ExchangeVertices
  <2>2. UpdateDue(calls', changed', vedStale' \/ current')
    <3>1. UpdateDue(calls', changed, vedStale \/ current)
      <4>1. changed \/ (vedStale \/ current)
        BY DEF Orderly, UpdateDue
      <4> QED BY <1>1, <4>1, DueAfterOther, DueOfAdvanced
    <3> QED BY <2>1, <3>1
  <2>3. Flags'
    BY <2>1 DEF Flags, Orderly
  <2>4. RequestPending(calls', asked')
    BY <1>1, <1>5, <2>1, RequestGoesOn
  <2> QED BY <1>3, <2>2, <2>3, <2>4, OrderlyAfter
<1> QED BY <1>2, <1>4, <1>5

LEMMA HookIsOrderly ==
  ASSUME Orderly, Enclosing', RunHook
  PROVE  Orderly'
<1>1. PICK op \in {"on_start", "on_end"} : Running(op)
  BY DEF RunHook, AtHook
<1>2. /\ calls' = Advanced /\ changed' = changed /\ vedStale' = vedStale
      /\ current' = current /\ asked' = asked
  BY DEF RunHook
<1>3. UpdateDue(calls', changed', vedStale' \/ current')
  <2>1. changed \/ (vedStale \/ current)
    BY DEF Orderly, UpdateDue
  <2>2. UpdateDue(calls', changed, vedStale \/ current)
    BY <1>1, <1>2, <2>1, DueAfterOther, DueOfAdvanced
  <2> QED BY <1>2, <2>2
<1>4. WellCalled(calls')
  BY <1>1, <1>2, WellCalledGoesOn
<1>5. RequestPending(calls', asked')
  BY <1>1, <1>2, RequestGoesOn
<1>6. Flags'
  BY <1>2 DEF Flags, Orderly
<1> QED BY <1>3, <1>4, <1>5, <1>6, OrderlyAfter

LEMMA ApplyIsOrderly ==
  ASSUME Orderly, Enclosing', NEW t \in Transformations, NEW keep \in BOOLEAN, Apply(t, keep)
  PROVE  Orderly'
<1>1. PICK holds : holds = (t \in DOMAIN Keepers /\ (keep \/ Keepers[t] \in asked))
  OBVIOUS
<1>2. PICK script \in Scripts[t] : calls' = <<Begun(t, script, keep, holds)>>
  BY <1>1 DEF Apply
<1>3. PICK c : c = Begun(t, script, keep, holds)
  OBVIOUS
<1>4. c.t = t /\ c.script = script /\ c.at = 1 /\ c.holds = holds
  BY <1>3 DEF Begun
<1>5. PICK y : y = calls'
  OBVIOUS
<1>6. y = <<c>> /\ Len(y) = 1 /\ y[1] = c
  BY <1>2, <1>3, <1>5
<1>7. Composed(t, script) /\ Len(script) \in Nat
  <2>1. Composed(t, script)
    BY ScriptsAreComposed
  <2> QED BY <2>1 DEF Composed
<1>8. WellCalled(y)
  <2>1. IsRun(c)
    BY <1>1, <1>4, <1>7 DEF IsRun
  <2>2. 1 + Level(c.t) <= 4
    BY LevelIsNumber
  <2>3. \A i \in 1..Len(y) : i = 1 /\ y[i] = c
    BY <1>6
  <2> QED BY <1>6, <2>1, <2>2, <2>3 DEF WellCalled
<1>9. changed' = changed /\ vedStale' = vedStale /\ current' = current
  BY DEF Apply
<1>10. UpdateDue(y, changed', vedStale' \/ current')
  <2>1. vedStale \/ current
    BY DEF Apply, Orderly, UpdateDue
  <2> QED BY <1>9, <2>1 DEF UpdateDue
<1>11. asked' = IF keep THEN asked \cup {Keepers[t]} ELSE asked
  BY DEF Apply
<1>12. RequestPending(y, asked')
  <2>1. ASSUME t \in Keeping, Keepers[t] \in asked' PROVE holds /\ Exchanges(script, 1)
    <3>1. t \in DOMAIN Keepers
      BY <2>1, KeeperNames
    <3>2. keep \/ Keepers[t] \in asked
      BY <1>11, <2>1
    <3>3. Exchanges(script, 1)
      BY <1>7, <2>1 DEF Composed
    <3> QED BY <1>1, <3>1, <3>2, <3>3
  <2> QED BY <1>4, <1>6, <2>1 DEF RequestPending
<1>13. Flags'
  BY <1>9 DEF Flags, Orderly
<1>14. WellCalled(calls') /\ UpdateDue(calls', changed', vedStale' \/ current')
       /\ RequestPending(calls', asked')
  BY <1>5, <1>8, <1>10, <1>12
<1> QED BY <1>13, <1>14, OrderlyAfter

LEMMA CallInnerIsOrderly ==
  ASSUME Orderly, Enclosing', CallInner
  PROVE  Orderly'
<1>1. Running("nested")
  BY DEF CallInner
<1> DEFINE n == Len(calls)
<1>2. /\ AreCalls(calls) /\ calls # <<>> /\ n \in Nat \ {0}
      /\ top = calls[n] /\ IsRun(top) /\ Composed(top.t, top.script) /\ n + Level(top.t) <= 4
      /\ top.at \in 1..Len(top.script) /\ Len(top.script) \in Nat
      /\ top.script[top.at].op = "nested"
  BY <1>1, AtStep
<1>3. PICK t : t = step.of
  OBVIOUS
<1>4. t \in Called /\ t \in Transformations /\ Level(t) < Level(top.t)
  BY <1>2, <1>3, CalledAreTransformations DEF Composed, NestsIn, step
<1>5. PICK script \in Scripts[t], keep \in BOOLEAN :
        calls' = Append(Advanced, Begun(t, script, keep, keep))
  BY <1>3 DEF CallInner
<1>6. PICK c : c = Begun(t, script, keep, keep)
  OBVIOUS
<1>7. c.t = t /\ c.script = script /\ c.at = 1 /\ c.holds = keep
  BY <1>6 DEF Begun
<1>8. PICK x : x = Advanced
  OBVIOUS
<1>9. PICK y : y = calls'
  OBVIOUS
<1>10. /\ AreCalls(x) /\ Len(x) = n /\ x # <<>>
       /\ \A i \in 1..n : i # n => x[i] = calls[i]
       /\ x[n].t = calls[n].t /\ x[n].script = calls[n].script
       /\ x[n].holds = calls[n].holds /\ x[n].at = calls[n].at + 1
  <2>1. Encloses(calls, context)
    BY DEF Orderly, Enclosing
  <2>2. AreCalls(x)
    BY <1>2, <1>8, <2>1, AdvancedEncloses DEF Advanced
  <2> QED BY <1>2, <1>8, <2>2, GoingOn DEF Advanced
<1>11. /\ Len(y) = n + 1 /\ y # <<>>
       /\ \A i \in 1..n : y[i] = x[i]
       /\ y[n + 1] = c
  <2>1. PICK S : x \in Seq(S)
    BY <1>10 DEF AreCalls
  <2>2. y = Append(x, c)
    BY <1>5, <1>6, <1>8, <1>9
  <2> QED BY <1>10, <2>1, <2>2, Appended
<1>12. Composed(t, script) /\ Len(script) \in Nat
  <2>1. Composed(t, script)
    BY <1>4, ScriptsAreComposed
  <2> QED BY <2>1 DEF Composed
<1>13. WellCalled(calls)
  BY DEF Orderly
<1> HIDE DEF n
<1>14. WellCalled(y)
  <2> SUFFICES ASSUME NEW i \in 1..n + 1
               PROVE  /\ IsRun(y[i]) /\ i + Level(y[i].t) <= 4
                      /\ i < n + 1 => y[i].at > 1 /\ y[i].script[y[i].at - 1].op = "nested"
    BY <1>11 DEF WellCalled
  <2>1. CASE i = n + 1
    <3>1. IsRun(c)
      BY <1>4, <1>7, <1>12 DEF IsRun
    <3>2. Level(t) \in 0..3 /\ Level(top.t) \in 0..3
      BY LevelIsNumber
    <3>3. n + 1 + Level(t) <= 4
      BY <1>2, <1>4, <3>2
    <3> QED BY <1>2, <1>7, <1>11, <2>1, <3>1, <3>3
  <2>2. CASE i = n
    <3>1. y[i].t = top.t /\ y[i].script = top.script /\ y[i].holds = top.holds
          /\ y[i].at = top.at + 1
      BY <1>2, <1>10, <1>11, <2>2
    <3>2. IsRun(y[i])
      BY <1>2, <3>1 DEF IsRun
    <3>3. y[i].at > 1 /\ y[i].at - 1 = top.at
      BY <1>2, <3>1
    <3> QED BY <1>2, <2>2, <3>1, <3>2, <3>3
  <2>3. CASE i # n /\ i # n + 1
    <3>1. i \in 1..n /\ i < n /\ y[i] = calls[i]
      BY <1>2, <1>10, <1>11, <2>3
    <3> QED BY <1>13, <3>1 DEF WellCalled, n
  <2> QED BY <2>1, <2>2, <2>3
<1>15. changed' = changed /\ vedStale' = vedStale /\ current' = current /\ asked' = asked
  BY DEF CallInner
<1>16. UpdateDue(y, changed', vedStale' \/ current')
  <2>1. changed \/ (vedStale \/ current)
    BY DEF Orderly, UpdateDue
  <2>2. Due(Reading(c.t), c.script, c.at)
    BY <1>4, <1>7, <1>12 DEF Composed
  <2> QED BY <1>11, <1>15, <2>1, <2>2 DEF UpdateDue
<1>17. RequestPending(y, asked')
  <2>1. RequestPending(calls, asked)
    BY DEF Orderly
  <2>2. 1 \in 1..n /\ y[1] = x[1]
    BY <1>2, <1>11
  <2>3. CASE n = 1
    <3>1. x[1].t = top.t /\ x[1].t \notin Keeping
      <4>1. x[1].t = top.t /\ Level(top.t) > 0
        BY <1>2, <1>4, <1>10, <2>3, LevelIsNumber
      <4> QED BY <4>1 DEF Level, Keeping
    <3> QED BY <2>2, <3>1 DEF RequestPending
  <2>4. CASE n # 1
    <3>1. y[1] = calls[1]
      BY <1>10, <2>2, <2>4
    <3> QED BY <1>2, <1>15, <2>1, <3>1 DEF RequestPending
  <2> QED BY <2>3, <2>4
<1>18. Flags'
  BY <1>15 DEF Flags, Orderly
<1>19. WellCalled(calls') /\ UpdateDue(calls', changed', vedStale' \/ current')
       /\ RequestPending(calls', asked')
  BY <1>9, <1>14, <1>16, <1>17
<1> QED BY <1>18, <1>19, OrderlyAfter

\* A call that has come to its end has nothing due.
LEMMA NothingDueAtEnd ==
  ASSUME Orderly, calls # <<>>, top.at > Len(top.script)
  PROVE  /\ vedStale \/ current
         /\ ~Exchanges(top.script, top.at)
         /\ Len(calls) \in Nat \ {0} /\ top = calls[Len(calls)]
<1>1. Len(calls) \in Nat \ {0} /\ top = calls[Len(calls)]
  BY Innermost DEF Orderly, Enclosing
<1>2. IsRun(top)
  BY <1>1 DEF Orderly, WellCalled
<1>3. Len(top.script) \in Nat /\ top.at \in Nat
  BY <1>2, RunIsComposed DEF IsRun
<1>4. top.at..Len(top.script) = {}
  BY <1>3
<1>5. ~Due(Reading(top.t), top.script, top.at) /\ ~Exchanges(top.script, top.at)
  BY <1>4 DEF Due, Exchanges
<1> QED BY <1>1, <1>5 DEF Orderly, UpdateDue

LEMMA ReturnInnerIsOrderly ==
  ASSUME Orderly, Enclosing', ReturnInner
  PROVE  Orderly'
<1> DEFINE n == Len(calls)
<1>1. AreCalls(calls) /\ n > 1 /\ top.at > Len(top.script)
  BY DEF ReturnInner, Orderly, Enclosing
<1>2. PICK S : calls \in Seq(S)
  BY <1>1 DEF AreCalls
<1>3. calls # <<>> /\ n \in Nat
  BY <1>1, <1>2
<1>4. PICK y : y = calls'
  OBVIOUS
<1>5. Len(y) = n - 1 /\ \A i \in 1..n - 1 : y[i] = calls[i]
  BY <1>2, <1>3, <1>4, WithoutLast DEF ReturnInner
<1>6. WellCalled(calls) /\ RequestPending(calls, asked) /\ UpdateDue(calls, changed, vedStale \/ current)
  BY DEF Orderly
<1>7. vedStale \/ current
  BY <1>1, <1>3, NothingDueAtEnd
<1>8. changed' = changed /\ vedStale' = vedStale /\ current' = current /\ asked' = asked
  BY DEF ReturnInner
<1> HIDE DEF n
<1>9. WellCalled(y)
  <2> SUFFICES ASSUME NEW i \in 1..n - 1
               PROVE  /\ IsRun(y[i]) /\ i + Level(y[i].t) <= 4
                      /\ i < n - 1 => y[i].at > 1 /\ y[i].script[y[i].at - 1].op = "nested"
    BY <1>5 DEF WellCalled
  <2>1. i \in 1..n /\ i < n /\ y[i] = calls[i]
    BY <1>3, <1>5
  <2> QED BY <1>6, <2>1 DEF WellCalled, n
<1>10. UpdateDue(y, changed', vedStale' \/ current')
  BY <1>7, <1>8 DEF UpdateDue
<1>11. RequestPending(y, asked')
  <2>1. 1 \in 1..n - 1 /\ y[1] = calls[1]
    BY <1>1, <1>3, <1>5 DEF n
  <2> QED BY <1>3, <1>6, <1>8, <2>1 DEF RequestPending
<1>12. Flags'
  BY <1>8 DEF Flags, Orderly
<1>13. WellCalled(calls') /\ UpdateDue(calls', changed', vedStale' \/ current')
       /\ RequestPending(calls', asked')
  BY <1>4, <1>9, <1>10, <1>11
<1> QED BY <1>12, <1>13, OrderlyAfter

LEMMA ClientsCall ==
  ASSUME ReturnToClient
  PROVE  calls # <<>> /\ Len(calls) = 1 /\ top.at > Len(top.script)
<1>1. Len(calls) = 1 /\ top.at > Len(top.script)
  BY DEF ReturnToClient
<1>2. Len(<<>>) = 0
  OBVIOUS
<1>3. calls # <<>>
  BY <1>1, <1>2
<1> QED BY <1>1, <1>3

LEMMA EndIsOrderly ==
  ASSUME Orderly, Enclosing', ReturnToClient \/ Throw
  PROVE  Orderly'
<1>1. calls' = <<>> /\ vedStale' = vedStale /\ current' = current
  BY DEF ReturnToClient, Throw
<1>2. WellCalled(calls') /\ RequestPending(calls', asked')
  <2>1. 1..Len(<<>>) = {}
    OBVIOUS
  <2>2. WellCalled(<<>>) /\ RequestPending(<<>>, asked')
    BY <2>1 DEF WellCalled, RequestPending
  <2> QED BY <1>1, <2>2
<1>3. changed' \/ (vedStale' \/ current')
  <2>1. CASE ReturnToClient
    <3>1. calls # <<>> /\ top.at > Len(top.script)
      BY <2>1, ClientsCall
    <3> QED BY <1>1, <3>1, NothingDueAtEnd
  <2>2. CASE Throw
    BY <2>2 DEF Throw, Orderly, UpdateDue
  <2> QED BY <2>1, <2>2
<1>4. UpdateDue(calls', changed', vedStale' \/ current')
  BY <1>1, <1>3 DEF UpdateDue
<1>5. Flags'
  BY DEF Flags, Orderly, ReturnToClient, Throw
<1> QED BY <1>2, <1>4, <1>5, OrderlyAfter

LEMMA ReadIsOrderly ==
  ASSUME Orderly, Enclosing', Read \/ UNCHANGED vars
  PROVE  Orderly'
<1>1. calls' = calls /\ changed' = changed /\ asked' = asked
  BY DEF Read, vars
<1>2. (vedStale \/ current) => (vedStale' \/ current')
  BY DEF Read, vars
<1>3. UpdateDue(calls', changed', vedStale' \/ current')
  BY <1>1, <1>2 DEF Orderly, UpdateDue
<1>4. WellCalled(calls') /\ RequestPending(calls', asked')
  BY <1>1 DEF Orderly
<1>5. Flags'
  BY DEF Flags, Orderly, Read, vars
<1> QED BY <1>3, <1>4, <1>5, OrderlyAfter

LEMMA NextIsOrderly == Orderly /\ [Next]_vars => Orderly'
<1> SUFFICES ASSUME Orderly, [Next]_vars
             PROVE  Orderly'
  OBVIOUS
<1>1. Enclosing'
  BY NextEncloses DEF Orderly
<1>2. ASSUME NEW t \in Transformations, NEW keep \in BOOLEAN, Apply(t, keep)
      PROVE  Orderly'
  BY <1>1, <1>2, ApplyIsOrderly
<1>3. CASE ChangeGraph
  BY <1>1, <1>3, ChangeIsOrderly
<1>4. CASE MarkStale
  BY <1>1, <1>4, MarkIsOrderly
<1>5. CASE ExchangeVertices
  BY <1>1, <1>5, ExchangeIsOrderly
<1>6. CASE CallInner
  BY <1>1, <1>6, CallInnerIsOrderly
<1>7. CASE ReturnInner
  BY <1>1, <1>7, ReturnInnerIsOrderly
<1>8. CASE ReturnToClient \/ Throw
  BY <1>1, <1>8, EndIsOrderly
<1>9. CASE RunHook
  BY <1>1, <1>9, HookIsOrderly
<1>10. CASE Read \/ UNCHANGED vars
  BY <1>1, <1>10, ReadIsOrderly
<1> QED BY <1>2, <1>3, <1>4, <1>5, <1>6, <1>7, <1>8, <1>9, <1>10 DEF Next

LEMMA InitIsOrderly == Init => Orderly
<1> SUFFICES ASSUME Init PROVE Orderly
  OBVIOUS
<1>1. calls = <<>> /\ vedStale = TRUE /\ current = FALSE /\ changed = FALSE
  BY DEF Init
<1>2. Enclosing
  BY InitEncloses
<1>3. 1..Len(calls) = {}
  BY <1>1
<1> QED BY <1>1, <1>2, <1>3 DEF Orderly, Flags, WellCalled, UpdateDue, RequestPending

LEMMA AlwaysOrderly == Spec => []Orderly
BY InitIsOrderly, NextIsOrderly, PTL DEF Spec

-----------------------------------------------------------------------------
(* Theorems *)

\* The context is empty between calls, and a hook sees in it exactly the
\* transformations that enclose it, outermost first.
THEOREM HookCallsContextIsWhatEncloses == Spec => []ContextIsWhatEncloses
<1>1. Enclosing => ContextIsWhatEncloses
  <2> SUFFICES ASSUME Enclosing PROVE ContextIsWhatEncloses
    OBVIOUS
  <2>1. ASSUME Idle PROVE context = <<>>
    BY <2>1, IdleIsEmpty DEF Enclosing, Idle
  <2>2. ASSUME AtHook PROVE context = [i \in 1..Len(calls) - 1 |-> calls[i].t]
    <3>1. calls # <<>> /\ Encloses(calls, context)
      BY <2>2 DEF Enclosing, AtHook, Running, Idle
    <3>2. PICK T : context \in Seq(T)
      BY <3>1 DEF Encloses
    <3>3. Len(context) = Len(calls) - 1 /\ \A i \in 1..Len(context) : context[i] = calls[i].t
      BY <3>1 DEF Encloses
    <3>4. context = [i \in 1..Len(context) |-> context[i]]
      BY <3>2
    <3>5. [i \in 1..Len(context) |-> context[i]] = [i \in 1..Len(context) |-> calls[i].t]
      BY <3>3
    <3> QED BY <3>3, <3>4, <3>5
  <2> QED BY <2>1, <2>2 DEF ContextIsWhatEncloses
<1> QED BY <1>1, AlwaysEnclosing, PTL

\* One call of the client, one planning hook, whatever it is composed of.
THEOREM HookCallsPlannedOnce == Spec => []PlannedOnce
<1>1. Enclosing => PlannedOnce
  BY DEF Enclosing
<1> QED BY <1>1, AlwaysEnclosing, PTL

\* Transformations never nest deeper than the context has room for, and the hooks of
\* an inner one run between the on_start and an on_end of the composed one.
THEOREM HookCallsHooksAreNested == Spec => []HooksAreNested
<1>1. Orderly => PlannedOnce
  BY DEF Orderly, Enclosing
<1>2. Orderly => NestingFits
  <2> SUFFICES ASSUME Orderly, Running("nested") PROVE Len(context) < capacity
    BY DEF NestingFits
  <2>1. /\ calls # <<>> /\ Len(calls) \in Nat \ {0} /\ Len(calls) + Level(top.t) <= 4
        /\ Composed(top.t, top.script) /\ top.at \in 1..Len(top.script)
        /\ top.script[top.at].op = "nested"
    BY AtStep
  <2>2. Level(top.t) >= 1
    <3>1. PICK t : t = top.script[top.at].of
      OBVIOUS
    <3>2. Level(t) < Level(top.t) /\ Level(t) \in 0..3 /\ Level(top.t) \in 0..3
      BY <2>1, <3>1, LevelIsNumber DEF Composed, NestsIn
    <3> QED BY <3>2
  <2>3. Len(context) = Len(calls) - 1
    BY <2>1 DEF Orderly, Enclosing, Encloses
  <2> QED BY <2>1, <2>2, <2>3, LevelIsNumber, HookCallsAssumption
<1>3. Orderly => InnerHooksAreEnclosed
  <2> SUFFICES ASSUME Orderly, NEW i \in 1..Len(calls) - 1, calls[i].t # "EdgeSplit"
               PROVE  /\ \E j \in 1..calls[i].at - 1 : calls[i].script[j].op = "on_start"
                      /\ \E j \in calls[i].at..Len(calls[i].script) :
                           calls[i].script[j].op = "on_end"
    BY DEF InnerHooksAreEnclosed
  <2>1. Len(calls) \in Nat
    BY DEF Orderly, Enclosing, AreCalls
  <2>2. i \in 1..Len(calls) /\ i < Len(calls)
    BY <2>1
  <2>3. PICK c : c = calls[i]
    OBVIOUS
  <2>4. IsRun(c) /\ c.at > 1 /\ c.script[c.at - 1].op = "nested"
    BY <2>2, <2>3 DEF Orderly, WellCalled
  <2>5. Surrounds(c.script) /\ Len(c.script) \in Nat
    BY <2>3, <2>4, RunIsComposed DEF Composed
  <2>6. c.at - 1 \in 1..Len(c.script) /\ (c.at - 1) + 1 = c.at
    BY <2>4, <2>5 DEF IsRun
  <2>7. PICK j \in 1..(c.at - 1) - 1 : c.script[j].op = "on_start"
    BY <2>4, <2>5, <2>6 DEF Surrounds
  <2>8. PICK k \in (c.at - 1) + 1..Len(c.script) : c.script[k].op = "on_end"
    BY <2>4, <2>5, <2>6 DEF Surrounds
  <2>9. j \in 1..c.at - 1 /\ k \in c.at..Len(c.script)
    BY <2>6
  <2> QED BY <2>3, <2>7, <2>8, <2>9
<1>4. Orderly => HooksAreNested
  BY <1>1, <1>2, <1>3 DEF HooksAreNested
<1> QED BY <1>4, AlwaysOrderly, PTL

\* Whoever reads the descriptors in between, neither an on_end hook, but that of the
\* merger of a leaf with a cycle, nor the client is left with those of an earlier graph.
THEOREM HookCallsReadsAreOfTheChangedGraph == Spec => []ReadsAreOfTheChangedGraph
<1>1. Orderly => ReadsBetweenCallsAreCurrent
  BY DEF Orderly, UpdateDue, ReadsBetweenCallsAreCurrent
<1>2. Orderly => EndHooksReadCurrent
  <2> SUFFICES ASSUME Orderly, Running("on_end"), top.t # "From12Cycle", ~vedStale
               PROVE  current
    BY DEF EndHooksReadCurrent
  <2>1. /\ calls # <<>> /\ top = calls[Len(calls)] /\ Composed(top.t, top.script)
        /\ top.at \in 1..Len(top.script) /\ top.script[top.at].op = "on_end"
    BY AtStep
  <2>2. Reading(top.t) = {"on_end"} /\ top.script \in Seq(AnyStep)
    BY <2>1 DEF Reading, Composed
  <2>3. ~Due(Reading(top.t), top.script, top.at)
    <3>1. "on_end" \notin {"mark", "nested"} /\ "on_end" \in {"on_end"}
      OBVIOUS
    <3> QED BY <2>1, <2>2, <3>1, DueGoesOn
  <2> QED BY <2>1, <2>3 DEF Orderly, UpdateDue
<1>3. Orderly => ReadsAreOfTheChangedGraph
  BY <1>1, <1>2 DEF ReadsAreOfTheChangedGraph
<1> QED BY <1>3, AlwaysOrderly, PTL

\* A functor keeps a vertex in the call that asks for it, and in no later one.
THEOREM HookCallsRequestsEndWithCalls == Spec => RequestsEndWithCalls
<1>1. ASSUME Orderly, ReturnToClient, top.t \in DOMAIN Keepers
      PROVE  Keepers[top.t] \notin asked'
  <2>1. calls # <<>> /\ Len(calls) = 1 /\ top.at > Len(top.script)
    BY <1>1, ClientsCall
  <2>2. CASE top.t = "To12"
    BY <1>1, <2>2 DEF ReturnToClient, Cleared
  <2>3. CASE top.t # "To12"
    <3>1. top.t \in Keeping /\ asked' = asked
      BY <1>1, <2>3, KeeperNames DEF ReturnToClient
    <3>2. ~Exchanges(top.script, top.at) /\ top = calls[1]
      BY <1>1, <2>1, NothingDueAtEnd
    <3> QED BY <1>1, <2>1, <3>1, <3>2 DEF Orderly, RequestPending
  <2> QED BY <2>2, <2>3
<1>2. Orderly /\ [Next]_vars =>
        [ReturnToClient /\ top.t \in DOMAIN Keepers => Keepers[top.t] \notin asked']_vars
  BY <1>1
<1> QED BY <1>2, AlwaysOrderly, PTL DEF Spec, RequestsEndWithCalls
=============================================================================
