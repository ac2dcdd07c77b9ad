----------------------------- MODULE HookCalls -----------------------------
(***************************************************************************)
(* What the hooks of a property processor run inside of.  A transformation *)
(* is the order in which its apply() calls its hooks, changes the graph,   *)
(* marks the vertex descriptors stale and calls other transformations.     *)
(* The graph itself is left out: what counts is whether the descriptors    *)
(* are those of the graph as it has become.  Any hook may read them, and   *)
(* any hook may throw, which unwinds the calls.                            *)
(***************************************************************************)
EXTENDS Naturals, Sequences, SequencesExt

CONSTANTS capacity,      \* nesting depth that the context has room for
          MaxPullSteps   \* bound: steps of one pull

\* There is room for 16 in the code (context.h:42).
ASSUME HookCallsAssumption == capacity \in Nat /\ capacity >= 3 /\ MaxPullSteps \in Nat \ {0}

VARIABLES calls,       \* the transformations under way, from the client's on
          context,     \* the composed ones among them, as the hooks see it
          current,     \* the descriptors, once rebuilt, are those of the graph
          vedStale,    \* they are to be rebuilt at the next read
          changed,     \* the client's call has changed the graph
          asked,       \* functors that hold a request to keep a vertex
          plans        \* planning hooks called in the client's call

vars == <<calls, context, current, vedStale, changed, asked, plans>>

-----------------------------------------------------------------------------
(* The transformations as sequences of steps *)

Do(op) == [op |-> op, of |-> "itself"]
Inner(t) == [op |-> "nested", of |-> t]

Start == Do("on_start")
End == Do("on_end")
Change == Do("change")
Mark == Do("mark")
Exchange == Do("exchange")   \* of two vertices, if there is a request

\* A sequence of S and then one of T.
S \otimes T == {x \o y : x \in S, y \in T}

Simple == {<<Start, Change, Mark, End>>}

\* A vertex to keep is put in its place right after on_start.
KeepingMerger == {<<Start, Exchange, Change, Mark, End>>}

\* The update with vertices comes after on_end.
CycleMerger == {<<Start, Exchange, Change, End, Mark>>}

\* At an inner vertex of a cycle the hooks are called twice.
To11 ==
  {<<Start, Change, Mark, Exchange, End>>, <<Start, Start, Change, Mark, Exchange, End, End>>}

\* Faulty: it leaves the marks to the merger, which is not always called.
To12Unmarked ==
  {<<Start, Change>>} \otimes {<<>>, <<Exchange>>}
    \otimes {<<Change>>, <<Change, Inner("From11")>>, <<Change, Exchange, Inner("From11")>>}
    \otimes {<<End>>}

To12 ==
  {<<Start, Change>>} \otimes {<<>>, <<Exchange>>}
    \otimes {<<Change, Mark>>, <<Change, Inner("From11")>>, <<Change, Exchange, Inner("From11")>>}
    \otimes {<<Mark, End>>}

To22 == {<<Start, Inner("To13"), Inner("To12"), Inner("From11"), End>>}

\* The new chain is there, and the descriptors marked, before on_start.
InNewChain ==
  {<<Change, Mark, Start, Inner(t), End>> : t \in {"From12", "From12Cycle", "From13"}}

\* Faulty: on_end as soon as the edge is off the junction.
DeletingEndedEarly ==
  {<<Start, Inner(t), End, Inner("ComponentDeletion")>> : t \in {"To12", "To13"}}

DeletingHostChain ==
  {<<Start, Inner(t), Inner("ComponentDeletion"), End>> : t \in {"To12", "To13"}}

EdgeMerger == {<<Start, Inner(t), End>> : t \in {"DeletingHostChain", "PreservingHostChain"}}

\* An edge split has no hooks of its own.
EdgeSplit == {<<Inner("InExistingChain")>>}

\* One step of pulling a leaf without its on_end: nothing within one chain;
\* else the edges are shifted and a source chain of one edge is dissolved.
PullAlong ==
  {<<>>, <<Change, Mark>>,
   <<Inner("InExistingChain"), Change, Mark, Change, Inner("DeletingHostChain"), Change, Mark>>}

\* n steps, each followed by on_end.
Steps[n \in 0..MaxPullSteps] ==
  IF n = 0 THEN {<<>>} ELSE Steps[n - 1] \otimes PullAlong \otimes {<<End>>}

\* Pulls of a leaf, of a vertex of degree two (a path of one edge is turned)
\* and of a junction of three chains: the first step and those that remain.
On1 == {<<Start>>} \otimes UNION {Steps[n] : n \in 1..MaxPullSteps}
Remaining == UNION {Steps[n - 1] : n \in 1..MaxPullSteps}
On2 ==
  {<<Start>>}
    \otimes ({<<Change, Mark>>} \cup ({<<Inner("To11")>>} \otimes PullAlong \otimes {<<Inner("From12")>>}))
    \otimes {<<End>>} \otimes Remaining
On3 ==
  {<<Start, Inner("To12")>>} \otimes PullAlong
    \otimes {<<Inner(t), End>> : t \in {"From12", "From12Cycle", "From22"}}
    \otimes Remaining

Scripts ==
  [From11 |-> Simple, From12 |-> KeepingMerger, From12Cycle |-> CycleMerger,
   From13 |-> Simple, From22 |-> KeepingMerger,
   To11 |-> To11, To12 |-> To12, To13 |-> Simple, To22 |-> To22,
   InExistingChain |-> Simple, InNewChain |-> InNewChain,
   PreservingHostChain |-> Simple, DeletingHostChain |-> DeletingHostChain,
   EdgeMerger |-> EdgeMerger, EdgeSplit |-> EdgeSplit,
   ComponentCreation |-> Simple, ComponentDeletion |-> Simple,
   On1 |-> On1, On2 |-> On2, On3 |-> On3]

Transformations == DOMAIN Scripts

\* The object that holds a request to keep a vertex, by transformation.
Keepers == [From12 |-> "From12", From12Cycle |-> "From12", From22 |-> "From22",
            To11 |-> "To11", To12 |-> "To12"]

-----------------------------------------------------------------------------
(* Calls *)

Idle == calls = <<>>
top == Last(calls)
step == top.script[top.at]
Running(op) == ~Idle /\ top.at <= Len(top.script) /\ step.op = op
Advanced == [calls EXCEPT ![Len(calls)].at = @ + 1]

\* A call that was asked to keep a vertex (wants) or whose functor holds a
\* request to (holds).
Begun(t, script, wants, holds) ==
  [t |-> t, script |-> script, at |-> 1, wants |-> wants, holds |-> holds]

\* The planning hooks called, n so far: one more for a transformation that is
\* called in an empty context c.
vet(c, n) == IF c = <<>> THEN n + 1 ELSE n

\* The client calls a functor, asking it to keep a vertex or not; the planning
\* hook agrees.
Apply(t, keep) ==
  /\ Idle /\ ~changed
  /\ keep => t \in DOMAIN Keepers
  /\ LET holds == t \in DOMAIN Keepers /\ (keep \/ Keepers[t] \in asked)
     IN  \E script \in Scripts[t] : calls' = <<Begun(t, script, keep, holds)>>
  /\ asked' = IF keep THEN asked \cup {Keepers[t]} ELSE asked
  /\ plans' = vet(context, 0)
  /\ UNCHANGED <<context, current, vedStale, changed>>

ChangeGraph ==
  /\ Running("change") /\ calls' = Advanced
  /\ current' = FALSE /\ changed' = TRUE
  /\ UNCHANGED <<context, vedStale, asked, plans>>

MarkStale ==
  /\ Running("mark") /\ calls' = Advanced /\ vedStale' = TRUE
  /\ UNCHANGED <<context, current, changed, asked, plans>>

\* Faulty: the request stays with the functor.
ClearedNever(t) == asked

\* The requests left after functor t has done what it was asked.
Cleared(t) == asked \ {Keepers[t]}

\* An exchange changes the graph and marks the descriptors.
ExchangeVertices ==
  /\ Running("exchange")
  /\ calls' = Advanced
  /\ IF top.holds
     THEN /\ current' = FALSE /\ vedStale' = TRUE /\ changed' = TRUE
          /\ asked' = IF Len(calls) = 1 /\ top.t # "To12" THEN Cleared(top.t) ELSE asked
     ELSE UNCHANGED <<current, vedStale, changed, asked>>
  /\ UNCHANGED <<context, plans>>

\* The context inside of transformation t.
Entered(c, t) == Append(c, t)

\* The composed transformation adds itself to the context and calls another,
\* which it may ask to keep a vertex.
CallInner ==
  /\ Running("nested") /\ Len(context) < capacity
  /\ \E script \in Scripts[step.of], keep \in BOOLEAN :
       /\ keep => step.of \in DOMAIN Keepers
       /\ calls' = Append(Advanced, Begun(step.of, script, keep, keep))
  /\ context' = Entered(context, top.t)
  /\ plans' = vet(Entered(context, top.t), plans)
  /\ UNCHANGED <<current, vedStale, changed, asked>>

ReturnInner ==
  /\ Len(calls) > 1 /\ top.at > Len(top.script)
  /\ calls' = Front(calls) /\ context' = Front(context)
  /\ UNCHANGED <<current, vedStale, changed, asked, plans>>

ReturnToClient ==
  /\ Len(calls) = 1 /\ top.at > Len(top.script)
  /\ calls' = <<>> /\ changed' = FALSE
  /\ asked' = IF top.t = "To12" THEN Cleared(top.t) ELSE asked
  /\ UNCHANGED <<context, current, vedStale, plans>>

AtHook == Running("on_start") \/ Running("on_end")

RunHook ==
  /\ AtHook /\ calls' = Advanced
  /\ UNCHANGED <<context, current, vedStale, changed, asked, plans>>

\* A hook, or the client between calls, reads the descriptors.
Read ==
  /\ Idle \/ AtHook
  /\ vedStale /\ vedStale' = FALSE /\ current' = TRUE
  /\ UNCHANGED <<calls, context, changed, asked, plans>>

\* Faulty: the frames are removed by a return only.
UnwoundByReturn(c, n) == c

\* The context after n frames have gone out of scope.
Unwound(c, n) == SubSeq(c, 1, Len(c) - n)

\* A hook throws: every call ends.  What was changed stays changed, and such a
\* graph is not used any more.
Throw ==
  /\ AtHook
  /\ calls' = <<>> /\ context' = Unwound(context, Len(calls) - 1)
  /\ UNCHANGED <<current, vedStale, changed, asked, plans>>

Init ==
  /\ calls = <<>> /\ context = <<>>
  /\ current = FALSE /\ vedStale = TRUE
  /\ changed = FALSE /\ asked = {} /\ plans = 0

Next ==
  \/ \E t \in Transformations, keep \in BOOLEAN : Apply(t, keep)
  \/ ChangeGraph \/ MarkStale \/ ExchangeVertices
  \/ CallInner \/ ReturnInner \/ ReturnToClient
  \/ RunHook \/ Read \/ Throw

Spec == Init /\ [][Next]_vars

-----------------------------------------------------------------------------
(* Properties *)

\* The context lists the transformations that enclose a hook, and is empty for
\* the hooks of what the client applied, those of a composed one included.  It is
\* empty whenever no call is under way, also after one that a hook has ended by
\* throwing at any depth ("The context is restored when an inner transformation
\* throws", tests/hook_context.cpp).
ContextIsWhatEncloses ==
  /\ Idle => context = <<>>
  /\ AtHook => context = [i \in 1..Len(calls) - 1 |-> calls[i].t]

\* The planning hook is called once for each call of the client, never for a
\* transformation inside of another, whatever ended before.
PlannedOnce == ~Idle => plans = 1

\* Transformations nest no deeper than the context has room for.
NestingFits == Running("nested") => Len(context) < capacity

\* The hooks of an inner transformation run between the on_start and an on_end
\* of the composed one.  An edge split has none.
InnerHooksAreEnclosed ==
  \A i \in 1..Len(calls) - 1 :
    LET c == calls[i]
    IN  c.t # "EdgeSplit" =>
          /\ \E j \in 1..c.at - 1 : c.script[j].op = "on_start"
          /\ \E j \in c.at..Len(c.script) : c.script[j].op = "on_end"

\* However transformations are composed and whatever a hook does, the planning hook
\* of a call is called once, inner hooks are enclosed, and the context has room.
HooksAreNested == PlannedOnce /\ NestingFits /\ InnerHooksAreEnclosed

\* Every transformation marks the descriptors after its last change, itself or
\* through the last of its inner ones: a hook that reads in between and so
\* clears the mark leaves no stale descriptors to the client.
ReadsBetweenCallsAreCurrent == Idle /\ ~changed /\ ~vedStale => current

\* An on_end hook reads the descriptors of the changed graph, except that of
\* the merger of a leaf with a cycle, which is called before the update.
EndHooksReadCurrent ==
  Running("on_end") /\ top.t # "From12Cycle" /\ ~vedStale => current

\* No read, by a hook or between calls, leaves the client with descriptors of a graph
\* that has changed since.
ReadsAreOfTheChangedGraph == ReadsBetweenCallsAreCurrent /\ EndHooksReadCurrent

\* A request to keep a vertex ends with the call that made it, if that returns.
RequestsEndWithCalls ==
  [][ReturnToClient /\ top.t \in DOMAIN Keepers => Keepers[top.t] \notin asked']_vars

\* "Vertex object which a vertex split or merger keeps, when given" (Keep in
\* transforms/common.h): no vertices are exchanged in a call without it.
KeptOnlyWhenGiven == Running("exchange") => (top.holds => top.wants)
=============================================================================
