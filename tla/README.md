# Graffine in TLA+

Graffine (`include/graffine`) is a header-only, sequential C++ library for dynamic
spatial graphs: multigraphs whose vertices have degree 1 to 4, kept as *chains* of
edges between vertices of degree other than 2, grouped into connected *components*,
and changed by *transformations* (mergers and splits of vertices, creation and
deletion of components and edges, pulling). Paths below are relative to
`include/graffine` unless they start otherwise.

What is hard in it is bookkeeping. The same topology is recorded several times (edge
ends hold vertices, vertices hold edge descriptors with a stored index, chain ends
hold their neighbours, components hold lists and a classification of their chains,
three dense numberings are mapped back by lists), every removal renumbers by moving
the last element into the gap, and a transformation is a long sequence of edits in
which each relies on some records and has to leave others stale for a while. Around
this there are objects that live longer than one call and hold what they read earlier:
searches with their distances and marks, a cache of vertex descriptors, paths that are
pulled along step by step, the stack of nested calls that hooks see. There
are no threads and no messages, and nothing survives a
crash, so the hazards are of stale state, of order, of boundaries, of exceptions
thrown half-way, and of long sequences of legal calls.

## Inventory

| part (source) | state it keeps | operations | hard part | what makes it correct |
|---|---|---|---|---|
| edge (`structure/elements/edge.h`) | three indexes (graph, component, chain), chain, component, orientation, two vertices | connect, disconnect, reindex, reverse | inner and outer ends differ by orientation | both ends at a vertex that has the matching descriptor |
| vertex and container (`structure/elements/vertex.h`, `structure/containers/vertices.h`) | component, edge descriptors `(component index, end)` | create, remove, reindex, move, exchange | descriptors store an index that changes | descriptors equal the edges' own records |
| chain (`structure/elements/chain*`) | edge sequence, neighbour slots per end, indexes | reverse, rotate, conversions between indexes, ends and slots | a slot name changes with every renumbering | neighbours are exactly the ends at the same vertex; chains are maximal; conversions agree with the vertices |
| component (`structure/elements/component*`) | chain list, vertices, edge list, classes of chains | create, append, remove, rename, move chains; append, move, renumber edges; checks of itself | gap filling from the back, in three containers of different order | dense indexes, current lists, one connected component |
| graph (`structure/elements/graph*`) | chains, components, edge list, edge counter, mark of the descriptor cache | merge and split components, copy, replace, remove neighbours, exchange vertices, update lists | the last component or chain is moved while others refer to it | all of the above together |
| vertex descriptor cache (`structure/containers/vertices_in_graph.h`, `structure/elements/graph/descriptors.h`) | list of vertices with links, hints from identities to places, stale mark | mark, rebuild on first access, find | hints are never cleared; each transformation must mark | a read describes the graph as it is |
| paths over end slots (`structure/paths/over_endslots`) | distances, predecessors, queue, classes | reachability, shortest path, classification | run in the middle of a split on links just cut | distances, classes are those of the links |
| paths over edges (`structure/paths/over_edges`) | adjacency list copied at construction, distances, queue | compute from a source, walk back | a queue without decrease-key; the copy outlives the graph | the path is a shortest one of the component it was made for |
| vertex merger (`transforms/vertex_merger`) | a wish to keep a vertex | 1+1, 1+2, 1+3, 2+2, each inside a chain or on a cycle boundary, by slot or by vertex | 15 branches by chain, cycle, component | the two vertices become one and nothing else changes |
| vertex split (`transforms/vertex_split`) | a wish to keep a vertex | 2 to 1+1, 3 to 1+2, 4 to 1+3, 4 to 2+2 | composed of other transformations; bridges | one vertex becomes two and nothing else changes |
| component creation, deletion (`transforms/component_*`) | - | create a chain, delete a component | deletion from the back while the graph renumbers | one component appears or goes |
| edge creation, deletion, split, merger (`transforms/edge_*`) | - | one edge appears, goes, is divided, two are joined | insertion and removal inside chains, in three numberings | as the vertex transformations |
| pulling, junction shifter (`transforms/pulling`, `structure/modifiers/junction_shifter.h`) | a path of edge indexes, rebuilt after each step | pull a vertex of degree 1, 2 or 3 along a path | each step is a composition of splits and mergers that renumber the path | the path keeps its vertices, branches hang where planned |
| graph factory, graph files (`structure/modifiers/graph_factory.h`, `structure/io/ply.h`) | - | build a graph of a list of edges; write, read | cycles, vertices renumbered on the way out | what is read is what was written |
| analysers (`structure/analyzers`) | marks with an epoch in a search object | edge adjacency, adjacency of slots, connectivity, integral tests | marks outlive a search, the epoch wraps around | each search is as if it were the first |
| hooks and contexts (`transforms/context.h`, `plan.h`, `common.h`, `property_processor.h`) | a stack of frames of bounded depth; `Keep` requests in functors | call the user before and after; nest | exceptions at any hook | frames are exactly the calls that enclose; requests end with the call |
| printing, facets, general containers | - | messages, a data type, wrappers | - | - |

Calls go downwards: a transformation calls graph operations, these call components,
these call chains, edges and vertices. Splits call mergers, the 4 to 2+2 split calls
the 4 to 1+3 split, the 3 to 1+2 split and a merger, pulling calls splits, mergers,
edge creation and deletion and the junction shifter; the results of one call are
indexes that the next call may make stale. The searches read neighbour links and
adjacency lists and keep what they found; the cache is only marked and reads all of
the graph at the next access.

## Modules

```
GraphStructure          the data structure and its editing steps
  VertexMerger          transforms/vertex_merger
    VertexSplit         transforms/vertex_split (calls the mergers)
  ComponentTransforms   component creation and deletion
  EdgeTransforms        edge creation, split, deletion, merger (calls mergers, splits
                        and component deletion)
    Pulling             paths, junction shifter, pulling (calls all of the above)
    Lookups             conversions between indexes, ends, slots and vertices
      SelfChecks        the tests the library runs on itself
      VertexForms       the forms of the calls that take vertices
  Adjacency             the adjacency analyser
  GraphFactory          a graph of a list of edges
    PlyFile             what is written to a file and read from it

Graffine                the state machine over EdgeTransforms, its invariants,
                        INSTANCE Multigraph as the abstraction
  GraphFiles            + assembling, writing and reading     (PlyFile)
  GraphLookups          + what the lookups answer             (Adjacency, SelfChecks, VertexForms)
  GraphPulls            + pulls along paths, step by step     (Pulling)
  VertexDescriptors     + the cache and its reads
Multigraph              what a graph promises, without chains and indexes

EdgePaths               the search over edges, an object of its own
EndSlotPaths            the search over end slots
  DistanceRounds        what both of these are compared with
ConnectivitySearch      the search with marks of connectivity.h
HookCalls               calls, hooks, contexts and exceptions

Multigraph_proofs, EdgePaths_proofs, EndSlotPaths_proofs, ConnectivitySearch_proofs,
HookCalls_proofs        theorems about these
GraphReads_proofs       theorems about VertexDescriptors and the lookups of GraphLookups
  GraphQueries_proofs   theorems about the queries of GraphLookups
SharedLemmas            lemmas on numbers, lists and distances that several of these use
MC<...>                 instances for TLC: constants, starting graphs, bounds
```

**GraphStructure.** A graph value is one record (its fields are explained at the head
of the module): chains `cn`, components `ct`, edges `eg`, vertices `vx`, the graph's
edge list `egl`, the edge counter, fresh identities, and `ok`. An editing step takes a
graph and returns the edited one, so that a transformation reads as the sequence of
calls its C++ body makes, each on the result of the one before, stale intermediate
records included. An intermediate graph that is read more than once is the parameter of a
named step. `ok` becomes FALSE when an assertion of the code about its own state
fails or a lookup misses: a slot to be replaced or erased that is not there, an end to
be connected that is taken, a vertex to be removed that is still connected, a last edge
that is not where the list says. Indexes start at 1 instead of 0; the position of a
vertex inside a chain is the same number as in the code. Heap identities of edges and
vertices are numbers given in order of creation. Where the code walks a container that
is ordered by address, the model takes identities in order (vertices of a component) or
leaves the order open (neighbours in the searches).

**VertexMerger, VertexSplit, ComponentTransforms, EdgeTransforms.** For each combination of degrees
`Applicable...` is the check that guards the call (`applicability` in the code, on
slots), `Plan...` the vertex the plan announces, `Merge...`/`Split...` the body.
`Keep` requests (which of
the two vertices is to survive) are arguments. Hooks, messages and adjacency lists are
left out here (hooks have `HookCalls`). An edge transformation returns the edge it results in
or the vertex it leaves, which the code looks up again after the renumbering; a deletion
that takes its chain with it is a split and a component deletion, as in the code.

**Graffine.** One variable `gr`, one action per transformation, an existential over the
slots it can be called with; a rejected call changes nothing and so is no action. The
library promises nothing after an unchecked call that its applicability check would
reject, so that only accepted calls are made.

**Multigraph.** One variable: which edge ends meet at each vertex. `Merge`, `Split`,
`Create`, `Delete`, `Expand`, `Contract` are the documented effects, with `Holdable` (some ends, at most
`MaxDegree`, no loop) and connectedness of what appears or disappears. `Graffine`
instantiates it with `at` as the ends each vertex holds, so `MultigraphSpec` says that
each transformation has the effect it is named for and no other: no edge is lost, no
end moves to another vertex, other vertices keep identity and ends, whatever is
renumbered, reversed, rotated or exchanged on the way. A split may give both halves
new identities, since the 4 to 2+2 split merges one of them away again. A merger of two
vertices also covers `Keep`, which exchanges the two first. `Expand` puts an edge between a vertex and a new one, which may take over one old
end; `Contract` removes an edge and one of its vertices, and one of the two had no more
than one other edge. `Create` and `Split` cannot stand in for `Expand`, as an edge that is
new must touch an old vertex.

**GraphFactory, PlyFile, GraphFiles.** `Assemble` makes a graph of a list of edges with their
vertices and directions, by the steps of the factory: chains through vertices of
degree 2, neighbours, components, numberings. `Written` is what the writer leaves of a
graph, with vertices renumbered to be consecutive; `Read` is the reader's tests and the factory.
`GraphFiles` assembles an input, transforms, writes and reads. Most starting graphs of the
other instances are assembled, so that they are states of the program.

**Lookups, Adjacency, SelfChecks, VertexForms, GraphLookups.** The read-only part: functions that
find an edge, an end or a slot from what another part stores about it, the adjacency
lists and predicates, `IntegralTests`, and for each transformation the form that takes
vertices and looks the slots up. `GraphLookups` says of each what it should answer, in terms of
the vertices that the edges refer to. What decides among several slots of one vertex (the
order of its descriptor set) is an argument, so all are tried.

**Pulling, GraphPulls.** `MakePath`, the checks and every step of `on_1.h`, `on_2.h`, `on_3.h` are
operators from a graph and a path to both. `GraphPulls` makes a pull of several steps
several actions: `path` is the path as rebuilt by the last step, `left` the steps to go,
`plan` and `asked` what was announced beforehand for the path as corrected and as given.
The states between are those that the hook called after each step sees. Other calls between
pulls are pulls themselves, so that the second pull starts from a renumbered graph.

**VertexDescriptors.** `ved` is the list, `index` the hints, `vedStale` the mark. Each
transformation of `Graffine` leaves the mark through the sequence of `update` calls
its body makes; `Read` rebuilds. `Listing` puts the vertices in the order of the list, by component
and then by identity (`Place`). `hooked` is a point inside one merger where the
hook is called before the last update.

**EdgePaths, EndSlotPaths, ConnectivitySearch.** Each is a search object with its own copy of
what it reads, one action per iteration of its loop, and its results kept afterwards. The
graph may change between calls where the object outlives the call (`ChangeComponent`,
`ChangeChains`). The neighbours are taken in any order, which covers every order of the
code's sets. Weights are natural numbers. In `EndSlotPaths` the walk back from an end is stepwise as well
(`FindShortestPath`, `WalkBack`, `EndWalk`), and the weights of a network are so small that going along every chain
stays below `Inf` (`WeightsAssumption`), since an unreached end is told by its distance alone.
`DistanceRounds` defines the shortest distances that the results are compared with: improve all of them at once, as many times
as there are places.

**HookCalls.** Without a graph. Each transformation is a script of steps in the order of
its body: planning and start hooks, changes, marks, exchanges of vertices, nested
calls, end hooks. `calls` is the stack of C++ calls, `context` what they have pushed,
`current`, `vedStale` and `changed` are what reads of the descriptors depend on, `asked` is which functors still hold a
request to keep a vertex, `plans` the planning hooks called. Any hook may read and any
may throw; `Throw` unwinds to the client.

Operators with a comment that starts with `Faulty:` are plausible bugs of the operator
after them: a list not rewritten, a neighbour not told, a check off by one. Nothing
uses them in the specification. Each property of each run was seen to fail when
one of them takes the place of the real one, so that no property passes for want of
a case.

## Runs

| run | instance | what it shows |
|---|---|---|
| `small_graphs` | from the empty graph, at most 3 edges, any number of calls in any order; two cycles and a star of 4 edges, with all that they can be divided into | after every call all records agree: indexes and lists, chain and component membership, classes, vertex counts, descriptors, neighbours and vertices; chains are maximal, no self-check fails, and each call refines `Multigraph`; what a split divides, one accepted merger joins again |
| `larger_graphs` | on each of 8 graphs of up to 6 edges, 3 calls, or 2 of which one makes or takes a single edge | components stay connected where cutting a bridge moves several chains at once; mergers and splits keep the vertex of their plan or the one asked for; refinement |
| `mergers` | 4 edges in two or three chains, mergers until none applies; a star of 3, and an edge put in at its junction | every kind of merger occurs, and what it joins one accepted split takes apart along the same line; in all graphs on the way, each edge call that applies keeps its plan, and splitting an edge is undone by merging its halves |
| `multigraph` | 3 edges, 3 vertices, degree at most 2 | the abstract specification keeps its invariant, tried with every candidate successor, ill-formed ones included |
| `edge_paths` | four graphs of up to 6 edges, four weight patterns, any number of searches with one object, the component changed in between | an edge that is not pending offers its neighbours nothing shorter; distances and paths are the shortest afterwards; every call returns |
| `end_slot_paths` | every network of up to 3 chains with weights 1 and 3, four larger ones | the ends at a junction have one distance although they are written without comparison; paths are shortest, classes are by reach; every search ends |
| `connectivity` | every way to join 2 chains, two larger networks, exchanged between searches | no old mark is believed when the epoch wraps around; each answer is what can be reached; every search ends |
| `graph_files` | every input of up to 3 edges and 7 larger ones, one call, on at least 5 edges two, then written and read back | what is read is what was written; lookups, adjacency, self-checks and vertex forms answer what the vertices of the edges say |
| `pulls` | every graph of up to 3 edges and 12 larger ones; every straight path, up to 3 steps, two pulls in a row | after each step graph and path agree, the path keeps its vertex objects, branches are where planned |
| `descriptors` | four graphs of up to 4 edges with all degrees and a cycle of its own, two calls, reads anywhere | a read gives the graph as it is; links lead over its edges; hints of removed vertices mislead nobody |
| `hook_calls` | every transformation, any number of calls, hooks that read or throw, room for 3 frames | the context is what encloses a hook; plans are announced once; neither stale descriptors nor requests outlive a call that returns |
| `pull_across_junction` | as `pulls`, other paths included, up to 4 steps | a divergence, see below |

*Bounds.* `MaxEdges` limits the graphs, not the calls. Three edges give all degrees up to 4
(loops of two edges count two ends each), unconnected cycles, cycles with a leaf, two and three components, and every
action and branch that needs no more. Vertices of degree 4 that are two cycles, or four chains, need four edges, and so do mergers at a
junction of three; `small_graphs` starts from two such graphs, on which it makes no mergers, and `mergers` makes them. What four edges cannot give, larger starting graphs do: a chain bent
on itself, two cycles and a bridge, a bridge with branching parts on both sides whose cutting moves
several chains at once, cycles apart and joined, junctions of three and four separate
chains. Two or three calls from there (`MaxSteps`, `MaxCalls`; an edge call counts for two in
`larger_graphs`, since it multiplies the graphs most) are enough for one call to work on the
renumbering another left behind. `MaxInput` limits the inputs that are enumerated, each edge either at
vertices met before or at the lowest new one, so that every way to join that many is
there once; only the first edge is tried in both directions, the larger inputs alternate.
`MaxPulls` and the `MaxSteps` of a pull: the first step leaves the driver a leaf, the second is
of the kind all later ones are, the third is the first one that follows another of that
kind. `Straight` restricts `pulls` to paths that do not come back into the source chain
from behind its junction, where the code fails (`pull_across_junction`).
`MaxPullSteps` = 2 tells a pull of one step from a longer one. `capacity` = 3 stands for the 16 frames of
the context: `NestingFits` says that no composition needs more than these. `EpochMod` = 3 stands for 2^32: marks of the searches since the last clearing, and of
searches before it, have every age. `Inf` (100 over edges, 1000 over end slots) is above the sum of all weights and stands for the
largest value of the type.

*The view.* New edges and vertices get the next unused identity, so identities grow
without bound while indexes stay small. `View` forgets their choice: an edge is known by its index and a vertex
by the ends it holds. Identities are only compared for equality in the actions, except
that lists are rebuilt by index, so two graphs with the same view have the same
futures up to a renaming, and no property distinguishes them. `pulls` and
`descriptors`, whose state holds identities, use no view.

*Stopping and fairness.* In `Graffine` some call is always accepted, so that deadlock is checked in
`small_graphs`; `larger_graphs` has a final step that changes nothing once `MaxSteps` calls are made. The
instances that end at a bound (`graph_files`, `pulls`, `descriptors`) or when nothing more can be joined (`mergers`) or leave a
graph half changed by a throw (`hook_calls`) are checked without. The three searches assume
weak fairness of the steps inside a call that was made (`Search`, `Walk`; `GoOn`, `EndSearch`, `WalkBack`, `EndWalk`;
`Take`, `LookAtNeighbour`, `SearchOn`, `EndSearch`), because a call is one sequential function that
goes on until it returns; nothing is assumed about the client making calls. Under it
`CallsReturn` and `SearchEnds` say that the loops end, whatever was queued and however often an edge
was improved. The loops of the transformations are over finite lists (folds in the model).

## Divergences

One of these fails an assertion of the code and has a run. The others are stated in the module named, with the words of
the comment they come from, and fail when named as an INVARIANT of the instance in parentheses. Those
marked with a star were also seen in a program compiled with the library.

* **Pull across a junction*** (run `pull_across_junction`, `ChecksHold`). `transforms/pulling/functor_base.h:115` says that
  `applicability` checks "that the source chain is long enough for \p steps"; it compares the steps with
  `length_over_source_chain` (`functor_base.h:251`, `path.h:914`), which counts the last path edges that are in the source chain on both sides
  of its junction, when the chain is closed on itself there. The pull is accepted and a later step breaks an assertion.
* `structure/elements/chain.h:460` says that `is_unconnected_linear` "Checks if the chain has
  its both ends unconnected"; `structure/elements/chain/connectivity.h:160` returns true
  when *at least one* end is unconnected. `Graffine.UnconnectedLinearHasFreeEnds` (MCSmallGraphs).
* `structure/elements/graph.h:163` says of `generate_single_chain_components` that `num` is the
  "Desired number of components"; the loop bound in `structure/elements/graph/components.h:43`
  adds the number of *chains* present to `num`, and compares it with the number of
  components. `Graffine.GeneratesAsManyAsDesired` (MCSmallGraphs).
* `transforms/edge_merger/functor.h:215` (and line 142) says that `ind1` disappears if the chain
  of `ind2` has other edges and `ind2` if not; line 296 deletes `ind1` exactly when the chain of
  `ind1` is shrinkable. `Graffine.FirstEdgeDisappearsIfSecondHasOthers` (MCSmallGraphs).
* `structure/analyzers/adjacency.h:129`: "Finds out whether the vertices at the chain ends \p s1 and \p s2 are the same or
  joined by an edge"; the code at line 301 answers otherwise for the two ends of one chain. `GraphLookups.EndsAdjacentByEdges` (MCGraphFiles).
* `structure/paths/over_endslots/generic.h:113` says that the classes of chains rely "on the distances computed beforehand by
  `compute_from_source(s)` or `are_connected(s, ...)`"; for the ends of one chain the latter returns early (line 202) and leaves the distances
  of an earlier source. `EndSlotPaths.ClassesAfterAreConnected` (MCEndSlotPaths). The splits, which ask for classes, compute them first.
* `structure/modifiers/graph_factory.h:48` asks of the input edges only that they are connected to the vertices; when both
  edges at a vertex of degree 2 begin there, or both end there, line 245 reads past the list. `GraphFiles.AnyConnectedEdgesAssemble`
  (MCGraphFiles with `Inputs <- EdgeLists`). Files written by the library have consistent directions, and the instances use such.
* **Pull of one edge***. `transforms/pulling/path.h:54` says the source is where the path ends; after the pull of a path of one edge that turns
  around (`on_2.h:469`) the path rebuilt for the hook names the other end. `GraphPulls.PathEndsAtSource` (MCGraphPulls).
* **Plan of a pull***. `transforms/pulling/common.h:105` says that "after each step, path vertex i is the same object as before the pulling, the driver
  included"; the plan is made of the path with its driver corrected (`functor.h:100`), which is not always the path given. `GraphPulls.PathKeepsVerticesAsked` (MCGraphPulls).
* **Hooks read old descriptors***. `structure/elements/graph.h:131` says the list is "Rebuilt lazily, on first access after a change of the graph"; the merger of
  a leaf with a cycle calls `on_end` (`vertex_merger/from_12.h:579`) before it marks the list. `VertexDescriptors.HooksReadTheChangedGraph` (MCVertexDescriptors).
  The client, after the call, reads the list rebuilt.
* **Keep after a throw***. `transforms/common.h:64`: "Vertex object which a vertex split or merger keeps, when given"; a hook that throws leaves the
  request in the functor (`vertex_merger/common.h:147`, `vertex_split/to_11.h:302`, `to_12.h:257`), and the next call without one obeys it. `HookCalls.KeptOnlyWhenGiven` (MCHookCalls).

## Proofs

`Multigraph_proofs`, for all sets `Edge` and `Vertex`, finite or not,
and all `MaxDegree` that satisfy `MaxDegreeAssumption` (at least 1).

* `MultigraphStaysWellFormed`: `Spec => []EveryEdgeHasItsEnds`. `WellFormed` is inductive as it stands: `Holdable` for each
  vertex, `Disjoint` (an end is at one vertex) and `Closed` (the other end of an edge
  that lives also lives). There is one lemma per action. `Merge` needs `Holdable` of the
  union, which is what the applicability checks of the code amount to, and that
  disjointness and closure survive a union; `Split` needs that a part of a holdable set is holdable
  (`PartIsHoldable`); `Create` needs that new ends are fresh and closed among the new
  vertices; `Delete` needs that closure of the removed vertices and disjointness leave
  the rest closed (`OneVertexPerEnd`, `OtherEndTwice`). `Expand` needs that both ends of the new edge
  are fresh and that the end taken over has just one vertex before and after; `Contract` that
  nothing but the two ends of the edge disappears.
* `SplitUndoesMerge`, `MergeUndoesSplit`, `ContractUndoesExpand`: the effects are inverse, which is how the
  library composes the 4 to 2+2 split of other transformations.

With `MultigraphSpec`, which TLC checks on small graphs, this says that the concrete
transformations lead only to multigraphs without loops and with complete edges.

`EdgePaths_proofs`, for all components that satisfy `ComponentsAssumption` (finite, neighbours are edges, weights natural
numbers) and any positive `Inf`. The invariant `Inv` adds to the types: the source is at distance 0, each queued entry has the
distance on record, each reached edge other than the source has a predecessor that accounts for its distance (`FromPredecessor`), and each
reached edge is queued, or has improved all its neighbours, or is the edge at work with the rest of them still to do. The last part is what is needed beyond the
types: the queue is not ordered, so an edge may be taken up several times. Theorems: `EdgePathsTypeOK`, `EdgePathsQueueIsCurrent`,
`EdgePathsSettledUnlessPending`, `EdgePathsSolveEquations` (at the end of a search the distances solve the
shortest-path equations), and `EdgePathsAreShortest`: they are the shortest, and a path walked back is as long. For that `ShortestInv`
adds that each distance is attained, that is, no less than the distance of some round (`DistancesAreAttained`), and that each step of a walk
costs what it should (`WalksAreTight`). `SolutionIsShortest` of `SharedLemmas` then says that distances that solve the equations and are attained are
those of `DistanceRounds`, whose last round is complete because what a round leaves unimproved can only grow within a finite set (`GrowthEnds`).

`EndSlotPaths_proofs`, for all networks that satisfy `NetworksAssumption` (finite, neighbour links symmetric, a clique at each junction)
and `WeightsAssumption`.
`PathsInv` is `TypeOK /\ JunctionsAgree /\ QueueIsNotAhead`: the ends at a junction have one distance at any time, though the
neighbours are overwritten without comparison, and an entry in the queue is no less than what is known of its end.
Each needs the other: an overtaken entry could otherwise set a junction back. `SearchInv` adds the parts that make the result right: the source is at 0, distances are attained, a reached
end is queued or has nothing left to offer along its chain, and each was reached from the one on record. Theorems: these two, `EndSlotPathsAreShortest` (the path walked back leads
to the source by chains and junctions and is a shortest one) and `EndSlotPathsClassesAreByReach` (the classes by which a split divides
a component are what can and what cannot be reached).

`ConnectivitySearch_proofs`, for all links that satisfy `LinksAssumption` and any `EpochMod` above 1. `SearchInv` is `TypeOK /\ MarksAreOfThisSearch /\ VisitedOnce`: a chain
counts as marked exactly if this search has visited it, after any number of wrap-arounds. `ReachInv` adds that only what can be reached is
visited and that what can be reached from a visited chain is visited, pending or in the list to do (`NothingForgotten`);
`ConnectivityResultIsReach` follows when nothing is left to do.

`HookCalls_proofs`, for any `capacity` of at least 3 and any `MaxPullSteps` (`HookCallsAssumption`). `Enclosing` is `AreCalls(calls) /\ Encloses(calls, context) /\ PlannedOnce`: the context is
the stack of composed calls without the one on top, in a call and after any throw. Theorems: `HookCallsContextIsWhatEncloses`,
`HookCallsPlannedOnce`. It needs that a script's position is within it, so that a call on the stack is one that can return.
`Orderly` adds to it how calls are composed (`WellCalled`: a call is at a step of its script, a call with another one inside waits at one that calls, and levels go
down, so that at most three frames enclose a call), that the list is marked or describes the changed graph, or that the innermost
call has an update still to come before its end hook reads (`UpdateDue`), and that the request of the client's call, while pending, is held by the call and
still to be met by its script (`RequestPending`). From it follow `HookCallsHooksAreNested`
(the context never overflows, and inner hooks lie between the outer ones), `HookCallsReadsAreOfTheChangedGraph` and
`HookCallsRequestsEndWithCalls`. These depend on the text of every script, which the lemmas go through.

`GraphReads_proofs` and `GraphQueries_proofs`, for graphs of any size. What a graph answers is proved from what its records say:

* `VertexDescriptorsReadsAreCurrent`, `VertexDescriptorsFindLiveOnly`: `DescriptorsSpec` with `[](TypeOK /\ RecordsAgree /\ DescriptorsAgree)`
  implies both invariants of the run `descriptors`. The inductive invariant is `CacheIsMarked`: if the list is not marked and no hook has been called
  in the middle of a merger, it is the one a rebuild leaves, with hints that lead to the places of the vertices listed (those of removed vertices may say anything, as `find` compares the identity at the
  place). A transformation keeps it by marking, a read by rebuilding; that a rebuilt list has each vertex once and each link once uses that `Place` numbers
  a finite set densely (`PlacesAreDense`).
* `LookupsFollowTheRecords`, `QueriesFollowTheRecords`: in any state, `TypeOK /\ RecordsAgree /\ DescriptorsAgree /\ NeighboursShareVertex /\ ChainsAreMaximal` implies
  `LookupsAgree` and `QueriesAgree`. So everything the lookups and analysers answer, on graphs of any size, rests on the invariants that `small_graphs`
  checks of every transformation and on nothing else. The argument: an edge end is the end of its chain or inside and then opposite exactly one other (`EndsOfEdgesAreEndsOrInside`); where a chain
  ends, all edges are at the ends of theirs (`EndsAtChainEnd`, which needs maximal chains); so links count degrees (`DegreesByLinks`), and slots, ends and vertices are
  three names of the same places.

The hypotheses of these four are invariants of `small_graphs`; TLC also finds them true in every state of the instance of `descriptors` when they are named there.

Induction over numbers is used for sets of numbers (`NaturalsBySuccessor` in `SharedLemmas`, from the well-foundedness of `<`), since the induction rules that take a predicate
cannot be instantiated.

Only model-checked:
* the invariants of `Graffine` (`TypeOK`, `RecordsAgree`, `DescriptorsAgree`, `NeighboursShareVertex`, `ChainsAreMaximal`, `ComponentsAreConnected`, `ChecksHold`), the refinement of `Multigraph`,
  undo and plans: each transformation is a composition of up to some thirty editing steps with records that do not agree in between, built of folds over lists and of functions extended by `@@`, which the provers do not expand;
* `SelfChecksPass`, whose sums are folds, that is, inductions over data; `VertexFormsActAtFirst`, files and pulls, for the same reason as the transformations;
* all liveness.

## Not modelled

* Drafts that do not compile when instantiated: `vertex_merger/from_1N.h` and `from_2N.h`, lines 38-82 of
  `structure/elements/component/neighbours.h`, the accessors `Component::chain(ChIdC)` and `Component::edge(EgIdG)`.
* Copying and moving whole graph objects.
* Printing, messages, facets (used by nothing), wrappers of standard containers.
* The text format of PLY files, coordinates and other attributes, which no algorithm reads. What is written of the topology is modelled.
* What user code does in a hook beyond reading and throwing: it must not change the graph.
* Overflow of the typed integers, which takes 2^32 edges; the epoch of the connectivity search does wrap around in the model.

## Plan

1. Proofs about GraphStructure: that neighbour links stay symmetric and irreflexive, and a
   clique at each vertex, under `RemoveSlotFromNeigs`, `CopyNeigs`, `ConnectSlots` and `JoinEnds` when these are called with the slots the
   callers establish (after `Strict` and `@@` have given way to forms the provers expand); that swap-with-last keeps a numbering dense, as a
   module `DenseIndex` that the three numberings instantiate.
2. Mergers and splits between the steps of two pulls, when their number can be kept in bounds.
