----------------------------- MODULE VertexForms -----------------------------
(***************************************************************************)
(* The transformations called with vertices.  A vertex v is given by one   *)
(* of the edge ends it holds, d: the call starts from the first its        *)
(* descriptor set happens to have, locates a slot and goes on with that.   *)
(***************************************************************************)
EXTENDS Lookups

IsLeaf(g, v) == Deg(g, v) = 1
IsBulkVertex(g, v) == Deg(g, v) = 2

(* Which calls are accepted *)

AcceptsLeaves(g, u, d, v, f) ==
  /\ IsInGraph(g, u, d) /\ IsInGraph(g, v, f)
  /\ IsLeaf(g, u) /\ IsLeaf(g, v)
  /\ Applicable11(g, EndSlotAtVertex(g, u, d), EndSlotAtVertex(g, v, f))

AcceptsLeafAndBulk(g, u, d, v, f) ==
  LET s == EndSlotAtVertex(g, u, d)
      b == BulkSlotAtVertex(g, v, f)
  IN  /\ IsInGraph(g, u, d) /\ IsInGraph(g, v, f)
      /\ IsLeaf(g, u) /\ IsBulkVertex(g, v)
      /\ IF IsValidBulk(g, b) THEN Applicable12(g, s, b) ELSE Applicable12Cycle(g, s, b[1])

AcceptsLeafAndJunction(g, u, d, v, f) ==
  /\ IsInGraph(g, u, d) /\ IsInGraph(g, v, f)
  /\ IsLeaf(g, u) /\ Deg(g, v) = 3
  /\ Applicable13(g, EndSlotAtVertex(g, u, d), EndSlotAtVertex(g, v, f))

AcceptsBulks(g, u, d, v, f) ==
  LET b1 == BulkSlotAtVertex(g, u, d)
      b2 == BulkSlotAtVertex(g, v, f)
      isCB1 == ~IsValidBulk(g, b1)
      isCB2 == ~IsValidBulk(g, b2)
  IN  /\ IsInGraph(g, u, d) /\ IsInGraph(g, v, f)
      /\ IsBulkVertex(g, u) /\ IsBulkVertex(g, v) /\ u # v
      /\ CASE isCB1 /\ isCB2 -> Applicable22Boundaries(b1[1], b2[1])
           [] isCB1 /\ ~isCB2 -> Applicable22Boundary(g, b2, b1[1])
           [] ~isCB1 /\ isCB2 -> Applicable22Boundary(g, b1, b2[1])
           [] OTHER -> Applicable22(g, b1, b2)

(* What they do.  Of a pair, the leaf is u. *)

MergeLeavesAt(g, u, d, v, f) ==
  Merge11(g, EndSlotAtVertex(g, u, d), EndSlotAtVertex(g, v, f))

MergeLeafAndBulkAt(g, u, d, v, f) ==
  LET s == EndSlotAtVertex(g, u, d)
      b == BulkSlotAtVertex(g, v, f)
  IN  IF IsValidBulk(g, b) THEN Merge12(g, s, b) ELSE Merge12Cycle(g, s, b[1])

MergeLeafAndJunctionAt(g, u, d, v, f) ==
  Merge13(g, EndSlotAtVertex(g, u, d), EndSlotAtVertex(g, v, f))

\* Faulty: with a boundary vertex, the other one is looked for before its edge.
MergeBulksAtBefore(g, u, d, v, f) ==
  LET b1 == BulkSlotAtVertex(g, u, d)
      b2 == BulkSlotAtVertex(g, v, f)
      before(b) == <<b[1], IF b[2] > 1 THEN b[2] - 1 ELSE b[2]>>
  IN  CASE ~IsValidBulk(g, b1) /\ ~IsValidBulk(g, b2) -> Merge22Boundaries(g, b1[1], b2[1])
        [] ~IsValidBulk(g, b1) /\ IsValidBulk(g, b2) -> Merge22Boundary(g, before(b2), b1[1])
        [] IsValidBulk(g, b1) /\ ~IsValidBulk(g, b2) -> Merge22Boundary(g, before(b1), b2[1])
        [] OTHER -> Merge22(g, b1, b2)

MergeBulksAt(g, u, d, v, f) ==
  LET b1 == BulkSlotAtVertex(g, u, d)
      b2 == BulkSlotAtVertex(g, v, f)
      isCB1 == ~IsValidBulk(g, b1)
      isCB2 == ~IsValidBulk(g, b2)
  IN  CASE isCB1 /\ isCB2 -> Merge22Boundaries(g, b1[1], b2[1])
        [] isCB1 /\ ~isCB2 -> Merge22Boundary(g, b2, b1[1])
        [] ~isCB1 /\ isCB2 -> Merge22Boundary(g, b1, b2[1])
        [] OTHER -> Merge22(g, b1, b2)

SplitBulkAt(g, v, d) ==
  LET b == BulkSlotAtVertex(g, v, d)
      w == b[1]
  IN  IF IsUnconnectedCycle(g, w) /\ VertexAtEnd(g, <<w, "A">>) = v
      THEN Split11Cycle(g, w, "any") ELSE Split11(g, w, b[2], "any")

SplitOffThreeWayAt(g, v, d) == Split12(g, EndSlotAtVertex(g, v, d), "any")
SplitOffFourWayAt(g, v, d) == Split13(g, EndSlotAtVertex(g, v, d))
SplitFourWayInPairsAt(g, v, d, f) ==
  Split22(g, EndSlotAtVertex(g, v, d), EndSlotAtVertex(g, v, f))

\* in_new_chain.h
CreateAtVertex(g, v, d) ==
  LET b == BulkSlotAtVertex(g, v, d)
  IN  IF Deg(g, v) = 3 THEN CreateAtJunction(g, EndSlotAtVertex(g, v, d))
      ELSE IF IsValidBulk(g, b) THEN CreateAtBulk(g, b) ELSE CreateAtBoundary(g, b[1])

\* in_existing_chain.h
CreateInChainAtVertex(g, v, d) ==
  LET b == BulkSlotAtVertex(g, v, d)
      s == EndSlotAtVertex(g, v, d)
  IN  IF IsBulkVertex(g, v)
      THEN CreateInChain(g, b[1], IF b[2] = 0 THEN Length(g, b[1]) ELSE b[2])
      ELSE CreateInChain(g, s[1], IF s[2] = "A" THEN 0 ELSE Length(g, s[1]))
=============================================================================
