------------------------- MODULE ComponentTransforms -------------------------
(***************************************************************************)
(* transforms/component_creation and component_deletion: whole components  *)
(* appear and disappear.                                                   *)
(***************************************************************************)
EXTENDS GraphStructure

CreateComponent(g, len) == AddSingleChainComponent(g, len)

-----------------------------------------------------------------------------
(* Deletion takes the chains of component c from the back of its list, and *)
(* the edges of a chain from its back; the graph's last edge or chain      *)
(* takes the index of each that goes.                                      *)

\* The last edge p of chain w goes, unless the chain has none left.
DropLastEdge(g, c, w) ==
  LET p == Last(g.cn[w].g)
      x == g.egl[g.ne]
      plast == g.cn[x.w].g[x.a]
      other == g.eg[plast].c
      popped == [g EXCEPT !.ne = @ - 1,
                          !.cn[w].g = Front(@),
                          !.eg = Drop([@ EXCEPT ![plast].ind = g.eg[p].ind], p)]
  IN  IF g.cn[w].g = <<>> THEN g
      ELSE Update(IF plast = p \/ other = c THEN popped
                  ELSE SetEgl(SetEdges(popped, other), other))

DropEdges(g, c, w) == FoldLeft(LAMBDA gg, h : DropLastEdge(gg, c, w), g, g.cn[w].g)

\* The empty chain w is replaced by the last one.
DropChain(g, c, w) ==
  LET last == Len(g.cn)
      renamed == CASE w = last -> g
                   [] w # last /\ g.cn[last].c = c -> RenameChainOnly(g, last, w)
                   [] OTHER -> RenameChain(g, last, w)
  IN  Update([renamed EXCEPT !.cn = Front(@)])

Isolate(g, w) ==
  IF IsUnconnectedCycle(g, w) THEN g
  ELSE RemoveSlotFromNeigs(RemoveSlotFromNeigs(g, <<w, "A">>), <<w, "B">>)

\* d = [g |-> the graph, ww |-> the chains left to delete].
DropLastChain(d, c) ==
  LET w == Last(d.ww)
      rest == Front(d.ww)
  IN  [g  |-> DropChain(DropEdges(Isolate(d.g, w), c, w), c, w),
       ww |-> On(rest, DOMAIN rest, LAMBDA i, u : IF u = Len(d.g.cn) THEN w ELSE u)]

DropVertices(g, V) == [g EXCEPT !.vx = Strict([v \in DOMAIN @ \ V |-> @[v]])]

DeleteComponent(g, c) ==
  LET ww == g.ct[c].ww
      d == FoldLeft(LAMBDA dd, w : DropLastChain(dd, c), [g |-> g, ww |-> ww], ww)
  IN  Update(ReleaseCmpt(DropVertices(d.g, g.ct[c].vv), c))
=============================================================================
