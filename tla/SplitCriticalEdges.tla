-------------------------- MODULE SplitCriticalEdges --------------------------
(***************************************************************************)
(* SplitCriticalEdges on one function: the edges from a block with several *)
(* successors to a block with several predecessors are collected, then     *)
(* each gets a block of its own, and the phis behind it take their value   *)
(* from there.                                                             *)
(***************************************************************************)
EXTENDS Ir

VARIABLE split

(* edges: those still to be split, as pairs. *)
SplitStart == [phase |-> "collect", edges |-> <<>>]

Unique(list) == Kept(list, {i \in DOMAIN list : \A j \in 1 .. i - 1 : list[j] # list[i]})

(* The edges into succ that are critical; a pair of blocks counts once. *)
CriticalInto(succ) ==
    LET preds == Unique(ir.pred[succ])
        several == Kept(preds, {i \in DOMAIN preds : Len(Unique(ir.succ[preds[i]])) > 1})
    IN  IF Len(preds) < 2 THEN <<>>
        ELSE [i \in DOMAIN several |-> <<several[i], succ>>]

CollectCriticalEdges ==
    /\ split.phase = "collect"
    /\ split' = [phase |-> "split",
                 edges |-> FlattenSeq([i \in DOMAIN ir.blocks |-> CriticalInto(ir.blocks[i])])]
    /\ UNCHANGED ir

(* splitEdge: the first operand of the branch that is succ becomes middle,   *)
(* which gets a branch to succ; both edge lists follow.                     *)
WithMiddle(g, pred, succ, middle) ==
    LET at == IF g.term[pred].to[1] = succ THEN 1 ELSE 2
        cut == RemoveEdge([g EXCEPT !.term[pred].to[at] = middle], pred, succ)
    IN  Terminate([cut EXCEPT !.succ[pred] = Append(@, middle),
                              !.pred[middle] = Append(@, pred)],
                  middle, Br(succ))

(* Mutant of RewritePhiPredecessors: only the first phi is rewritten. *)
RewriteFirstPhi(g, succ, old, new) ==
    LET moved(pair) == [pair EXCEPT !.from = IF pair.from = old THEN new ELSE pair.from]
        rewritten(phi) == [phi EXCEPT !.inc = [k \in DOMAIN phi.inc |-> moved(phi.inc[k])]]
    IN  [g EXCEPT !.phis[succ] = [i \in DOMAIN @ |-> IF i > 1 THEN @[i] ELSE rewritten(@[i])]]

RewritePhiPredecessors(g, succ, old, new) ==
    LET moved(pair) == [pair EXCEPT !.from = IF pair.from = old THEN new ELSE pair.from]
        rewritten(phi) == [phi EXCEPT !.inc = [k \in DOMAIN phi.inc |-> moved(phi.inc[k])]]
    IN  [g EXCEPT !.phis[succ] = [i \in DOMAIN @ |-> rewritten(@[i])]]

(* One edge of the loop of run. *)
SplitEdge ==
    /\ split.phase = "split" /\ split.edges # <<>>
    /\ LET pred == Head(split.edges)[1]
           succ == Head(split.edges)[2]
           middle == Newest(ir) + 1
       IN  /\ middle <= MaxBlocks
           /\ ir' = RewritePhiPredecessors(
                    WithMiddle(CreateBlocks(ir, 1), pred, succ, middle), succ, pred, middle)
    /\ split' = [split EXCEPT !.edges = Tail(@)]

SplitDone == split.phase = "split" /\ split.edges = <<>>

SplitStep == CollectCriticalEdges \/ SplitEdge

-----------------------------------------------------------------------------
(* An edge is critical if others leave its source and others enter its target. *)
IsCritical(g, pred, succ) ==
    Cardinality(ToSet(g.succ[pred])) > 1 /\ Cardinality(ToSet(g.pred[succ])) > 1

(* After the pass no edge is critical, and the edge lists, the branches and *)
(* the phis agree on the new blocks, although the edges were collected      *)
(* "before mutating predecessor/successor lists"                            *)
(* (SplitCriticalEdges.cpp:31).                                             *)
EdgesSplit ==
    split # <<>> /\ SplitDone =>
        /\ \A b \in Blocks : \A s \in ToSet(ir.succ[b]) : ~IsCritical(ir, b, s)
        /\ EdgesMatchBranches(ir)
        /\ PhisMatchPredecessors(ir)
=============================================================================
