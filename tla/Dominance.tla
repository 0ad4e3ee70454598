----------------------------- MODULE Dominance ------------------------------
(***************************************************************************)
(* What Dominators and LoopInfo compute, for the passes that take them by  *)
(* their results: succ are the successor lists of the blocks, entry the    *)
(* entry block.  Blocks that are not reachable are dominated by everything *)
(* and are in no loop: what LoopInfo finds in unreachable code is left out. *)
(***************************************************************************)
EXTENDS Naturals, FiniteSets, SequencesExt

(* The blocks on the paths from those of start that do not meet avoid. *)
Reached(succ, start, avoid) ==
    LET from[S \in SUBSET DOMAIN succ] ==
            LET more == (UNION {ToSet(succ[b]) : b \in S}) \ avoid
            IN  IF more \subseteq S THEN S ELSE from[S \cup more]
    IN  from[start \ avoid]

(* The blocks d dominates. *)
Dominated(succ, entry) ==
    [d \in DOMAIN succ |-> DOMAIN succ \ Reached(succ, {entry}, {d})]

(* dom_frontier_, from dom == Dominated(succ, entry): the blocks that x does *)
(* not strictly dominate but one of whose predecessors it dominates.        *)
FrontierOf(succ, dom, x) ==
    (UNION {ToSet(succ[p]) : p \in dom[x]}) \ (dom[x] \ {x})

(* dom_tree_succ_blocks_: the blocks whose closest strict dominator is x. *)
ChildrenOf(dom, x) ==
    {b \in dom[x] \ {x} :
        \A d \in DOMAIN dom \ {b} : b \in dom[d] => x \in dom[d]}

(* loop_set: the natural loop of every header, a block with an edge to it    *)
(* from a block it dominates: all that reaches the source of such an edge   *)
(* without passing the header.                                              *)
NaturalLoops(succ, entry) ==
    LET dom == Dominated(succ, entry)
        live == Reached(succ, {entry}, {})
        sources(h) == {p \in dom[h] \cap live : h \in ToSet(succ[p])}
        body(h) == {b \in live \ {h} : Reached(succ, {b}, {h}) \cap sources(h) # {}}
    IN  {[base |-> h, blocks |-> {h} \cup body(h)] :
            h \in {b \in live : sources(b) # {}}}

(* get_parent: the smallest loop around a loop, as a set. *)
ParentOf(loops, loop) ==
    LET around == {l \in loops \ {loop} : loop.blocks \subseteq l.blocks}
    IN  {l \in around : \A m \in around : l.blocks \subseteq m.blocks}

(* Every cycle contains a header that dominates it. *)
Reducible(succ, entry) ==
    LET dom == Dominated(succ, entry)
        forward == [b \in DOMAIN succ |-> SetToSeq({s \in ToSet(succ[b]) : b \notin dom[s]})]
    IN  \A b \in DOMAIN succ : b \notin Reached(forward, ToSet(forward[b]), {})
=============================================================================
