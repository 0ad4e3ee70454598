-------------------------- MODULE CompileDominators --------------------------
(***************************************************************************)
(* Dominators on the function that the passes before it left: what GVN and *)
(* the loop passes request after -const-prop, which does not preserve the  *)
(* CFG.                                                                    *)
(***************************************************************************)
EXTENDS Compile

VARIABLES d_succ, d_phase, d_stack, d_post, d_idom, d_changed, d_rest, d_join,
          d_walk, d_frontier, d_children

NullBlock == 0

(* The pipeline up to the place where GVN asks for Dominators, with          *)
(* -mem2reg -const-prop -gvn.                                               *)
BeforeGvn == {<<"elim", "mem2reg", "dead", "const", "dead", "dead">>}

D == INSTANCE Dominators WITH
        Blocks <- AllBlocks, Entry <- Entry, Null <- NullBlock,
        Cfgs <- [AllBlocks -> Seq(AllBlocks)],
        succ <- d_succ, phase <- d_phase, stack <- d_stack, post <- d_post,
        idom <- d_idom, changed <- d_changed, rest <- d_rest, join <- d_join,
        walk <- d_walk, frontier <- d_frontier, children <- d_children

domVars == <<d_succ, d_phase, d_stack, d_post, d_idom, d_changed, d_rest,
             d_join, d_walk, d_frontier, d_children>>

DominatorsInit ==
    /\ CompileInit
    /\ d_succ = Idle /\ d_phase = "none"
    /\ d_stack = <<[bb |-> Entry, next |-> 1]>> /\ d_post = <<>>
    /\ d_idom = [b \in AllBlocks |-> IF b = Entry THEN Entry ELSE NullBlock]
    /\ d_changed = TRUE /\ d_rest = <<>>
    /\ d_join = D!NoJoin /\ d_walk = D!NoWalk
    /\ d_frontier = [b \in AllBlocks |-> {}]
    /\ d_children = [b \in AllBlocks |-> {}]

CompileStep == (BuildStep \/ PassStep \/ NextStage) /\ UNCHANGED domVars

(* getAnalysis<Dominators> *)
Request ==
    /\ Finished /\ d_phase = "none"
    /\ d_succ' = CfgOf(ir)
    /\ d_phase' = "visit"
    /\ UNCHANGED <<vars, d_stack, d_post, d_idom, d_changed, d_rest, d_join,
                   d_walk, d_frontier, d_children>>

Analyse == d_phase # "none" /\ D!Next /\ UNCHANGED vars

DominatorsNext == CompileStep \/ Request \/ Analyse

DominatorsSpec == DominatorsInit /\ [][DominatorsNext]_<<vars, domVars>>

(* "idom_.at(bb)" (Dominators.hpp:19) finds its key: the walk up from a      *)
(* predecessor meets the immediate dominator of the join before it runs out *)
(* of dominators.                                                           *)
WalkMeetsIdom ==
    d_walk.bb # NullBlock =>
        d_walk.runner # NullBlock \/ d_walk.runner = d_idom[d_walk.bb]
=============================================================================
