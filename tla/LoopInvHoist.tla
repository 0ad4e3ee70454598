---------------------------- MODULE LoopInvHoist -----------------------------
(***************************************************************************)
(* LoopInvHoist on one function: from the innermost loops outwards, the    *)
(* operations on values that are not defined in a loop move to the end of  *)
(* the block before it.                                                    *)
(*                                                                         *)
(* LoopInfo is taken by its result.  Subloops come in the order of a set   *)
(* of pointers, and different ones share no block: a loop is processed at   *)
(* any time after its subloops.                                            *)
(***************************************************************************)
EXTENDS Ir, Arith, Dominance

VARIABLE hoist

(* done: the loops processed; their blocks are processed_subloop_blocks. *)
HoistStart == [loops |-> NaturalLoops(CfgOf(ir), Entry), done |-> {}]

IsMovable(inst) ==
    inst.op \in IntOps \cup FloatOps \cup IntTests \cup FloatTests
               \cup {"sitofp", "fptosi", "zext", "gep"}

(* The values that instructions in the loop define. *)
DefinedInLoop(loop) ==
    UNION {{PhiId(b, phi.var) : phi \in ToSet(ir.phis[b])}
           \cup {inst.id : inst \in {i \in ToSet(ir.body[b]) : Defines(i)}} : b \in loop.blocks}

(* collect_loop_invariant_instructions, with is_loop_invariant: an operand  *)
(* comes from outside the loop or is invariant itself.                      *)
Invariants(loop, processed) ==
    LET mine == {inst \in UNION {ToSet(ir.body[b]) : b \in loop.blocks \ processed} :
                    IsMovable(inst)}
        inside == DefinedInLoop(loop)
        found[k \in 0 .. Cardinality(mine)] ==
            IF k = 0 THEN {}
            ELSE UNION {{inst \in mine : Operands(inst) \cap inside \subseteq {i.id : i \in S}}
                            : S \in {found[k - 1]}}
    IN  found[Cardinality(mine)]

TopologicalOrders(insts) ==
    {order \in SetToSeqs(insts) :
        \A i, j \in DOMAIN order : order[i].id \in Operands(order[j]) => i < j}

(* The move of the instructions to the end of the preheader. *)
MoveTo(preheader, order) ==
    [ir EXCEPT !.body = [b \in AllBlocks |->
        IF b = preheader THEN @[b] \o order
        ELSE Kept(@[b], {i \in DOMAIN @[b] : @[b][i] \notin ToSet(order)})]]

Subloops(loop) == {l \in hoist.loops : loop \in ParentOf(hoist.loops, l)}

(* Mutant of IsNext: outer loops come first. *)
IsNextOuter(loop) == ParentOf(hoist.loops, loop) \subseteq hoist.done

IsNext(loop) == Subloops(loop) \subseteq hoist.done

(* hoist_from_current_loop, which needs a preheader: one predecessor of the *)
(* header outside the loop, with one successor.                             *)
HoistLoop(loop) ==
    /\ loop \in hoist.loops \ hoist.done
    /\ IsNext(loop)
    /\ LET preds == ir.pred[loop.base]
           outside == Kept(preds, {i \in DOMAIN preds : preds[i] \notin loop.blocks})
           processed == UNION {l.blocks : l \in hoist.done}
       IN  IF Len(outside) = 1 /\ Len(ir.succ[outside[1]]) = 1
           THEN \E order \in TopologicalOrders(Invariants(loop, processed)) :
                    ir' = MoveTo(outside[1], order)
           ELSE UNCHANGED ir
    /\ hoist' = [hoist EXCEPT !.done = @ \cup {loop}]

HoistDone == hoist.done = hoist.loops

HoistStep == \E loop \in hoist.loops : HoistLoop(loop)
=============================================================================
