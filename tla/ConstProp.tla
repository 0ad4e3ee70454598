------------------------------ MODULE ConstProp ------------------------------
(***************************************************************************)
(* ConstPropagation on one function: instructions on constants are folded, *)
(* branches on constants lose a target, then the blocks that are left      *)
(* without predecessors are removed.                                       *)
(***************************************************************************)
EXTENDS Ir, ConstFolder

VARIABLE cp

(* left: the blocks whose instructions are still to be folded; worklist and *)
(* removed: worklist and removed_blocks of simplify_control_flow.           *)
ConstPropStart ==
    [phase |-> "fold", left |-> ir.blocks, worklist |-> <<>>, removed |-> {}]

(* Of a load or store of a global variable, that variable. *)
GlobalOf(inst) ==
    IF inst.op \in {"load", "store"} /\ inst.args # <<>> /\ Last(inst.args)[1] = "global"
    THEN {Last(inst.args)} ELSE {}

(* Mutant of Learn: a call changes no global. *)
LearnThroughCalls(known, inst) ==
    CASE inst.op = "store" /\ GlobalOf(inst) # {} /\ IsConstant(inst.args[1]) ->
            (inst.args[2] :> inst.args[1]) @@ known
      [] inst.op = "store" /\ GlobalOf(inst) # {} /\ ~IsConstant(inst.args[1]) ->
            [x \in DOMAIN known \ GlobalOf(inst) |-> known[x]]
      [] OTHER -> known

(* try_propagate_global_constant: what is known of the globals after inst,  *)
Learn(known, inst) ==
    CASE inst.op = "call" -> <<>>
      [] inst.op = "store" /\ GlobalOf(inst) # {} /\ IsConstant(inst.args[1]) ->
            (inst.args[2] :> inst.args[1]) @@ known
      [] inst.op = "store" /\ GlobalOf(inst) # {} /\ ~IsConstant(inst.args[1]) ->
            [x \in DOMAIN known \ GlobalOf(inst) |-> known[x]]
      [] OTHER -> known

(* and the constant that replaces inst, if any. *)
Replacement(known, inst) ==
    IF inst.op = "load" THEN {known[x] : x \in GlobalOf(inst) \cap DOMAIN known}
    ELSE TryFold(inst)

Replace(s, b, inst, constants) ==
    IF constants = {} THEN [s EXCEPT !.next = @ + 1]
    ELSE LET without == [s.g EXCEPT !.body[b] = RemoveAt(@, s.next)]
         IN  [s EXCEPT !.g = ReplaceAllUses(without, inst.id, CHOOSE c \in constants : TRUE)]

FoldInst(s, b, inst) ==
    Replace([s EXCEPT !.known = Learn(@, inst),
                      !.traps = @ \/ HostTraps(inst.op, inst.args)],
            b, inst, Replacement(s.known, inst))

(* run_on_basic_block: the function after it, and whether a division of the  *)
(* folder traps.                                                            *)
Folded(b) ==
    LET after[i \in 0 .. Len(ir.body[b])] ==
            IF i = 0 THEN [g |-> ir, next |-> 1, known |-> <<>>, traps |-> FALSE]
            ELSE LET s == after[i - 1] IN FoldInst(s, b, s.g.body[b][s.next])
    IN  after[Len(ir.body[b])]

FoldBlock ==
    /\ cp.phase = "fold" /\ cp.left # <<>>
    /\ ir' = Folded(Head(cp.left)).g
    /\ cp' = [cp EXCEPT !.left = Tail(@)]

(* On some hosts the compiler dies of the division of the smallest integer   *)
(* by -1.                                                                   *)
FoldTraps ==
    /\ cp.phase = "fold" /\ cp.left # <<>>
    /\ Folded(Head(cp.left)).traps
    /\ cp' = [cp EXCEPT !.phase = "trap"]
    /\ UNCHANGED ir

IsTrue(cond) == cond[2] # 0

(* Mutant of Straighten: the old edges stay. *)
StraightenKeeping(g, b) ==
    LET to == g.term[b].to
    IN  Terminate(g, b, Br(to[IF IsTrue(g.term[b].val) THEN 1 ELSE 2]))

(* The new branch of b after its constant condition: both edges go, and one *)
(* comes back.                                                             *)
Straighten(g, b) ==
    LET to == g.term[b].to
    IN  Terminate(RemoveEdge(RemoveEdge(g, b, to[1]), b, to[2]), b,
                  Br(to[IF IsTrue(g.term[b].val) THEN 1 ELSE 2]))

OnConstant(g, b) == Len(g.term[b].to) = 2 /\ IsInt(g.term[b].val)

(* The function after the loop of simplify_constant_branches. *)
Straightened ==
    LET after[i \in 0 .. Len(ir.blocks)] ==
            IF i = 0 THEN ir
            ELSE LET g == after[i - 1]
                     b == ir.blocks[i]
                 IN  IF OnConstant(g, b) THEN Straighten(g, b) ELSE g
    IN  after[Len(ir.blocks)]

(* The target that is not taken. *)
DeadTarget(b) == ir.term[b].to[IF IsTrue(ir.term[b].val) THEN 2 ELSE 1]

(* simplify_constant_branches; the order of the dead blocks is that of a    *)
(* DenseSet of pointers.                                                    *)
SimplifyBranches ==
    /\ cp.phase = "fold" /\ cp.left = <<>>
    /\ ir' = Straightened
    /\ \E order \in SetToSeqs({DeadTarget(b) : b \in {c \in Blocks : OnConstant(ir, c)}}) :
            cp' = [cp EXCEPT !.phase = "blocks", !.worklist = order]

(* Mutant of DropFromPhi: the phi keeps the pair of the removed block. *)
DropFromPhiNot(s, cur, b) == [s EXCEPT !.next = @ + 1]

(* The pair of cur leaves phi s.next of block b; a phi with one pair left is *)
(* replaced by the value in it.                                             *)
DropFromPhi(s, cur, b) ==
    LET phi == DropIncoming(s.g.phis[b][s.next], cur)
        without == [s.g EXCEPT !.phis[b] = RemoveAt(@, s.next)]
    IN  IF Len(phi.inc) = 1
        THEN [s EXCEPT !.g = ReplaceAllUses(without, PhiId(b, phi.var), phi.inc[1].val)]
        ELSE [g |-> [s.g EXCEPT !.phis[b][s.next] = phi], next |-> s.next + 1]

DropFromPhis(g, cur, b) ==
    LET after[i \in 0 .. Len(g.phis[b])] ==
            IF i = 0 THEN [g |-> g, next |-> 1] ELSE DropFromPhi(after[i - 1], cur, b)
    IN  after[Len(g.phis[b])].g

(* The phis of all successors of cur. *)
DropFromSuccessors(g, cur) ==
    LET after[i \in 0 .. Len(g.succ[cur])] ==
            IF i = 0 THEN g ELSE DropFromPhis(after[i - 1], cur, g.succ[cur][i])
    IN  after[Len(g.succ[cur])]

(* One block of the worklist, which stays when it is the entry, has         *)
(* predecessors or is gone.                                                 *)
RemoveDead ==
    /\ cp.phase = "blocks" /\ cp.worklist # <<>>
    /\ LET cur == Head(cp.worklist)
           stays == cur = Entry \/ ir.pred[cur] # <<>> \/ cur \in cp.removed
       IN  IF stays
           THEN /\ cp' = [cp EXCEPT !.worklist = Tail(@)]
                /\ UNCHANGED ir
           ELSE /\ ir' = RemoveBlock(DropFromSuccessors(ir, cur), cur)
                /\ cp' = [cp EXCEPT !.worklist = Tail(@) \o ir.succ[cur],
                                    !.removed = @ \cup {cur}]

ConstPropDone == cp.phase = "blocks" /\ cp.worklist = <<>>

ConstPropStep == FoldBlock \/ FoldTraps \/ SimplifyBranches \/ RemoveDead
=============================================================================
