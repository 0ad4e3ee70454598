------------------------------ MODULE Mem2Reg -------------------------------
(***************************************************************************)
(* Mem2Reg on one function: phis are placed on the iterated dominance      *)
(* frontiers of the stores, then a walk of the dominator tree keeps a      *)
(* stack of definitions for every variable, replaces the loads and fills   *)
(* the phis, and finally loads and stores are deleted.                     *)
(*                                                                         *)
(* Every variable is a scalar whose address only loads and stores take:    *)
(* collect_promotable_allocas takes them all.  Dominators is taken by its  *)
(* result.                                                                 *)
(***************************************************************************)
EXTENDS Ir, Dominance

VARIABLE m2r

(* phase: "place", "rename", "done"; vars: the variables without phis yet;  *)
(* todo: the worklist of generate_phi for m2r.var; dom: the dominance;      *)
(* calls: the calls of rename in progress, the innermost last, each with    *)
(* its block, its children left and the stacks to restore; var_stack.       *)
Mem2RegStart ==
    [phase |-> "start", vars |-> Vars, var |-> Undef, todo |-> <<>>,
     defs |-> {}, dom |-> <<>>, calls |-> <<>>,
     var_stack |-> [v \in Vars |-> <<>>]]

DefBlocks(v) ==
    {b \in Blocks : \E i \in DOMAIN ir.body[b] :
                        ir.body[b][i].op = "store" /\ ir.body[b][i].var = v}

(* getAnalysis<Dominators> *)
RequestDominators ==
    /\ m2r.phase = "start"
    /\ m2r' = [m2r EXCEPT !.phase = "place", !.dom = Dominated(CfgOf(ir), Entry)]
    /\ UNCHANGED ir

(* The next variable: its worklist starts with the blocks that store it. *)
PlaceVariable(v) ==
    /\ m2r.phase = "place" /\ m2r.todo = <<>>
    /\ v \in m2r.vars
    /\ m2r' = [m2r EXCEPT !.vars = @ \ {v}, !.var = v, !.defs = DefBlocks(v),
                          !.todo = SetToSeq(DefBlocks(v))]
    /\ UNCHANGED ir

HasPhi(b, v) == \E i \in DOMAIN ir.phis[b] : ir.phis[b][i].var = v

EmptyPhi(v) == [var |-> v, inc |-> <<>>]

(* Mutant of PlacePhis: a new phi is not taken for a definition. *)
PlacePhisOnce ==
    /\ m2r.phase = "place" /\ m2r.todo # <<>>
    /\ LET v == m2r.var
           frontier == FrontierOf(CfgOf(ir), m2r.dom, Head(m2r.todo))
           new == {b \in frontier : ~HasPhi(b, v)}
       IN  /\ ir' = [ir EXCEPT !.phis = [b \in AllBlocks |->
                        IF b \in new THEN <<EmptyPhi(v)>> \o @[b] ELSE @[b]]]
           /\ m2r' = [m2r EXCEPT !.todo = Tail(@)]

(* One block of the worklist: a phi at the beginning of every block of its  *)
(* frontier that has none for the variable; the phi is a definition.        *)
PlacePhis ==
    /\ m2r.phase = "place" /\ m2r.todo # <<>>
    /\ LET v == m2r.var
           frontier == FrontierOf(CfgOf(ir), m2r.dom, Head(m2r.todo))
           new == {b \in frontier : ~HasPhi(b, v)}
       IN  /\ ir' = [ir EXCEPT !.phis = [b \in AllBlocks |->
                        IF b \in new THEN <<EmptyPhi(v)>> \o @[b] ELSE @[b]]]
           /\ m2r' = [m2r EXCEPT !.todo = Tail(@) \o SetToSeq(new \ m2r.defs)]

-----------------------------------------------------------------------------
(* get_reaching_def *)
Reaching(stacks, v) == IF stacks[v] = <<>> THEN Undef ELSE Last(stacks[v])

Push(stacks, v, val) == [stacks EXCEPT ![v] = Append(@, val)]

(* The scan of the instructions of a block: the stacks and the function     *)
(* after its first i instructions, the phis before.                         *)
Scan(block, stacks, g) ==
    LET body == g.body[block]
        pushed == FoldSeq(LAMBDA phi, st : Push(st, phi.var, PhiId(block, phi.var)),
                          stacks, g.phis[block])
        after[i \in 0 .. Len(body)] ==
            IF i = 0 THEN [stacks |-> pushed, ir |-> g]
            ELSE LET prev == after[i - 1]
                     inst == prev.ir.body[block][i]
                 IN  CASE inst.op = "store" ->
                            [prev EXCEPT !.stacks = Push(@, inst.var, inst.args[1])]
                       [] inst.op = "load" ->
                            [prev EXCEPT !.ir = ReplaceAllUses(@, inst.id,
                                                    Reaching(prev.stacks, inst.var))]
                       [] OTHER -> prev
    IN  after[Len(body)]

(* The phis of the successors get the definition that reaches the end. *)
FillSuccessors(block, stacks, g) ==
    LET filled(phi) ==
            [phi EXCEPT !.inc =
                Append(phi.inc, [val |-> Reaching(stacks, phi.var), from |-> block])]
    IN  [g EXCEPT !.phis = [b \in AllBlocks |->
            IF b \in ToSet(g.succ[block]) THEN [i \in DOMAIN @[b] |-> filled(@[b][i])]
            ELSE @[b]]]

(* A call of rename, up to its recursive calls. *)
Rename(block) ==
    LET scan == Scan(block, m2r.var_stack, ir)
        callers == IF m2r.calls = <<>> THEN <<>>
                   ELSE [m2r.calls EXCEPT ![Len(m2r.calls)].children = @ \ {block}]
    IN  /\ ir' = FillSuccessors(block, scan.stacks, scan.ir)
        /\ m2r' = [m2r EXCEPT
                !.phase = "rename",
                !.var_stack = scan.stacks,
                !.calls = callers
                          \o <<[block |-> block,
                                children |-> ChildrenOf(m2r.dom, block) \cap Blocks,
                                pushed |-> [v \in Vars |->
                                    Len(scan.stacks[v]) - Len(m2r.var_stack[v])]]>>]

RenameEntry ==
    /\ m2r.phase = "place" /\ m2r.todo = <<>> /\ m2r.vars = {}
    /\ Rename(Entry)

RenameChild ==
    /\ m2r.phase = "rename" /\ m2r.calls # <<>>
    /\ LET children == Last(m2r.calls).children
       IN  /\ children # {}
           /\ Rename(CHOOSE c \in children : \A d \in children : c <= d)

(* The end of a call of rename: "pop_back_n(count)". *)
RenameReturn ==
    /\ m2r.phase = "rename" /\ m2r.calls # <<>> /\ Last(m2r.calls).children = {}
    /\ m2r' = [m2r EXCEPT
            !.calls = Front(@),
            !.var_stack = [v \in Vars |->
                SubSeq(@[v], 1, Len(@[v]) - Last(m2r.calls).pushed[v])]]
    /\ UNCHANGED ir

(* delete_promoted_memory_instructions *)
DeletePromoted ==
    /\ m2r.phase = "rename" /\ m2r.calls = <<>>
    /\ ir' = [ir EXCEPT !.body = [b \in AllBlocks |->
                IF b \in Blocks
                THEN Kept(@[b], {i \in DOMAIN @[b] : @[b][i].op \notin {"load", "store"}})
                ELSE @[b]]]
    /\ m2r' = [m2r EXCEPT !.phase = "done"]

Mem2RegDone == m2r.phase = "done"

Mem2RegStep ==
    \/ RequestDominators
    \/ \E v \in Vars : PlaceVariable(v)
    \/ PlacePhis
    \/ RenameEntry \/ RenameChild \/ RenameReturn
    \/ DeletePromoted
=============================================================================
