--------------------------------- MODULE Ir ---------------------------------
(***************************************************************************)
(* One function of the light IR, as the passes edit it: its block list,    *)
(* the edge lists of every block, which the code keeps beside the branch   *)
(* operands, the phis, and what else is in a block.                        *)
(*                                                                         *)
(* Blocks are numbered in the order of creation.  The instructions of a    *)
(* block are its phis, its terminator and the others in order: records     *)
(* with the operation, the operands (args) and, if it defines a value,     *)
(* that value (id).                                                        *)
(***************************************************************************)
EXTENDS Integers, Sequences, FiniteSets, SequencesExt

CONSTANTS
    MaxBlocks,      \* bound on the blocks of the function
    Vars            \* its local scalar variables (allocas)

VARIABLE ir

AllBlocks == 1 .. MaxBlocks
Entry == 1

Blocks == ToSet(ir.blocks)      \* those of basic_blocks_

(* The values that operands are. *)
Undef == <<"undef">>
UndefOf(type) == <<"undef", type>>
Global(n) == <<"global", n>>    \* the address of the global variable n
Arg(v) == <<"arg", v>>          \* of the parameter v
OpId(k) == <<"op", k>>
PhiId(b, v) == <<"phi", b, v>>

(* Terminators; the condition of a branch is what it was compared with 0 as. *)
NoTerm == [op |-> "none", val |-> Undef, to |-> <<>>]
Ret(val) == [op |-> "ret", val |-> val, to |-> <<>>]
Br(to) == [op |-> "br", val |-> Undef, to |-> <<to>>]
CondBr(cond, if_true, if_false) ==
    [op |-> "br", val |-> cond, to |-> <<if_true, if_false>>]

(* Of a local scalar variable, and an operation on values. *)
Store(v, val) == [op |-> "store", var |-> v, args |-> <<val>>]
Load(v, id) == [op |-> "load", var |-> v, args |-> <<>>, id |-> id]
Operation(op, id, args) == [op |-> op, id |-> id, args |-> args]

Defines(inst) == "id" \in DOMAIN inst
Operands(inst) == ToSet(inst.args)

(* A function that has only its entry block. *)
NewFunction ==
    [blocks |-> <<Entry>>,
     succ |-> [b \in AllBlocks |-> <<>>], pred |-> [b \in AllBlocks |-> <<>>],
     term |-> [b \in AllBlocks |-> NoTerm],
     phis |-> [b \in AllBlocks |-> <<>>], body |-> [b \in AllBlocks |-> <<>>]]

-----------------------------------------------------------------------------
(* The last block created, which may have left the list. *)
Newest(g) == Max(ToSet(g.blocks) \cup {b \in AllBlocks : g.term[b] # NoTerm})

(* BasicBlock::create, n times. *)
CreateBlocks(g, n) == [g EXCEPT !.blocks = @ \o [i \in 1 .. n |-> Newest(g) + i]]

(* The elements of a list at some of its positions, in order. *)
Kept(list, at) ==
    FlattenSeq([i \in DOMAIN list |-> IF i \in at THEN <<list[i]>> ELSE <<>>])

(* list.remove(b): every entry. *)
Without(list, b) == Kept(list, {i \in DOMAIN list : list[i] # b})

(* The constructor of BranchInst: the operands and both edge lists. *)
Terminate(g, b, t) ==
    [g EXCEPT !.term[b] = t,
              !.succ[b] = @ \o t.to,
              !.pred = [s \in AllBlocks |->
                            IF s \in ToSet(t.to) THEN Append(@[s], b) ELSE @[s]]]

RemoveEdge(g, b, s) ==
    [g EXCEPT !.succ[b] = Without(@, s), !.pred[s] = Without(@, b)]

(* Function::remove: the block leaves the list and the edge lists of its    *)
(* neighbours, and keeps its own.                                           *)
RemoveBlock(g, bb) ==
    [g EXCEPT
        !.blocks = Without(@, bb),
        !.succ = [b \in AllBlocks |->
            IF b \in ToSet(g.pred[bb]) THEN Without(@[b], bb) ELSE @[b]],
        !.pred = [b \in AllBlocks |->
            IF b \in ToSet(g.succ[bb]) THEN Without(@[b], bb) ELSE @[b]]]

(* replace_all_use_with, wherever the use is; a value that replaces itself *)
(* changes nothing.                                                        *)
ReplaceAllUses(g, old, new) ==
    LET subst(val) == IF val = old THEN new ELSE val
        inOperands(inst) ==
            [inst EXCEPT !.args = [k \in DOMAIN inst.args |-> subst(inst.args[k])]]
        inValue(x) == [x EXCEPT !.val = subst(x.val)]
        inPhi(phi) == [phi EXCEPT !.inc = [k \in DOMAIN phi.inc |-> inValue(phi.inc[k])]]
    IN  [g EXCEPT
            !.body = [b \in AllBlocks |-> [i \in DOMAIN @[b] |-> inOperands(@[b][i])]],
            !.term = [b \in AllBlocks |-> inValue(@[b])],
            !.phis = [b \in AllBlocks |-> [i \in DOMAIN @[b] |-> inPhi(@[b][i])]]]

(* A phi is its variable and its incoming (value, predecessor) pairs.  The  *)
(* phi without the first pair of predecessor b.                             *)
DropIncoming(phi, b) ==
    LET at == {i \in DOMAIN phi.inc : phi.inc[i].from = b}
    IN  IF at = {} THEN phi
        ELSE [phi EXCEPT !.inc =
                RemoveAt(@, CHOOSE i \in at : \A j \in at : i <= j)]

(* The successors within the function. *)
CfgOf(g) == [b \in AllBlocks |-> IF b \in ToSet(g.blocks) THEN g.succ[b] ELSE <<>>]

-----------------------------------------------------------------------------
(* The edge lists say what the branches say, for the blocks of the          *)
(* function, and only blocks of the function are named.                     *)
EdgesMatchBranches(g) ==
    LET blocks == ToSet(g.blocks)
        branches == UNION {{<<b, s>> : s \in ToSet(g.term[b].to)} : b \in blocks}
    IN  /\ branches = UNION {{<<b, s>> : s \in ToSet(g.succ[b])} : b \in blocks}
        /\ branches = UNION {{<<p, b>> : p \in ToSet(g.pred[b])} : b \in blocks}
        /\ \A e \in branches : e[2] \in blocks

(* Every phi has one incoming pair for every predecessor and no other. *)
PhisMatchPredecessors(g) ==
    \A b \in ToSet(g.blocks) : \A i \in DOMAIN g.phis[b] :
        LET inc == g.phis[b][i].inc
        IN  /\ {inc[k].from : k \in DOMAIN inc} = ToSet(g.pred[b])
            /\ \A k, l \in DOMAIN inc : inc[k].from = inc[l].from => k = l
=============================================================================
