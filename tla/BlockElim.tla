----------------------------- MODULE BlockElim ------------------------------
(***************************************************************************)
(* UnreachableBlockElim on one function: a search from the entry along the *)
(* branches, then the removal of the blocks it did not meet.               *)
(***************************************************************************)
EXTENDS Ir

VARIABLE elim

(* worklist: the queue; reached: reachable_blocks; left: the blocks the     *)
(* second loop has still to look at.                                        *)
ElimStart == [worklist |-> <<Entry>>, reached |-> {Entry}, left |-> <<>>]

(* Mutant of Search: only the first target of a branch is followed. *)
SearchFirst ==
    /\ elim.worklist # <<>>
    /\ LET block == Head(elim.worklist)
           to == ir.term[block].to
           new == Kept(to, {i \in DOMAIN to : i = 1 /\ to[i] \notin elim.reached})
       IN  elim' = [worklist |-> Tail(elim.worklist) \o new,
                    reached |-> elim.reached \cup ToSet(new),
                    left |-> ir.blocks]
    /\ UNCHANGED ir

(* One block of the search: its successors are the operands of its branch. *)
Search ==
    /\ elim.worklist # <<>>
    /\ LET block == Head(elim.worklist)
           to == ir.term[block].to
           new == Kept(to, {i \in DOMAIN to : to[i] \notin elim.reached})
       IN  elim' = [worklist |-> Tail(elim.worklist) \o new,
                    reached |-> elim.reached \cup ToSet(new),
                    left |-> ir.blocks]
    /\ UNCHANGED ir

(* remove_dead_predecessor_from_phis, for the successors of a dead block. *)
DropDeadPredecessor(g, dead) ==
    [g EXCEPT !.phis = [b \in AllBlocks |->
        IF b \in ToSet(g.succ[dead])
        THEN [i \in DOMAIN @[b] |-> DropIncoming(@[b][i], dead)]
        ELSE @[b]]]

ElimVisit ==
    /\ elim.worklist = <<>> /\ elim.left # <<>>
    /\ LET block == Head(elim.left)
       IN  ir' = IF block \in elim.reached THEN ir
                 ELSE RemoveBlock(DropDeadPredecessor(ir, block), block)
    /\ elim' = [elim EXCEPT !.left = Tail(@)]

ElimDone == elim.worklist = <<>> /\ elim.left = <<>>

ElimStep == Search \/ ElimVisit

-----------------------------------------------------------------------------
(* When the pass is not at work elim is <<>>, or what it left. *)
Eliminating == elim # <<>> /\ ~ElimDone

(* The reachable blocks of a function, along the branches. *)
ReachableIn(g) ==
    LET within[k \in 0 .. MaxBlocks] ==
            IF k = 0 THEN {Entry}
            ELSE within[k - 1] \cup UNION {ToSet(g.term[b].to) : b \in within[k - 1]}
    IN  within[MaxBlocks]

(* "Keeps only blocks reachable via CFG edges from the entry block", and    *)
(* all of them (UnreachableBlockElim.cpp:34-35).                            *)
OnlyReachableKept == elim # <<>> /\ ElimDone => Blocks = ReachableIn(ir)

(* The edge lists, which every pass that touches a branch must update by    *)
(* hand, agree with the branches.                                           *)
EdgesAgree == ~Eliminating => EdgesMatchBranches(ir)
=============================================================================
