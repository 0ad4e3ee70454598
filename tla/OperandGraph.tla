---------------------------- MODULE OperandGraph ----------------------------
(***************************************************************************)
(* What the light IR promises to the passes about operands: a User owns a  *)
(* list of operands, an edit of the list or a replacement of a value       *)
(* happens at once, and nobody keeps an operand that was destroyed.  There *)
(* is no use list here: the users of a value are read off the operands.    *)
(* UseDef implements this with explicit use lists and the loops of         *)
(* User.cpp and Value.cpp.                                                 *)
(***************************************************************************)
EXTENDS Naturals, Sequences, SequencesExt

CONSTANTS
    Plain,      \* values that have no operands: constants, arguments
    Labels,     \* basic blocks, as operands of branches and phis
    Phis,       \* phi instructions: (value, predecessor) pairs
    Insts,      \* the other instructions
    Null,       \* the null operand
    MaxOps      \* bound on the length of an operand list

Users  == Phis \cup Insts
Values == Plain \cup Labels \cup Users
Slots  == Users \X (1 .. MaxOps)     \* Use(user, arg_no), arg_no from 1

VARIABLES
    operands,   \* operands[u]: User::operands_
    alive       \* the values whose destructor has not completed

vars == <<operands, alive>>

-----------------------------------------------------------------------------
(* A label is only ever replaced by a label: operands keep their type. *)
SameType(v, w) == (v \in Labels) <=> (w \in Labels)

(* The slots in which v is an operand: who uses v. *)
UsersOf(v) == {s \in Slots : s[2] \in DOMAIN operands[s[1]]
                              /\ operands[s[1]][s[2]] = v}

(* The list ops of user u with old replaced by new in the slots of S. *)
Replaced(u, ops, old, new, S) ==
    [i \in DOMAIN ops |-> IF ops[i] = old /\ <<u, i>> \in S THEN new ELSE ops[i]]

(* Both operands of the incoming pair that starts at i are removed. *)
WithoutPair(ops, i) == RemoveAt(RemoveAt(ops, i), i)

Init ==
    /\ operands = [u \in Users |-> <<>>]
    /\ alive = Values

Extend(u, new) ==
    /\ u \in alive
    /\ Len(operands[u]) + Len(new) <= MaxOps
    /\ operands' = [operands EXCEPT ![u] = @ \o new]
    /\ UNCHANGED alive

Set(u, i, v) ==
    /\ u \in alive
    /\ i \in DOMAIN operands[u]
    /\ operands' = [operands EXCEPT ![u][i] = v]
    /\ UNCHANGED alive

Clear(u) ==
    /\ u \in alive
    /\ operands' = [operands EXCEPT ![u] = <<>>]
    /\ UNCHANGED alive

RemovePair(u, i) ==
    /\ u \in alive
    /\ i + 1 \in DOMAIN operands[u]
    /\ operands' = [operands EXCEPT ![u] = WithoutPair(@, i)]
    /\ UNCHANGED alive

Substitute(old, new, S) ==
    /\ operands' = [u \in Users |-> Replaced(u, operands[u], old, new, S)]
    /\ UNCHANGED alive

Destroy(v) ==
    /\ v \in alive
    /\ operands' = [u \in Users |->
         IF u = v THEN <<>> ELSE Replaced(u, operands[u], v, Null, Slots)]
    /\ alive' = alive \ {v}

Next ==
    \/ \E u \in Users, v \in Values : Extend(u, <<v>>)
    \/ \E u \in Phis, v \in Values, b \in Labels : Extend(u, <<v, b>>)
    \/ \E u \in Users, i \in 1 .. MaxOps, v \in Values : Set(u, i, v)
    \/ \E u \in Users : Clear(u)
    \/ \E u \in Phis, i \in 1 .. MaxOps : RemovePair(u, i)
    \/ \E old, new \in Values : \E S \in SUBSET UsersOf(old) :
            Substitute(old, new, S)
    \/ \E v \in Values : Destroy(v)

Spec == Init /\ [][Next]_vars
=============================================================================
