------------------------------- MODULE UseDef -------------------------------
(***************************************************************************)
(* The def-use bookkeeping of the light IR (lightir/Value, lightir/User).  *)
(* Every Value keeps use_list_, the pairs (user, arg_no) that name it;     *)
(* every User keeps operands_.  The two are updated by hand, side by side, *)
(* by set_operand, add_operand, remove_operand, remove_all_operands and    *)
(* the destructors, and the replacement loops of Value.cpp run over a use  *)
(* list that each iteration changes.                                       *)
(*                                                                         *)
(* A use list is a bag: uses[v][<<u, i>>] counts the entries Use(u, i) of  *)
(* v.  Its order is left out: it only fixes which use a loop takes first.  *)
(* Operand numbers start from 1 here, from 0 in the code.                  *)
(*                                                                         *)
(* The code is sequential.  A call that contains a loop is a job: its      *)
(* iterations are steps, and no other call starts before it ends.          *)
(***************************************************************************)
EXTENDS Naturals, Sequences, SequencesExt

CONSTANTS
    Plain, Labels, Phis, Insts, Null, MaxOps,   \* as in OperandGraph
    MaxInstOps      \* bound on the operands of an instruction other than a phi

VARIABLES
    operands,   \* operands[u]: User::operands_
    uses,       \* uses[v][s]: the number of entries s in Value::use_list_
    alive,      \* the values whose destructor has not completed
    job         \* the loop in progress

vars == <<operands, uses, alive, job>>

Graph == INSTANCE OperandGraph

Users == Phis \cup Insts
Values == Plain \cup Labels \cup Users
Slots == Users \X (1 .. MaxOps)

(* Operands keep their type: a label only ever replaces a label. *)
SameType(v, w) == (v \in Labels) <=> (w \in Labels)

(* A phi alternates incoming values and predecessor blocks. *)
Fits(u, i, v) == u \in Phis => ((v \in Labels) <=> (i % 2 = 0))

ASSUME UseDefAssumption ==
    /\ MaxOps \in Nat /\ MaxInstOps \in 0 .. MaxOps
    /\ Null \notin Values
    /\ (Plain \cup Labels) \cap Users = {}
    /\ Plain \cap Labels = {}
    /\ Phis \cap Insts = {}

Idle == [op |-> "idle"]
IsIdle == job = Idle

Init ==
    /\ operands = [u \in Users |-> <<>>]
    /\ uses = [v \in Values |-> [s \in Slots |-> 0]]
    /\ alive = Values
    /\ job = Idle

-----------------------------------------------------------------------------
(* Value::add_use appends without looking; Value::remove_use removes every  *)
(* equal entry.  Both are skipped for a null operand.                       *)
AddUse(us, v, s) ==
    IF v = Null THEN us ELSE [us EXCEPT ![v][s] = @ + 1]

(* Mutant of RemoveUse: the entries stay. *)
RemoveUseForgotten(us, v, s) == us

RemoveUse(us, v, s) ==
    IF v = Null THEN us ELSE [us EXCEPT ![v][s] = 0]

(* User::set_operand on an index in range. *)
SetOperandAt(u, i, v) ==
    /\ operands' = [operands EXCEPT ![u][i] = v]
    /\ uses' = AddUse(RemoveUse(uses, operands[u][i], <<u, i>>), v, <<u, i>>)

(* Mutant of Released: the loop stops before the last operand. *)
ReleasedAllButLast(u) ==
    [v \in Values |-> [s \in Slots |->
        IF s[1] = u /\ s[2] < Len(operands[u]) /\ operands[u][s[2]] = v
        THEN 0
        ELSE uses[v][s]]]

(* The use lists after User::remove_all_operands of u. *)
Released(u) ==
    [v \in Values |-> [s \in Slots |->
        IF /\ s[1] = u
           /\ s[2] \in DOMAIN operands[u]
           /\ operands[u][s[2]] = v
        THEN 0
        ELSE uses[v][s]]]

-----------------------------------------------------------------------------
(* Calls without a loop over a use list. *)

AddOperand(u, v) ==
    /\ IsIdle
    /\ {u, v} \subseteq alive
    /\ Len(operands[u]) < MaxInstOps
    /\ operands' = [operands EXCEPT ![u] = Append(@, v)]
    /\ uses' = AddUse(uses, v, <<u, Len(operands[u]) + 1>>)
    /\ UNCHANGED <<alive, job>>

(* PhiInst::add_phi_pair_operand: two add_operand calls. *)
AddPhiPair(u, v, b) ==
    /\ IsIdle
    /\ {u, v, b} \subseteq alive
    /\ Len(operands[u]) + 1 < MaxOps
    /\ operands' = [operands EXCEPT ![u] = @ \o <<v, b>>]
    /\ uses' = AddUse(AddUse(uses, v, <<u, Len(operands[u]) + 1>>),
                      b, <<u, Len(operands[u]) + 2>>)
    /\ UNCHANGED <<alive, job>>

SetOperand(u, i, v) ==
    /\ IsIdle
    /\ {u, v} \subseteq alive
    /\ i \in DOMAIN operands[u]
    /\ Fits(u, i, v)
    /\ SetOperandAt(u, i, v)
    /\ UNCHANGED <<alive, job>>

RemoveAllOperands(u) ==
    /\ IsIdle
    /\ u \in alive
    /\ operands' = [operands EXCEPT ![u] = <<>>]
    /\ uses' = Released(u)
    /\ UNCHANGED <<alive, job>>

-----------------------------------------------------------------------------
(* Value::replace_all_use_with(new), and with dtor the second half of       *)
(* ~User and ~Value: "while (use_list_.size()) set_operand on begin()".     *)

(* Mutant of ReplaceAllUseWith: no test for a replacement by itself. *)
ReplaceAllUseWithItself(old, new) ==
    /\ IsIdle
    /\ {old, new} \subseteq alive
    /\ SameType(old, new)
    /\ job' = [op |-> "replace", old |-> old, new |-> new, dtor |-> FALSE]
    /\ UNCHANGED <<operands, uses, alive>>

ReplaceAllUseWith(old, new) ==
    /\ IsIdle
    /\ {old, new} \subseteq alive
    /\ SameType(old, new)
    /\ old # new                     \* "if (this == new_val) return"
    /\ job' = [op |-> "replace", old |-> old, new |-> new, dtor |-> FALSE]
    /\ UNCHANGED <<operands, uses, alive>>

(* Mutant of Destroy: ~Value leaves the operands that name v. *)
DestroyInUse(v) ==
    /\ IsIdle
    /\ v \in alive
    /\ operands' = IF v \in Users THEN [operands EXCEPT ![v] = <<>>] ELSE operands
    /\ uses' = IF v \in Users THEN Released(v) ELSE uses
    /\ alive' = alive \ {v}
    /\ UNCHANGED job

(* delete v: ~User releases its operands, ~Value nulls its uses. *)
Destroy(v) ==
    /\ IsIdle
    /\ v \in alive
    /\ operands' = IF v \in Users THEN [operands EXCEPT ![v] = <<>>] ELSE operands
    /\ uses' = IF v \in Users THEN Released(v) ELSE uses
    /\ job' = [op |-> "replace", old |-> v, new |-> Null, dtor |-> TRUE]
    /\ UNCHANGED alive

ReplaceOne(s) ==
    /\ job.op = "replace"
    /\ uses[job.old][s] > 0
    /\ s[2] \in DOMAIN operands[s[1]]         \* set_operand's assertion
    /\ SetOperandAt(s[1], s[2], job.new)
    /\ UNCHANGED <<alive, job>>

ReplaceEnd ==
    /\ job.op = "replace"
    /\ \A s \in Slots : uses[job.old][s] = 0
    /\ alive' = IF job.dtor THEN alive \ {job.old} ELSE alive
    /\ job' = Idle
    /\ UNCHANGED <<operands, uses>>

(* Value::replace_use_with_if: one pass over the list as it was found; the  *)
(* predicate, a property of the use, picks the slots of S.                  *)
ReplaceUseWithIf(old, new, S) ==
    /\ IsIdle
    /\ {old, new} \subseteq alive
    /\ SameType(old, new)
    /\ old # new
    /\ \A s \in S : uses[old][s] > 0
    /\ job' = [op |-> "replace_if", old |-> old, new |-> new, todo |-> S]
    /\ UNCHANGED <<operands, uses, alive>>

ReplaceIfOne(s) ==
    /\ job.op = "replace_if"
    /\ s \in job.todo
    /\ s[2] \in DOMAIN operands[s[1]]
    /\ SetOperandAt(s[1], s[2], job.new)
    /\ job' = [job EXCEPT !.todo = @ \ {s}]
    /\ UNCHANGED alive

ReplaceIfEnd ==
    /\ job.op = "replace_if"
    /\ job.todo = {}
    /\ job' = Idle
    /\ UNCHANGED <<operands, uses, alive>>

-----------------------------------------------------------------------------
(* User::remove_operand, called twice in a row to drop the incoming pair    *)
(* (i, i + 1) of a phi.  calls holds the operand numbers of the calls not   *)
(* finished, next the operand the loop renumbers next.                      *)
RemoveCalls(u, calls) ==
    /\ IsIdle
    /\ u \in alive
    /\ \A j \in DOMAIN operands[u] : operands[u][j] # Null
    /\ job' = [op |-> "remove", user |-> u, calls |-> calls,
               next |-> Head(calls) + 1]
    /\ UNCHANGED <<operands, uses, alive>>

(* Mutant of DropIncomingPair: the second call forgets that the first has   *)
(* moved the operands down.                                                 *)
DropIncomingPairUnshifted(u, i) ==
    /\ i % 2 = 1 /\ i + 1 \in DOMAIN operands[u]
    /\ RemoveCalls(u, <<i, i + 1>>)

(* ConstPropagation.cpp:138-139: remove_operand(i) twice. *)
DropIncomingPair(u, i) ==
    /\ i % 2 = 1 /\ i + 1 \in DOMAIN operands[u]
    /\ RemoveCalls(u, <<i, i>>)

(* UnreachableBlockElim.cpp:25-26: the predecessor first, then the value. *)
DropIncomingPairBackwards(u, i) ==
    /\ i % 2 = 1 /\ i + 1 \in DOMAIN operands[u]
    /\ RemoveCalls(u, <<i + 1, i>>)

(* "operands_[i]->remove_use(this, i); operands_[i]->add_use(this, i - 1)" *)
RenumberOne ==
    /\ job.op = "remove"
    /\ job.next \in DOMAIN operands[job.user]
    /\ LET v == operands[job.user][job.next]
       IN  uses' = AddUse(RemoveUse(uses, v, <<job.user, job.next>>),
                          v, <<job.user, job.next - 1>>)
    /\ job' = [job EXCEPT !.next = @ + 1]
    /\ UNCHANGED <<operands, alive>>

(* After the loop: the removed operand's own use and slot go. *)
RemoveEnd ==
    /\ job.op = "remove"
    /\ job.next \notin DOMAIN operands[job.user]
    /\ LET u   == job.user
           idx == Head(job.calls)
       IN  /\ uses' = RemoveUse(uses, operands[u][idx], <<u, idx>>)
           /\ operands' = [operands EXCEPT ![u] = RemoveAt(@, idx)]
    /\ job' = IF Len(job.calls) = 1 THEN Idle
              ELSE [job EXCEPT !.calls = Tail(@), !.next = job.calls[2] + 1]
    /\ UNCHANGED alive

-----------------------------------------------------------------------------
Loop ==
    \/ \E s \in Slots : ReplaceOne(s)
    \/ ReplaceEnd
    \/ \E s \in Slots : ReplaceIfOne(s)
    \/ ReplaceIfEnd
    \/ RenumberOne
    \/ RemoveEnd

Call ==
    \/ \E u \in Insts, v \in Values : AddOperand(u, v)
    \/ \E u \in Phis, v \in Values \ Labels, b \in Labels : AddPhiPair(u, v, b)
    \/ \E u \in Users, i \in 1 .. MaxOps, v \in Values : SetOperand(u, i, v)
    \/ \E u \in Users : RemoveAllOperands(u)
    \/ \E old, new \in Values : ReplaceAllUseWith(old, new)
    \/ \E old, new \in Values :
         \E S \in SUBSET {s \in Slots : uses[old][s] > 0} :
            ReplaceUseWithIf(old, new, S)
    \/ \E v \in Values : Destroy(v)
    \/ \E u \in Phis, i \in 1 .. MaxOps : DropIncomingPair(u, i)

Next == Call \/ Loop

(* The driver runs UnreachableBlockElim before Mem2Reg, when no phi exists: *)
(* Next leaves its order of removal out, and NextBackwards puts it in.      *)
NextBackwards ==
    \/ Next
    \/ \E u \in Phis, i \in 1 .. MaxOps : DropIncomingPairBackwards(u, i)

(* Sequential code: a loop that has an iteration to run runs it. *)
Fairness == WF_vars(Loop)

Spec == Init /\ [][Next]_vars /\ Fairness
SpecBackwards == Init /\ [][NextBackwards]_vars /\ Fairness

-----------------------------------------------------------------------------
Jobs ==
    {Idle}
    \cup [op : {"replace"}, old : Values, new : Values \cup {Null},
          dtor : BOOLEAN]
    \cup [op : {"replace_if"}, old : Values, new : Values, todo : SUBSET Slots]
    \cup [op : {"remove"}, user : Phis,
          calls : (1 .. MaxOps) \X (1 .. MaxOps) \cup [{1} -> 1 .. MaxOps],
          next : 1 .. MaxOps + 1]

OperandLists == UNION {[1 .. n -> Values \cup {Null}] : n \in 0 .. MaxOps}

(* Type invariant. *)
TypeOK ==
    /\ operands \in [Users -> OperandLists]
    /\ uses \in [Values -> [Slots -> 0 .. 2]]
    /\ alive \subseteq Values
    /\ job \in Jobs

(* Between calls, and within the replacement loops, the use list of v holds *)
(* Use(u, i) once if operand i of u is v and never otherwise ("who use this *)
(* value", Value.hpp:35; the numbering of User.hpp:28-31).                  *)
Exact(v, u, i) ==
    uses[v][<<u, i>>] =
        IF i \in DOMAIN operands[u] /\ operands[u][i] = v THEN 1 ELSE 0

UsesExact ==
    job.op # "remove" =>
        \A v \in Values, u \in Users, i \in 1 .. MaxOps : Exact(v, u, i)

(* Once ~Value has run, no operand and no use list entry of a live object   *)
(* names the destroyed one.                                                 *)
NoDangling ==
    \A d \in Values \ alive :
        /\ \A u \in Users : \A i \in DOMAIN operands[u] : operands[u][i] # d
        /\ \A v \in alive, s \in Slots : s[1] = d => uses[v][s] = 0

(* replace_all_use_with, replace_use_with_if, remove_operand and the        *)
(* destructors return: the use list a loop empties does run out.            *)
LoopsEnd == [](~IsIdle => <>IsIdle)

(* The operand lists once the loop in progress has run to its end. *)
FinalOperands ==
    CASE job.op = "idle" -> operands
      [] job.op = "replace" ->
            [u \in Users |-> Graph!Replaced(u, operands[u], job.old, job.new, Slots)]
      [] job.op = "replace_if" ->
            [u \in Users |-> Graph!Replaced(u, operands[u], job.old, job.new, job.todo)]
      [] job.op = "remove" /\ Len(job.calls) = 2 ->
            [operands EXCEPT ![job.user] =
                RemoveAt(RemoveAt(@, job.calls[1]), job.calls[2])]
      [] OTHER -> [operands EXCEPT ![job.user] = RemoveAt(@, job.calls[1])]

FinalAlive ==
    IF job.op = "replace" /\ job.dtor THEN alive \ {job.old} ELSE alive

Abstract == INSTANCE OperandGraph WITH operands <- FinalOperands,
                                       alive <- FinalAlive

(* Every call has, on the operand lists, exactly the effect it has in       *)
(* OperandGraph, at once: a replacement reaches every user, a removal only  *)
(* the pair, a destructor leaves null where the object was.                 *)
ImplementsOperandGraph == Abstract!Spec
=============================================================================
