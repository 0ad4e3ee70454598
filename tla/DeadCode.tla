------------------------------ MODULE DeadCode -------------------------------
(***************************************************************************)
(* DeadCode on one function: rounds of mark, from the critical             *)
(* instructions through the operands, and sweep of what is not marked,     *)
(* until a sweep finds nothing.                                            *)
(***************************************************************************)
EXTENDS Ir

VARIABLE dc

(* func_info: the functions that are pure for FuncInfo. *)
DeadCodeStart(pure) == [next |-> "mark", marked |-> {}, func_info |-> pure]

(* is_critical, of what is no terminator: those are. *)
IsCriticalInst(inst) ==
    \/ inst.op = "store"
    \/ inst.op = "call" /\ inst.callee \notin dc.func_info

CriticalOperands ==
    UNION {{ir.term[b].val} \cup UNION {Operands(inst) :
                                    inst \in {i \in ToSet(ir.body[b]) : IsCriticalInst(i)}}
           : b \in Blocks}

(* Every value an instruction defines, with every operand of it. *)
OperandsOfValues ==
    UNION {UNION {{<<PhiId(b, phi.var), pair.val>> : pair \in ToSet(phi.inc)} :
                    phi \in ToSet(ir.phis[b])}
           \cup UNION {{inst.id} \X Operands(inst) :
                            inst \in {i \in ToSet(ir.body[b]) : Defines(i)}}
           : b \in AllBlocks}

(* Mutant of Marked: the operands of what is marked are not marked. *)
MarkedOnce == CriticalOperands

(* mark: what critical instructions use, directly or through others. *)
Marked ==
    LET operands == OperandsOfValues
        values == CriticalOperands \cup {pair[2] : pair \in operands}
        from[ids \in SUBSET values] ==
            LET more == {pair[2] : pair \in {p \in operands : p[1] \in ids}}
            IN  IF more \subseteq ids THEN ids ELSE from[ids \cup more]
    IN  from[CriticalOperands]

(* sweep: what is not marked goes. *)
Swept(marked) ==
    [ir EXCEPT
        !.phis = [b \in AllBlocks |->
            IF b \in Blocks
            THEN Kept(@[b], {k \in DOMAIN @[b] : PhiId(b, @[b][k].var) \in marked})
            ELSE @[b]],
        !.body = [b \in AllBlocks |->
            IF b \in Blocks
            THEN Kept(@[b], {k \in DOMAIN @[b] :
                                IsCriticalInst(@[b][k]) \/ @[b][k].id \in marked})
            ELSE @[b]]]

Mark ==
    /\ dc.next = "mark"
    /\ dc' = [dc EXCEPT !.next = "sweep", !.marked = Marked]
    /\ UNCHANGED ir

(* Mutant of Sweep: changed is not reset. *)
SweepForever ==
    /\ dc.next = "sweep"
    /\ ir' = Swept(dc.marked)
    /\ dc' = [dc EXCEPT !.next = "mark", !.marked = {}]

(* Another round of the loop of run if there was something to sweep. *)
Sweep ==
    /\ dc.next = "sweep"
    /\ ir' = Swept(dc.marked)
    /\ dc' = [dc EXCEPT !.next = IF ir' # ir THEN "mark" ELSE "end", !.marked = {}]

DeadCodeDone == dc.next = "end"

DeadCodeStep == Mark \/ Sweep
=============================================================================
