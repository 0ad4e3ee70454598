------------------------------- MODULE Effects -------------------------------
(***************************************************************************)
(* FuncInfo on the functions of a program of the light IR: what            *)
(* trivial_mark sees in each of them, and the functions that are pure in   *)
(* the end, by the closed form that module FuncInfo shows.                 *)
(***************************************************************************)
EXTENDS Ir, Purity

InstsOf(g) == UNION {ToSet(g.body[b]) : b \in ToSet(g.blocks)}

(* get_first_addr: from an address computation, or a phi, on to where its    *)
(* first operand comes from.                                                *)
FirstAddr(g, addr) ==
    LET geps == {inst \in InstsOf(g) : inst.op = "gep"}
        phis == UNION {{<<b, phi>> : phi \in ToSet(g.phis[b])} : b \in ToSet(g.blocks)}
        next == {<<inst.id, inst.args[1]>> : inst \in geps}
                \cup {<<PhiId(p[1], p[2].var), p[2].inc[1].val>> : p \in phis}
        from[v \in {addr} \cup {step[2] : step \in next}] ==
            IF \E step \in next : step[1] = v
            THEN from[(CHOOSE step \in next : step[1] = v)[2]] ELSE v
    IN  from[addr]

(* is_local_load, is_local_store: the address comes from an alloca.  The     *)
(* variables of Vars are allocas.                                           *)
IsLocalAccess(g, inst) ==
    \/ "var" \in DOMAIN inst
    \/ \E a \in InstsOf(g) :
        a.op = "alloca" /\ a.id = FirstAddr(g, Last(inst.args))

IsSideEffectInst(g, inst) == inst.op \in {"load", "store"} /\ ~IsLocalAccess(g, inst)

(* trivial_mark, of a function with a body. *)
SeemsPure(f) ==
    /\ f.name # "main"
    /\ \A i \in DOMAIN f.params : f.params[i] \in {"i1", "i32", "float"}
    /\ \A inst \in InstsOf(f.ir) : ~IsSideEffectInst(f.ir, inst)

Callees(f) == {inst.callee : inst \in {i \in InstsOf(f.ir) : i.op = "call"}}

(* The names of the pure functions of a program; a declaration is none.     *)
PureNames(functions) ==
    LET named(name) == CHOOSE f \in ToSet(functions) : f.name = name
        names == {f.name : f \in ToSet(functions)}
    IN  PureFunctions({f.name : f \in {f \in ToSet(functions) : SeemsPure(f)}},
                      [name \in names |-> Callees(named(name))])
=============================================================================
