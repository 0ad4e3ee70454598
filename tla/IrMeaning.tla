------------------------------- MODULE IrMeaning -------------------------------
(***************************************************************************)
(* What a program of the light IR does when it runs, for the light IR that *)
(* the stack code generator compiles: the values of the activation in      *)
(* progress, the memory behind pointers, and the calls of the runtime      *)
(* library, which are all that is seen of a run.                           *)
(*                                                                         *)
(* An operation without a defined result gives an undefined value, and a   *)
(* branch on one ends the run: what the passes and the code do from there  *)
(* on is their affair.  So does a float test "not equal" of NaN: LLVM, the *)
(* folder and the generated code differ on it.                             *)
(***************************************************************************)
EXTENDS Ir, Arith

Pointer(obj, off) == <<"ptr", obj, off>>
IsUndef(val) == val[1] = "undef"

(* calls: the activations, the innermost last; log: the calls of the        *)
(* library; input: what it reads.                                           *)
Activation(fn, args) ==
    [fn |-> fn, at |-> Entry, next |-> 1,
     env |-> [v \in {Arg(i) : i \in DOMAIN args} |-> args[v[2]]]]

(* The last function of a program is main. *)
StartIr(functions, input) ==
    [calls |-> <<Activation(Len(functions), <<>>)>>, mem |-> <<>>, log |-> <<>>,
     input |-> input, status |-> "runs", result |-> UndefOf("void")]

Top(m) == Last(m.calls)
InTop(m, a) == [m EXCEPT !.calls[Len(m.calls)] = a]

Meaning(m, v) ==
    CASE v[1] = "global" -> Pointer(v, 0)
      [] v \in DOMAIN Top(m).env -> Top(m).env[v]
      [] OTHER -> v

Bind(m, v, val) == [m EXCEPT !.calls[Len(m.calls)].env = (v :> val) @@ @]

-----------------------------------------------------------------------------
(* Operations on values. *)
OnInts(op, a, b) ==
    IF op \in IntTests THEN Bool(Holds(op, a, b))
    ELSE IF op = "sdiv" /\ (b = 0 \/ (a = MinInt /\ b = -1)) THEN UndefOf("i32")
    ELSE Const(IntResult(op, a, b))

OnFloats(op, x, y) ==
    CASE op = "fne" /\ NaN \in {x, y} -> UndefOf("i1")
      [] op \in FloatTests /\ ~(op = "fne" /\ NaN \in {x, y}) -> Bool(FloatHolds(op, x, y))
      [] OTHER -> FloatResult(op, x, y)

OnOne(op, val) ==
    CASE op = "sitofp" -> FromInt(val[2])
      [] op = "fptosi" -> IF Representable(val) THEN Const(ToInt(val)) ELSE UndefOf("i32")
      [] op = "zext" -> Const(val[2])

Sum(list) == FoldLeft(LAMBDA n, k : n + k, 0, list)

Apply(inst, vals) ==
    CASE \E i \in DOMAIN vals : IsUndef(vals[i]) -> UndefOf(inst.type)
      [] inst.op = "gep" ->
            Pointer(vals[1][2],
                    vals[1][3] + Sum([i \in DOMAIN inst.sizes |-> inst.sizes[i] * vals[i + 1][2]]))
      [] inst.op \in IntOps \cup IntTests -> OnInts(inst.op, vals[1][2], vals[2][2])
      [] inst.op \in FloatOps \cup FloatTests -> OnFloats(inst.op, vals[1], vals[2])
      [] OTHER -> OnOne(inst.op, vals[1])

(* Global variables are 0 before the first store, other memory undefined. *)
Zero(type) == IF type = "float" THEN Float(0) ELSE Const(0)

Loaded(m, ptr, type) ==
    CASE ptr \in DOMAIN m.mem -> m.mem[ptr]
      [] ptr[2][1] = "global" -> Zero(type)
      [] OTHER -> UndefOf(type)

Stuck(m) == [m EXCEPT !.status = "stuck"]

-----------------------------------------------------------------------------
(* One instruction, with the values of its operands. *)
CallRuntime(m, inst, vals) ==
    LET after == [m EXCEPT !.log = Append(@, <<inst.callee, vals>>)]
    IN  IF Defines(inst) THEN Bind(after, inst.id, Const(m.input)) ELSE after

CallFunction(m, fn, vals) == [m EXCEPT !.calls = Append(@, Activation(fn, vals))]

Named(functions, name) == {i \in DOMAIN functions : functions[i].name = name}

(* The area is there from now on, with nothing in it. *)
NewArea(m, id, obj) ==
    [Bind(m, id, Pointer(obj, 0)) EXCEPT
        !.mem = [p \in {q \in DOMAIN @ : q[2] # obj} |-> @[p]]]

RunInst(functions, m, inst, vals) ==
    CASE inst.op = "alloca" -> NewArea(m, inst.id, <<"area", Len(m.calls), inst.id>>)
      [] inst.op = "load" ->
            IF IsUndef(vals[1]) THEN Stuck(m)
            ELSE Bind(m, inst.id, Loaded(m, vals[1], inst.type))
      [] inst.op = "store" ->
            IF IsUndef(vals[2]) THEN Stuck(m) ELSE [m EXCEPT !.mem = (vals[2] :> vals[1]) @@ @]
      [] inst.op = "call" ->
            IF Named(functions, inst.callee) = {} THEN CallRuntime(m, inst, vals)
            ELSE CallFunction(m, CHOOSE i \in Named(functions, inst.callee) : TRUE, vals)
      [] OTHER -> Bind(m, inst.id, Apply(inst, vals))

(* A block is entered: its phis take their values together. *)
ValueFrom(m, phi, pred) ==
    Meaning(m, (CHOOSE pair \in ToSet(phi.inc) : pair.from = pred).val)

PhiValues(m, phis, pred, b) ==
    [id \in {PhiId(b, phis[i].var) : i \in DOMAIN phis} |->
        ValueFrom(m, phis[CHOOSE i \in DOMAIN phis : phis[i].var = id[3]], pred)]

EnterBlock(m, g, b) ==
    InTop(m, [Top(m) EXCEPT !.at = b, !.next = 1,
                            !.env = PhiValues(m, g.phis[b], Top(m).at, b) @@ @])

(* The end of an activation: its areas are gone, and the caller goes on      *)
(* behind its call, which has the result.                                   *)
IsArea(p, depth) == p[2][1] = "area" /\ p[2][2] = depth

Return(m, val, call) ==
    IF Len(m.calls) = 1 THEN [m EXCEPT !.status = "ends", !.result = val]
    ELSE LET caller == [m EXCEPT
                !.calls = Front(@),
                !.mem = [p \in {q \in DOMAIN @ : ~IsArea(q, Len(m.calls))} |-> @[p]]]
         IN  IF Defines(call) THEN Bind(caller, call.id, val) ELSE caller

CallInProgress(functions, m) ==
    LET caller == m.calls[Len(m.calls) - 1]
    IN  IF Len(m.calls) = 1 THEN NoTerm
        ELSE functions[caller.fn].ir.body[caller.at][caller.next - 1]

RunTerm(functions, m, g, t) ==
    CASE t.op = "ret" -> Return(m, Meaning(m, t.val), CallInProgress(functions, m))
      [] Len(t.to) = 1 -> EnterBlock(m, g, t.to[1])
      [] Len(t.to) = 2 /\ IsUndef(Meaning(m, t.val)) -> Stuck(m)
      [] OTHER -> EnterBlock(m, g, t.to[IF Meaning(m, t.val)[2] # 0 THEN 1 ELSE 2])

(* The step of the activation in progress, up to and with its next call of a *)
(* function or its terminator.                                              *)
RECURSIVE RunOn(_, _, _, _)
RunOn(functions, m, g, body) ==
    IF m.status # "runs" \/ Top(m).next > Len(body) THEN m
    ELSE LET inst == body[Top(m).next]
             after == RunInst(functions,
                              [m EXCEPT !.calls[Len(m.calls)].next = @ + 1], inst,
                              [i \in DOMAIN inst.args |-> Meaning(m, inst.args[i])])
         IN  IF Len(after.calls) > Len(m.calls) THEN after
             ELSE RunOn(functions, after, g, body)

StepIr(functions, m) ==
    LET g == functions[Top(m).fn].ir
        ran == RunOn(functions, m, g, g.body[Top(m).at])
    IN  IF ran.status # "runs" \/ Len(ran.calls) > Len(m.calls) THEN ran
        ELSE RunTerm(functions, ran, g, g.term[Top(m).at])
=============================================================================
