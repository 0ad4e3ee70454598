----------------------------- MODULE ConstFolder -----------------------------
(***************************************************************************)
(* ConstFolder: the constant that an instruction on constants stands for,  *)
(* as a set that is empty for nullptr.                                     *)
(***************************************************************************)
EXTENDS Arith, Sequences

IsInt(c) == c[1] \in {"const", "bool"}
IsFloat(c) == c[1] \in {"float", "nan"}
IsConstant(v) == IsInt(v) \/ IsFloat(v) \/ v[1] = "undef"

(* A test of integers folds to a constant of type i1; a division by zero    *)
(* stays.                                                                   *)
ComputeInts(op, a, b) ==
    CASE op = "sdiv" /\ b = 0 -> {}
      [] op \in IntOps /\ ~(op = "sdiv" /\ b = 0) -> {Const(IntResult(op, a, b))}
      [] op \in IntTests -> {Bool(Holds(op, a, b))}
      [] OTHER -> {}

ComputeFloats(op, x, y) ==
    CASE op = "fdiv" /\ NaN \in {x, y} -> {}
      [] op \in FloatOps /\ ~(op = "fdiv" /\ NaN \in {x, y}) -> {FloatResult(op, x, y)}
      [] op \in FloatTests -> {Bool(FloatHolds(op, x, y))}
      [] OTHER -> {}

ComputeOne(op, c) ==
    CASE op = "sitofp" /\ IsInt(c) -> {FromInt(c[2])}
      [] op = "fptosi" /\ IsFloat(c) -> IF Representable(c) THEN {Const(ToInt(c))} ELSE {}
      [] op = "zext" /\ IsInt(c) -> {Const(c[2])}
      [] OTHER -> {}

(* compute; args are constants. *)
Compute(op, args) ==
    CASE Len(args) = 1 -> ComputeOne(op, args[1])
      [] Len(args) = 2 /\ IsInt(args[1]) /\ IsInt(args[2]) ->
            ComputeInts(op, args[1][2], args[2][2])
      [] Len(args) = 2 /\ IsFloat(args[1]) /\ IsFloat(args[2]) ->
            ComputeFloats(op, args[1], args[2])
      [] OTHER -> {}

(* "c1 / c2" of the compiler itself, which need not return. *)
HostTraps(op, args) ==
    op = "sdiv" /\ Len(args) = 2 /\ args[1] = Const(MinInt) /\ args[2] = Const(-1)

(* try_fold *)
TryFold(inst) ==
    IF \A i \in DOMAIN inst.args : IsConstant(inst.args[i]) THEN Compute(inst.op, inst.args)
    ELSE {}
=============================================================================
