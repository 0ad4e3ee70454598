-------------------------------- MODULE Arith --------------------------------
(***************************************************************************)
(* The constants of the light IR and the arithmetic on them, which the     *)
(* constant folder does at compile time and the target at run time.        *)
(* Integers have IntBits bits.  A float is a number of halves; beyond      *)
(* MaxFloat it is infinite, and NaN is what an operation without a result  *)
(* gives.                                                                  *)
(***************************************************************************)
EXTENDS Integers

CONSTANT IntBits        \* the width of i32

ASSUME ArithAssumption == IntBits \in Nat \ {0}

Const(k) == <<"const", k>>
Bool(p) == <<"bool", IF p THEN 1 ELSE 0>>
Float(k) == <<"float", k>>
NaN == <<"nan", 0>>

MinInt == -(2 ^ (IntBits - 1))
MaxInt == 2 ^ (IntBits - 1) - 1

(* A number as a signed one of width w. *)
Signed(n, w) == ((n + 2 ^ (w - 1)) % (2 ^ w)) - 2 ^ (w - 1)
Wrap(n) == Signed(n, IntBits)

(* Division of integers, towards zero. *)
Magnitude(n) == IF n < 0 THEN -n ELSE n
Quotient(a, b) ==
    IF (a < 0) = (b < 0) THEN Magnitude(a) \div Magnitude(b)
    ELSE -(Magnitude(a) \div Magnitude(b))

IntOps == {"add", "sub", "mul", "sdiv"}
IntTests == {"eq", "ne", "gt", "ge", "lt", "le"}
FloatOps == {"fadd", "fsub", "fmul", "fdiv"}
FloatTests == {"feq", "fne", "fgt", "fge", "flt", "fle"}

(* b is not 0 in a division. *)
IntResult(op, a, b) ==
    CASE op = "add" -> Wrap(a + b)
      [] op = "sub" -> Wrap(a - b)
      [] op = "mul" -> Wrap(a * b)
      [] op = "sdiv" -> Wrap(Quotient(a, b))

Holds(op, a, b) ==
    CASE op \in {"eq", "feq"} -> a = b
      [] op \in {"ne", "fne"} -> a # b
      [] op \in {"gt", "fgt"} -> a > b
      [] op \in {"ge", "fge"} -> a >= b
      [] op \in {"lt", "flt"} -> a < b
      [] op \in {"le", "fle"} -> a <= b

MaxFloat == 2 ^ (IntBits + 2)

Rounded(k) ==
    Float(CASE k > MaxFloat -> MaxFloat [] k < -MaxFloat -> -MaxFloat [] OTHER -> k)

(* The operations and tests on floats; every test but "not equal" fails on   *)
(* NaN.                                                                     *)
FloatResult(op, x, y) ==
    CASE NaN \in {x, y} -> NaN
      [] op = "fadd" -> Rounded(x[2] + y[2])
      [] op = "fsub" -> Rounded(x[2] - y[2])
      [] op = "fmul" -> Rounded(Quotient(x[2] * y[2], 2))
      [] op = "fdiv" /\ y[2] # 0 -> Rounded(Quotient(2 * x[2], y[2]))
      [] op = "fdiv" /\ y[2] = 0 /\ x[2] # 0 ->
            Float(IF x[2] > 0 THEN MaxFloat ELSE -MaxFloat)
      [] OTHER -> NaN

FloatHolds(op, x, y) ==
    IF NaN \in {x, y} THEN op = "fne" ELSE Holds(op, x[2], y[2])

FromInt(n) == Float(2 * n)
ToInt(x) == Quotient(x[2], 2)
Representable(x) == x # NaN /\ ToInt(x) \in MinInt .. MaxInt
=============================================================================
