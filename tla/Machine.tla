-------------------------------- MODULE Machine --------------------------------
(***************************************************************************)
(* The target, as far as the generated code uses it: registers, memory,    *)
(* the instructions, and the runtime library behind bl.  Numbers are       *)
(* signed; a double word has twice the bits of i32 here too.  What no      *)
(* instruction of the program has determined is Junk.                      *)
(*                                                                         *)
(* Memory is a function from the addresses of the last stores to what they *)
(* stored: a load of something else is Junk, except in .bss.               *)
(***************************************************************************)
EXTENDS Arith, Sequences, FiniteSets, SequencesExt

Junk == <<"junk", 0>>

DoubleBits == 2 * IntBits
WrapDouble(n) == Signed(n, DoubleBits)
UpperBits == IntBits - 12           \* of lu12i.w and lu32i.d

StackTop == 2 ^ (IntBits + 3)
BssStart == 2 ^ (IntBits + 2)       \* both beyond i32
VariableSize == 64                  \* at most
BssSize == 8 * VariableSize

GlobalAddress(n) == BssStart + VariableSize * n

(* pc is an index in the code, 0 after the return of main. *)
StartMachine(pc, input) ==
    [pc |-> pc, reg |-> ("sp" :> Const(StackTop)) @@ ("fp" :> Const(-1)) @@ ("ra" :> Const(0)),
     mem |-> <<>>, log |-> <<>>, input |-> input, status |-> "runs"]

Reg(c, r) ==
    CASE r = "zero" -> Const(0) [] r \in DOMAIN c.reg -> c.reg[r] [] OTHER -> Junk

SetReg(c, r, val) == [c EXCEPT !.reg = (r :> val) @@ @]

-----------------------------------------------------------------------------
(* Memory.  Bytes that a store overlaps are no longer what an earlier one   *)
(* stored.                                                                  *)
Width == ("ld.b" :> 1) @@ ("ld.w" :> 4) @@ ("ld.d" :> 8) @@ ("fld.s" :> 4)
         @@ ("st.b" :> 1) @@ ("st.w" :> 4) @@ ("st.d" :> 8) @@ ("fst.s" :> 4)

Overlaps(mem, a, addr, size) == a < addr + size /\ addr < a + mem[a].size

StoreAt(c, addr, size, val) ==
    [c EXCEPT !.mem = (addr :> [size |-> size, val |-> val])
                      @@ [a \in {x \in DOMAIN @ : ~Overlaps(@, x, addr, size)} |-> @[a]]]

LoadAt(c, addr, size, zero) ==
    CASE addr \in DOMAIN c.mem /\ c.mem[addr].size = size -> c.mem[addr].val
      [] addr \in BssStart .. BssStart + BssSize
         /\ ~\E a \in DOMAIN c.mem : Overlaps(c.mem, a, addr, size) -> zero
      [] OTHER -> Junk

Fits(val, size) ==
    IF size = 4 /\ val[1] = "const" THEN Const(Wrap(val[2])) ELSE val

AccessMemory(c, op, r, base, off) ==
    CASE base = Junk -> [c EXCEPT !.status = "stuck"]
      [] op \in {"st.b", "st.w", "st.d", "fst.s"} /\ base # Junk ->
            StoreAt(c, base[2] + off, Width[op], Fits(Reg(c, r), Width[op]))
      [] OTHER ->
            SetReg(c, r, LoadAt(c, base[2] + off, Width[op],
                                IF op = "fld.s" THEN Float(0) ELSE Const(0)))

-----------------------------------------------------------------------------
(* The value of an operation on registers. *)
IntegerUnit ==
    {"add.w", "sub.w", "mul.w", "div.w", "add.d", "sub.d", "mul.d", "slt", "sltu", "xor"}

Unsigned(n) == n % (2 ^ DoubleBits)
Test(p) == Const(IF p THEN 1 ELSE 0)

(* Of xor only whether it is 0.  A division by 0 does not trap. *)
OnRegisters(op, a, b) ==
    CASE op = "add.w" -> Const(Wrap(a + b))
      [] op = "sub.w" -> Const(Wrap(a - b))
      [] op = "mul.w" -> Const(Wrap(a * b))
      [] op = "div.w" -> IF b = 0 THEN Junk ELSE Const(Wrap(Quotient(a, b)))
      [] op = "add.d" -> Const(WrapDouble(a + b))
      [] op = "sub.d" -> Const(WrapDouble(a - b))
      [] op = "mul.d" -> Const(WrapDouble(a * b))
      [] op = "slt" -> Test(a < b)
      [] op = "sltu" -> Test(Unsigned(a) < Unsigned(b))
      [] op = "xor" -> Test(a # b)

FloatUnit == [x \in {"fadd.s", "fsub.s", "fmul.s", "fdiv.s"} |->
                CASE x = "fadd.s" -> "fadd" [] x = "fsub.s" -> "fsub"
                  [] x = "fmul.s" -> "fmul" [] x = "fdiv.s" -> "fdiv"]

(* Ordered tests: they fail on NaN. *)
FloatCompare == ("fcmp.seq.s" :> "feq") @@ ("fcmp.sne.s" :> "fne")
                @@ ("fcmp.slt.s" :> "flt") @@ ("fcmp.sle.s" :> "fle")

OrderedTest(op, x, y) == Test(NaN \notin {x, y} /\ FloatHolds(op, x, y))

(* An operation on one register and an immediate. *)
ImmediateUnit ==
    {"addi.w", "addi.d", "ori", "lu52i.d", "sltui", "bstrpick.w"}

OnImmediate(op, a, imm) ==
    CASE op = "addi.w" -> Const(Wrap(a + imm))
      [] op = "addi.d" -> Const(WrapDouble(a + imm))
      [] op = "ori" -> IF a % 4096 = 0 THEN Const(a + imm) ELSE Junk
      [] op = "lu52i.d" ->
            Const(imm * 2 ^ (IntBits + UpperBits) + (a % (2 ^ (IntBits + UpperBits))))
      [] op = "sltui" -> Test(Unsigned(a) < imm)
      [] op = "bstrpick.w" -> Const(a % 2)

Converted(op, x) ==
    CASE op \in {"movgr2fr.w", "movfr2gr.s", "movcf2gr"} -> x
      [] op = "ffint.s.w" -> FromInt(x[2])
      [] op = "ftintrz.w.s" -> IF Representable(x) THEN Const(ToInt(x)) ELSE Junk

Conversions == {"movgr2fr.w", "movfr2gr.s", "movcf2gr", "ffint.s.w", "ftintrz.w.s"}

Result(c, i) ==
    LET x == Reg(c, i[3])
        y == Reg(c, i[4])
    IN  CASE i[1] \in ImmediateUnit -> IF x = Junk THEN Junk ELSE OnImmediate(i[1], x[2], i[Len(i)])
          [] i[1] \in Conversions -> IF x = Junk THEN Junk ELSE Converted(i[1], x)
          [] Junk \in {x, y} -> Junk
          [] i[1] \in IntegerUnit -> OnRegisters(i[1], x[2], y[2])
          [] i[1] \in DOMAIN FloatUnit -> FloatResult(FloatUnit[i[1]], x, y)
          [] OTHER -> OrderedTest(FloatCompare[i[1]], x, y)

(* One instruction that goes on with the next one. *)
Exec(c, i) ==
    CASE c.status # "runs" -> c
      [] i[1] \in DOMAIN Width -> AccessMemory(c, i[1], i[2], Reg(c, i[3]), i[4])
      [] i[1] = "lu12i.w" -> SetReg(c, i[2], Const(Wrap(i[3] * 4096)))
      [] i[1] = "lu12i.w+ori" -> SetReg(c, i[2], i[3])
      [] i[1] = "lu32i.d" ->
            SetReg(c, i[2], IF Reg(c, i[2]) = Junk THEN Junk
                            ELSE Const(i[3] * 2 ^ IntBits + (Reg(c, i[2])[2] % (2 ^ IntBits))))
      [] i[1] = "la.local" -> SetReg(c, i[2], Const(GlobalAddress(i[3])))
      [] i[1] = "label" -> c
      [] OTHER -> SetReg(c, i[2], Result(c, i))

-----------------------------------------------------------------------------
(* Jumps and calls.  A function of the library takes its arguments from     *)
(* registers and leaves only $sp and $fp.                                   *)
Registers == [input |-> <<>>, output |-> <<"a0">>, outputFloat |-> <<"fa0">>]

Jumps == {"b", "bnez", "bl", "jr"}

LabelAt(code, label) == CHOOSE n \in DOMAIN code : code[n] = <<"label", label>>

EntryOf(code, name) == {n \in DOMAIN code : code[n] = <<"label", <<name, "entry", 0>>>>}

ExternalCall(c, name, args, results) ==
    [c EXCEPT !.log = Append(@, <<name, args>>),
              !.reg = results @@ [r \in {"sp", "fp"} |-> @[r]]]

CallExternal(c, name, registers) ==
    ExternalCall(c, name, [k \in DOMAIN registers |-> Reg(c, registers[k])],
                 "a0" :> IF name = "input" THEN Const(c.input) ELSE Junk)

Jump(code, c, i) ==
    CASE i[1] = "b" -> [c EXCEPT !.pc = LabelAt(code, i[2])]
      [] i[1] = "bnez" ->
            CASE Reg(c, i[2]) = Junk -> [c EXCEPT !.status = "stuck"]
              [] Reg(c, i[2]) = Const(0) -> [c EXCEPT !.pc = @ + 1]
              [] OTHER -> [c EXCEPT !.pc = LabelAt(code, i[3])]
      [] i[1] = "jr" ->
            IF Reg(c, i[2]) = Junk THEN [c EXCEPT !.status = "stuck"]
            ELSE [c EXCEPT !.pc = Reg(c, i[2])[2]]
      [] i[1] = "bl" ->
            IF EntryOf(code, i[2]) = {}
            THEN CallExternal([c EXCEPT !.pc = @ + 1], i[2], Registers[i[2]])
            ELSE [SetReg(c, "ra", Const(c.pc + 1)) EXCEPT
                    !.pc = CHOOSE n \in EntryOf(code, i[2]) : TRUE]

-----------------------------------------------------------------------------
(* The instructions up to and with the next jump, or up to the label of the *)
(* next block.                                                              *)
IsBlockLabel(i) == i[1] = "label" /\ i[2][2] = "bb"

Stops(code, from) ==
    {n \in from .. Len(code) : code[n][1] \in Jumps \/ (IsBlockLabel(code[n]) /\ n > from)}

RunTo(code, c, stop) ==
    LET ran == [FoldLeft(Exec, c, SubSeq(code, c.pc, stop - 1)) EXCEPT !.pc = stop]
    IN  IF ran.status # "runs" \/ code[stop][1] = "label" THEN ran
        ELSE Jump(code, ran, code[stop])

RunSegment(code, c) == RunTo(code, c, Min(Stops(code, c.pc)))
=============================================================================
