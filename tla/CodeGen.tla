------------------------------- MODULE CodeGen -------------------------------
(***************************************************************************)
(* CodeGen, the stack code generator: for every function the frame, the    *)
(* prologue, the code of its blocks, one instruction at a time, and the    *)
(* epilogue.  Every value lives in its slot; the code of an instruction    *)
(* loads the operands into registers and stores the result.                *)
(*                                                                         *)
(* An instruction of the target is a tuple of what the line of assembly    *)
(* has.  The halves of a 64-bit number, the 32 bits of a float and the 20  *)
(* bits of an immediate scale with IntBits; immediates of 12 bits and the  *)
(* offsets in a frame do not.                                              *)
(***************************************************************************)
EXTENDS Ir, Arith, Frame

VARIABLES
    unit,       \* the module: its functions with a body
    context,    \* the function being compiled, the place in it, next_phi_edge_id
    output      \* the code so far

NoContext == [func |-> 0, block |-> 0, inst |-> 0, next_phi_edge_id |-> 0]

Func == unit.functions[context.func]

(* Value::get_type *)
TypeOf(f, v) ==
    CASE v[1] = "const" -> "i32"
      [] v[1] = "bool" -> "i1"
      [] v[1] \in {"float", "nan"} -> "float"
      [] v[1] = "undef" -> v[2]
      [] v[1] = "global" -> "ptr"
      [] v[1] = "arg" -> f.params[v[2]]
      [] OTHER -> f.type[v]

(* Type::get_size *)
SizeOf == [i1 |-> 1, i32 |-> 4, float |-> 4, ptr |-> 8]

-----------------------------------------------------------------------------
(* Numbers and slots, for the frame of the current function. *)
HighBits == IntBits - 12

(* Mutant of IS_IMM_12: one bit more. *)
IS_IMM_13(x) == x \in -4096 .. 4095

IS_IMM_12(x) == x \in -2048 .. 2047

LoadLargeInt32(val, reg) ==
    << <<"lu12i.w", reg, val \div 4096>>, <<"ori", reg, reg, val % 4096>> >>

LoadInt32(val, reg) ==
    IF IS_IMM_12(val) THEN << <<"addi.w", reg, "zero", val>> >> ELSE LoadLargeInt32(val, reg)

LoadLargeInt64(val, reg) ==
    LET high_32 == val \div (2 ^ IntBits)
    IN  LoadLargeInt32(Wrap(val), reg)
        \o << <<"lu32i.d", reg, Signed(high_32, HighBits)>>,
              <<"lu52i.d", reg, reg, high_32 \div (2 ^ HighBits)>> >>

LoadFloatImm(val, reg) ==
    << <<"lu12i.w+ori", "t8", val>>, <<"movgr2fr.w", reg, "t8">> >>

LoadOp == [i1 |-> "ld.b", i32 |-> "ld.w", ptr |-> "ld.d", float |-> "fld.s"]
StoreOp == [i1 |-> "st.b", i32 |-> "st.w", ptr |-> "st.d", float |-> "fst.s"]

(* A load from a slot or a store to it: an offset that the instruction      *)
(* cannot hold goes through $t8.                                            *)
Access(op, offset, reg) ==
    IF IS_IMM_12(offset) THEN << <<op, reg, "fp", offset>> >>
    ELSE LoadLargeInt64(offset, "t8")
         \o << <<"add.d", "t8", "fp", "t8">>, <<op, reg, "t8", 0>> >>

LoadFromStack(type, offset, reg) == Access(LoadOp[type], offset, reg)
StoreToStack(type, offset, reg) == Access(StoreOp[type], offset, reg)

LoadToGreg(v, reg) ==
    CASE v[1] = "undef" -> LoadInt32(0, reg)
      [] v[1] \in {"const", "bool"} -> LoadInt32(v[2], reg)
      [] v[1] = "global" -> << <<"la.local", reg, v[2]>> >>
      [] OTHER -> LoadFromStack(TypeOf(Func, v), frame.offset_map[v], reg)

LoadToFreg(v, reg) ==
    CASE v[1] = "undef" -> LoadFloatImm(Float(0), reg)
      [] v[1] \in {"float", "nan"} -> LoadFloatImm(v, reg)
      [] OTHER -> LoadFromStack("float", frame.offset_map[v], reg)

IsFloatValue(v) == TypeOf(Func, v) = "float"

Load1(v, greg, freg) == IF IsFloatValue(v) THEN LoadToFreg(v, freg) ELSE LoadToGreg(v, greg)

(* store_from_greg and store_from_freg *)
StoreFrom(v, reg) == StoreToStack(TypeOf(Func, v), frame.offset_map[v], reg)

-----------------------------------------------------------------------------
(* The code of the parts of a function. *)
Label(f, kind, n) == <<"label", <<f.name, kind, n>>>>
JumpTo(f, kind, n) == << <<"b", <<f.name, kind, n>>>> >>

GArg == <<"a0", "a1", "a2", "a3", "a4", "a5", "a6", "a7">>
FArg == <<"fa0", "fa1", "fa2", "fa3", "fa4", "fa5", "fa6", "fa7">>

(* The register of argument i: the next of its class. *)
ArgRegister(types, i) ==
    LET before(float) == Cardinality({j \in 1 .. i : (types[j] = "float") = float})
    IN  IF types[i] = "float" THEN FArg[before(TRUE)] ELSE GArg[before(FALSE)]

Prologue ==
    << <<"st.d", "ra", "sp", -8>>, <<"st.d", "fp", "sp", -16>>, <<"addi.d", "fp", "sp", 0>> >>
    \o (IF IS_IMM_12(-FrameSize) THEN << <<"addi.d", "sp", "sp", -FrameSize>> >>
        ELSE LoadLargeInt64(FrameSize, "t0") \o << <<"sub.d", "sp", "sp", "t0">> >>)
    \o FlattenSeq([i \in DOMAIN Func.params |-> StoreFrom(Arg(i), ArgRegister(Func.params, i))])

Epilogue ==
    << Label(Func, "exit", 0), <<"addi.d", "sp", "fp", 0>>,
       <<"ld.d", "ra", "sp", -8>>, <<"ld.d", "fp", "sp", -16>>, <<"jr", "ra">> >>

(* collect_phi_copies *)
PhiCopies(pred, succ) ==
    [i \in DOMAIN Func.ir.phis[succ] |->
        LET phi == Func.ir.phis[succ][i]
        IN  [phi |-> PhiId(succ, phi.var),
             source |-> (CHOOSE pair \in ToSet(phi.inc) : pair.from = pred).val]]

PhiReg(phi) == IF IsFloatValue(phi) THEN "ft0" ELSE "t0"

(* Mutant of ParallelCopies: one copy after the other. *)
CopiesInSequence(copies) ==
    FlattenSeq([i \in DOMAIN copies |->
        Load1(copies[i].source, "t0", "ft0") \o StoreFrom(copies[i].phi, PhiReg(copies[i].phi))])

(* emit_parallel_phi_copies: all sources to the second slots of the phis,    *)
(* then from there to the first.                                            *)
CopyIn(copy) ==
    Load1(copy.source, "t0", "ft0")
    \o StoreToStack(TypeOf(Func, copy.phi), frame.phi_temp_offset_map[copy.phi], PhiReg(copy.phi))

CopyOut(copy) ==
    LoadFromStack(TypeOf(Func, copy.phi), frame.phi_temp_offset_map[copy.phi], PhiReg(copy.phi))
    \o StoreFrom(copy.phi, PhiReg(copy.phi))

ParallelCopies(copies) ==
    FlattenSeq([i \in DOMAIN copies |-> CopyIn(copies[i])])
    \o FlattenSeq([i \in DOMAIN copies |-> CopyOut(copies[i])])

Goto(pred, succ) == ParallelCopies(PhiCopies(pred, succ)) \o JumpTo(Func, "bb", succ)

-----------------------------------------------------------------------------
Block == Func.ir.blocks[context.block]
Body == Func.ir.body[Block]
Inst == Body[context.inst]
Term == Func.ir.term[Block]

Emit(code) == output' = output \o code

AtInst(ops) ==
    /\ context.func # 0 /\ ~Allocating
    /\ context.block \in DOMAIN Func.ir.blocks /\ context.inst \in DOMAIN Body
    /\ Inst.op \in ops

GoOn ==
    /\ context' = [context EXCEPT !.inst = @ + 1]
    /\ UNCHANGED <<unit, frame>>

TwoGregs == LoadToGreg(Inst.args[1], "t0") \o LoadToGreg(Inst.args[2], "t1")
TwoFregs == LoadToFreg(Inst.args[1], "ft0") \o LoadToFreg(Inst.args[2], "ft1")

BinaryOp == [add |-> "add.w", sub |-> "sub.w", mul |-> "mul.w", sdiv |-> "div.w"]
FloatBinaryOp == [fadd |-> "fadd.s", fsub |-> "fsub.s", fmul |-> "fmul.s", fdiv |-> "fdiv.s"]

GenBinary ==
    /\ AtInst(IntOps)
    /\ Emit(TwoGregs \o << <<BinaryOp[Inst.op], "t2", "t0", "t1">> >>
            \o StoreFrom(Inst.id, "t2"))
    /\ GoOn

GenFloatBinary ==
    /\ AtInst(FloatOps)
    /\ Emit(TwoFregs \o << <<FloatBinaryOp[Inst.op], "ft2", "ft0", "ft1">> >>
            \o StoreFrom(Inst.id, "ft2"))
    /\ GoOn

GenAlloca ==
    /\ AtInst({"alloca"})
    /\ LET offset == frame.offset_map[Inst.id] - Inst.area
       IN  Emit((IF IS_IMM_12(offset) THEN << <<"addi.d", "t0", "fp", offset>> >>
                 ELSE LoadLargeInt64(offset, "t0") \o << <<"add.d", "t0", "fp", "t0">> >>)
                \o StoreFrom(Inst.id, "t0"))
    /\ GoOn

GenLoad ==
    /\ AtInst({"load"})
    /\ LET reg == IF Inst.type = "float" THEN "ft0" ELSE "t1"
       IN  Emit(LoadToGreg(Inst.args[1], "t0") \o << <<LoadOp[Inst.type], reg, "t0", 0>> >>
                \o StoreFrom(Inst.id, reg))
    /\ GoOn

GenStore ==
    /\ AtInst({"store"})
    /\ LET val == Inst.args[1]
       IN  Emit(LoadToGreg(Inst.args[2], "t0") \o Load1(val, "t1", "ft0")
                \o << <<StoreOp[TypeOf(Func, val)], IF IsFloatValue(val) THEN "ft0" ELSE "t1",
                        "t0", 0>> >>)
    /\ GoOn

(* The tests that the target has, and their opposites. *)
Flip == << <<"sltui", "t0", "t0", 1>> >>
IntTest ==
    [eq |-> << <<"xor", "t0", "t0", "t1">> >> \o Flip,
     ne |-> << <<"xor", "t0", "t0", "t1">>, <<"sltu", "t0", "zero", "t0">> >>,
     lt |-> << <<"slt", "t0", "t0", "t1">> >>,
     gt |-> << <<"slt", "t0", "t1", "t0">> >>,
     le |-> << <<"slt", "t0", "t1", "t0">> >> \o Flip,
     ge |-> << <<"slt", "t0", "t0", "t1">> >> \o Flip]

GenIcmp ==
    /\ AtInst(IntTests)
    /\ Emit(TwoGregs \o IntTest[Inst.op] \o StoreFrom(Inst.id, "t0"))
    /\ GoOn

FloatTest ==
    [feq |-> <<"fcmp.seq.s", "fcc0", "ft0", "ft1">>, fne |-> <<"fcmp.sne.s", "fcc0", "ft0", "ft1">>,
     flt |-> <<"fcmp.slt.s", "fcc0", "ft0", "ft1">>, fgt |-> <<"fcmp.slt.s", "fcc0", "ft1", "ft0">>,
     fle |-> <<"fcmp.sle.s", "fcc0", "ft0", "ft1">>, fge |-> <<"fcmp.sle.s", "fcc0", "ft1", "ft0">>]

GenFcmp ==
    /\ AtInst(FloatTests)
    /\ Emit(TwoFregs
            \o << FloatTest[Inst.op], <<"movcf2gr", "t0", "fcc0">> >> \o StoreFrom(Inst.id, "t0"))
    /\ GoOn

GenZext ==
    /\ AtInst({"zext"})
    /\ Emit(LoadToGreg(Inst.args[1], "t0") \o << <<"bstrpick.w", "t0", "t0", 0, 0>> >>
            \o StoreFrom(Inst.id, "t0"))
    /\ GoOn

GenSitofp ==
    /\ AtInst({"sitofp"})
    /\ Emit(LoadToGreg(Inst.args[1], "t0")
            \o << <<"movgr2fr.w", "ft0", "t0">>, <<"ffint.s.w", "ft1", "ft0">> >>
            \o StoreFrom(Inst.id, "ft1"))
    /\ GoOn

GenFptosi ==
    /\ AtInst({"fptosi"})
    /\ Emit(LoadToFreg(Inst.args[1], "ft0")
            \o << <<"ftintrz.w.s", "ft1", "ft0">>, <<"movfr2gr.s", "t0", "ft1">> >>
            \o StoreFrom(Inst.id, "t0"))
    /\ GoOn

PassArguments(types) ==
    FlattenSeq([i \in DOMAIN types |->
        Load1(Inst.args[i], ArgRegister(types, i), ArgRegister(types, i))])

GenCall ==
    /\ AtInst({"call"})
    /\ Emit(PassArguments([i \in DOMAIN Inst.args |-> TypeOf(Func, Inst.args[i])])
            \o << <<"bl", Inst.callee>> >>
            \o (IF ~Defines(Inst) THEN <<>>
                ELSE StoreFrom(Inst.id, IF Inst.type = "float" THEN "fa0" ELSE "a0")))
    /\ GoOn

(* sizes: of what each index counts. *)
AddIndex(i) ==
    LoadToGreg(Inst.args[i + 1], "t1") \o LoadInt32(Inst.sizes[i], "t2")
    \o << <<"mul.d", "t1", "t1", "t2">>, <<"add.d", "t0", "t0", "t1">> >>

GenGep ==
    /\ AtInst({"gep"})
    /\ Emit(LoadToGreg(Inst.args[1], "t0")
            \o FlattenSeq([i \in DOMAIN Inst.sizes |-> AddIndex(i)])
            \o StoreFrom(Inst.id, "t0"))
    /\ GoOn

-----------------------------------------------------------------------------
AtTerm ==
    /\ context.func # 0 /\ ~Allocating
    /\ context.block \in DOMAIN Func.ir.blocks /\ context.inst = Len(Body) + 1

(* The terminator, with the label of the next block or the epilogue after it. *)
BlockEnd(code) ==
    /\ Emit(code \o (IF context.block < Len(Func.ir.blocks)
                     THEN << Label(Func, "bb", Func.ir.blocks[context.block + 1]) >>
                     ELSE Epilogue))
    /\ UNCHANGED <<unit, frame>>

NextBlock == [context EXCEPT !.block = @ + 1, !.inst = 1]

(* A function without a result returns 0, its val is Undef. *)
GenRet ==
    /\ AtTerm /\ Term.op = "ret"
    /\ BlockEnd((IF Func.ret = "void" THEN LoadInt32(0, "a0") ELSE Load1(Term.val, "a0", "fa0"))
                \o JumpTo(Func, "exit", 0))
    /\ context' = NextBlock

GenJump ==
    /\ AtTerm /\ Term.op = "br" /\ Len(Term.to) = 1
    /\ BlockEnd(Goto(Block, Term.to[1]))
    /\ context' = NextBlock

(* The copies of the true edge are behind a label of their own. *)
GenCondBr ==
    /\ AtTerm /\ Term.op = "br" /\ Len(Term.to) = 2
    /\ LET edge == context.next_phi_edge_id
       IN  BlockEnd(LoadToGreg(Term.val, "t0")
                    \o << <<"bnez", "t0", <<Func.name, "edge", edge>>>> >>
                    \o Goto(Block, Term.to[2])
                    \o << Label(Func, "edge", edge) >>
                    \o Goto(Block, Term.to[1]))
    /\ context' = [NextBlock EXCEPT !.next_phi_edge_id = @ + 1]

-----------------------------------------------------------------------------
(* What allocate goes over: the arguments and the instructions. *)
Slot(v, type, phi, area) == [value |-> v, size |-> SizeOf[type], phi |-> phi, area |-> area]

SlotsOfBlock(f, b) ==
    LET body == SelectSeq(f.ir.body[b], Defines)
    IN  [i \in DOMAIN f.ir.phis[b] |->
            LET id == PhiId(b, f.ir.phis[b][i].var) IN Slot(id, f.type[id], TRUE, 0)]
        \o [i \in DOMAIN body |->
            Slot(body[i].id, body[i].type, FALSE, IF body[i].op = "alloca" THEN body[i].area ELSE 0)]

SlotsOf(f) ==
    [i \in DOMAIN f.params |-> Slot(Arg(i), f.params[i], FALSE, 0)]
    \o FoldLeft(LAMBDA all, b : all \o SlotsOfBlock(f, b), <<>>, f.ir.blocks)

FunctionDone == context.func # 0 => context.block > Len(Func.ir.blocks)

CodeGenStart == context = NoContext /\ output = <<>> /\ frame = FrameStart(<<>>)

(* The next function: its context is cleared, ... *)
BeginFunction ==
    /\ FunctionDone /\ context.func < Len(unit.functions)
    /\ LET f == unit.functions[context.func + 1]
       IN  /\ frame' = FrameStart(SlotsOf(f))
           /\ Emit(<< Label(f, "entry", 0) >>)
    /\ context' = [NoContext EXCEPT !.func = context.func + 1]
    /\ UNCHANGED unit

(* ... then its frame is allocated, ... *)
Allocate == context.func # 0 /\ FrameStep /\ UNCHANGED <<unit, context, output>>

(* ... and the code begins. *)
GenPrologue ==
    /\ context.func # 0 /\ ~Allocating /\ context.block = 0
    /\ frame' = [frame EXCEPT !.size = FrameSize]
    /\ Emit(Prologue \o << Label(Func, "bb", Func.ir.blocks[1]) >>)
    /\ context' = NextBlock
    /\ UNCHANGED unit

CodeGenDone == FunctionDone /\ context.func = Len(unit.functions)

CodeGenStep ==
    \/ BeginFunction \/ Allocate \/ GenPrologue
    \/ GenBinary \/ GenFloatBinary \/ GenAlloca \/ GenLoad \/ GenStore
    \/ GenIcmp \/ GenFcmp \/ GenZext \/ GenSitofp \/ GenFptosi \/ GenCall \/ GenGep
    \/ GenRet \/ GenJump \/ GenCondBr

=============================================================================
