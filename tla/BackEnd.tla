-------------------------------- MODULE BackEnd --------------------------------
(***************************************************************************)
(* Passes on one function of a program in SSA form, then CodeGen on all of *)
(* them.  At the end three executions are compared: the program as it was, *)
(* as the passes left it, and the code of the latter, which goes from      *)
(* block to block with it.                                                 *)
(***************************************************************************)
EXTENDS ConstProp, Gvn, DeadCode, LoopInvHoist, SimplifyPhi, SplitCriticalEdges, Effects,
        CodeGen, IrMeaning, Machine

CONSTANTS
    Programs,       \* their functions, main the last
    Pipelines,      \* of "const", "gvn", "dead", "hoist", "simplify", "split"
    Inputs          \* what input() returns

VARIABLES
    program,    \* as it was
    pipeline,   \* the passes so far, the last one in progress; then "code", "run"
    frames,     \* the frames of the functions compiled
    exec        \* the executions

passVars == <<cp, gvn, dc, hoist, simp, split>>
codeVars == <<unit, context, output, frame, frames>>
vars == <<ir, passVars, codeVars, program, pipeline, exec>>

Idle == <<>>

MainOf(functions) == Len(functions)

(* Value::get_type of what the instructions of a function define. *)
TypesOf(g) ==
    LET blocks == ToSet(g.blocks)
        insts == UNION {{i \in ToSet(g.body[b]) : Defines(i)} : b \in blocks}
        phis == UNION {{<<b, phi>> : phi \in ToSet(g.phis[b])} : b \in blocks}
    IN  [id \in {i.id : i \in insts} |-> (CHOOSE i \in insts : i.id = id).type]
        @@ [id \in {PhiId(p[1], p[2].var) : p \in phis} |->
                (CHOOSE p \in phis : PhiId(p[1], p[2].var) = id)[2].type]

(* The functions of the program, with g for main. *)
FunctionsWith(g) ==
    [program.functions EXCEPT ![MainOf(program.functions)].ir = g]

UnitWith(g) ==
    [functions |-> [i \in DOMAIN program.functions |->
        LET f == FunctionsWith(g)[i]
        IN  [name |-> f.name, params |-> f.params, ret |-> f.ret, ir |-> f.ir,
             type |-> TypesOf(f.ir)]]]

BackEndInit ==
    /\ program \in Programs
    /\ ir = program.functions[MainOf(program.functions)].ir
    /\ pipeline = Idle
    /\ cp = Idle /\ gvn = Idle /\ dc = Idle /\ hoist = Idle /\ simp = Idle /\ split = Idle
    /\ unit = Idle /\ CodeGenStart /\ frames = <<>>
    /\ exec = Idle

-----------------------------------------------------------------------------
Passing(p) == pipeline # Idle /\ Last(pipeline) = p

StageDone ==
    CASE pipeline = Idle -> TRUE
      [] Passing("const") -> ConstPropDone
      [] Passing("gvn") -> GvnDone
      [] Passing("dead") -> DeadCodeDone
      [] Passing("hoist") -> HoistDone
      [] Passing("simplify") -> SimplifyDone
      [] Passing("split") -> SplitDone
      [] Passing("code") -> CodeGenDone
      [] OTHER -> FALSE

Starts(p) == Last(pipeline') = p

NextStage ==
    /\ StageDone
    /\ \E p \in Pipelines :
        LET way == p \o <<"code", "run">>
        IN  /\ IsStrictPrefix(pipeline, way)
            /\ pipeline' = SubSeq(way, 1, Len(pipeline) + 1)
    /\ cp' = IF Starts("const") THEN ConstPropStart ELSE Idle
    /\ gvn' = IF Starts("gvn") THEN GvnStart(PureNames(program.functions)) ELSE Idle
    /\ dc' = IF Starts("dead") THEN DeadCodeStart(PureNames(program.functions)) ELSE Idle
    /\ hoist' = IF Starts("hoist") THEN HoistStart ELSE Idle
    /\ simp' = IF Starts("simplify") THEN SimplifyStart ELSE Idle
    /\ split' = IF Starts("split") THEN SplitStart ELSE Idle
    /\ unit' = IF Starts("code") THEN UnitWith(ir) ELSE unit
    /\ UNCHANGED <<ir, context, output, frame, frames, program, exec>>

PassStep ==
    /\ \/ Passing("const") /\ ConstPropStep /\ UNCHANGED <<gvn, dc, hoist, simp, split>>
       \/ Passing("gvn") /\ GvnStep /\ UNCHANGED <<cp, dc, hoist, simp, split>>
       \/ Passing("dead") /\ DeadCodeStep /\ UNCHANGED <<cp, gvn, hoist, simp, split>>
       \/ Passing("hoist") /\ HoistStep /\ UNCHANGED <<cp, gvn, dc, simp, split>>
       \/ Passing("simplify") /\ SimplifyStep /\ UNCHANGED <<cp, gvn, dc, hoist, split>>
       \/ Passing("split") /\ SplitStep /\ UNCHANGED <<cp, gvn, dc, hoist, simp>>
    /\ UNCHANGED <<codeVars, program, pipeline, exec>>

CodeStep ==
    /\ Passing("code") /\ CodeGenStep
    /\ frames' = IF context.block = 0 /\ context'.block = 1 THEN Append(frames, frame') ELSE frames
    /\ UNCHANGED <<ir, passVars, program, pipeline, exec>>

-----------------------------------------------------------------------------
(* The executions.  The one of the program as it was comes first; then that *)
(* of the passed program takes a step, to the next block, and the code      *)
(* follows up to the label of a block.                                      *)
StartRun ==
    /\ Passing("run") /\ exec = Idle
    /\ \E input \in Inputs :
        exec' = [turn |-> "orig",
                 orig |-> StartIr(program.functions, input), opt |-> StartIr(unit.functions, input),
                 code |-> StartMachine(CHOOSE n \in EntryOf(output, "main") : TRUE, input)]
    /\ UNCHANGED <<ir, passVars, codeVars, program, pipeline>>

RunOrig ==
    /\ exec # Idle /\ exec.turn = "orig"
    /\ exec' = IF exec.orig.status = "runs"
               THEN [exec EXCEPT !.orig = StepIr(program.functions, @)]
               ELSE [exec EXCEPT !.turn = "code"]
    /\ UNCHANGED <<ir, passVars, codeVars, program, pipeline>>

AtBlock(m) == m.status = "runs" => Top(m).next = 1

RunOpt ==
    /\ exec # Idle /\ exec.turn = "opt"
    /\ exec.opt.status = "runs"
    /\ LET after == StepIr(unit.functions, exec.opt)
       IN  exec' = [exec EXCEPT !.opt = after, !.turn = IF AtBlock(after) THEN "code" ELSE "opt"]
    /\ UNCHANGED <<ir, passVars, codeVars, program, pipeline>>

CodeAtBlock(c) == c.status = "runs" => c.pc = 0 \/ IsBlockLabel(output[c.pc])

RunCode ==
    /\ exec # Idle /\ exec.turn = "code"
    /\ exec.code.status = "runs" /\ exec.code.pc # 0
    /\ LET after == RunSegment(output, exec.code)
       IN  exec' = [exec EXCEPT !.code = after, !.turn = IF CodeAtBlock(after) THEN "opt" ELSE "code"]
    /\ UNCHANGED <<ir, passVars, codeVars, program, pipeline>>

RunsEnd ==
    /\ exec # Idle /\ exec.turn # "orig"
    /\ \/ exec.turn = "opt" /\ exec.opt.status # "runs"
       \/ exec.code.status # "runs"
       \/ exec.code.pc = 0

Trapped == Passing("const") /\ cp.phase = "trap"

Ended == (RunsEnd \/ Trapped) /\ UNCHANGED vars

Next == PassStep \/ CodeStep \/ NextStage \/ StartRun \/ RunOrig \/ RunOpt \/ RunCode \/ Ended

Spec == BackEndInit /\ [][Next]_vars

-----------------------------------------------------------------------------
(* What the code has for a value of the program. *)
FrameAt(m, d) == frames[m.calls[d].fn]

FpAt(m, d) == StackTop - Sum([k \in 1 .. d - 1 |-> FrameAt(m, k).size])

AddressOf(m, ptr) ==
    IF ptr[2][1] = "global" THEN GlobalAddress(ptr[2][2]) + ptr[3]
    ELSE FpAt(m, ptr[2][2]) + FrameAt(m, ptr[2][2]).areas[ptr[2][3]] + ptr[3]

Agrees(val, other) == IsUndef(val) \/ val = other

Represents(m, word, val) ==
    CASE val[1] = "bool" -> word = Const(val[2])
      [] val[1] = "ptr" -> word = Const(AddressOf(m, val))
      [] OTHER -> Agrees(val, word)

HoldsAt(m, mem, addr, val) ==
    ~IsUndef(val) => addr \in DOMAIN mem /\ Represents(m, mem[addr].val, val)

(* Whenever the code of the passed program is at the label of a block every  *)
(* value that an activation has computed is in its slot - the argument in   *)
(* the slot of the argument, the value of a phi in that of the phi - and     *)
(* what a pointer points to is at that address: no copy, store, call or     *)
(* return of the code has written anywhere else.                            *)
SlotsHoldValues ==
    exec # Idle /\ exec.turn = "opt" /\ exec.opt.status = "runs" /\ AtBlock(exec.opt) =>
        LET m == exec.opt
            mem == exec.code.mem
        IN  /\ exec.code.pc # 0
            /\ output[exec.code.pc]
                    = Label(unit.functions[Top(m).fn], "bb", Top(m).at)
            /\ exec.code.reg["fp"] = Const(FpAt(m, Len(m.calls)))
            /\ exec.code.reg["sp"] = Const(FpAt(m, Len(m.calls) + 1))
            /\ \A d \in DOMAIN m.calls : \A v \in DOMAIN m.calls[d].env :
                    HoldsAt(m, mem, FpAt(m, d) + FrameAt(m, d).offset_map[v], m.calls[d].env[v])
            /\ \A p \in DOMAIN m.mem : HoldsAt(m, mem, AddressOf(m, p), m.mem[p])

SameLog(m, log, other) ==
    /\ Len(log) = Len(other)
    /\ \A k \in DOMAIN log :
        /\ log[k][1] = other[k][1]
        /\ \A i \in DOMAIN log[k][2] : Represents(m, other[k][2][i], log[k][2][i])

(* The program as it was, as the passes left it and its code call the        *)
(* functions of the runtime library in the same order with the same         *)
(* arguments and return the same value, and the code leaves $sp and $fp as   *)
(* it found them; as long as the program as it was has a meaning.           *)
SameResult ==
    exec # Idle /\ RunsEnd /\ exec.orig.status = "ends" =>
        LET float == exec.opt.result[1] \in {"float", "nan"}
        IN  /\ exec.opt.status = "ends"
            /\ exec.code.status = "runs" /\ exec.code.pc = 0
            /\ Agrees(exec.orig.result, exec.opt.result)
            /\ Represents(exec.opt, Reg(exec.code, IF float THEN "fa0" ELSE "a0"), exec.opt.result)
            /\ Len(exec.orig.log) = Len(exec.opt.log)
            /\ \A k \in DOMAIN exec.orig.log :
                /\ exec.orig.log[k][1] = exec.opt.log[k][1]
                /\ \A i \in DOMAIN exec.orig.log[k][2] :
                        Agrees(exec.orig.log[k][2][i], exec.opt.log[k][2][i])
            /\ SameLog(exec.opt, exec.opt.log, exec.code.log)
            /\ exec.code.reg["sp"] = Const(StackTop) /\ exec.code.reg["fp"] = Const(-1)

(* Every immediate operand fits the field of its instruction, whatever the   *)
(* constants of the program, the sizes of arrays and of frames are.         *)
Fields ==
    [si12 |-> -2048 .. 2047, ui12 |-> 0 .. 4095,
     si20 |-> -(2 ^ (HighBits - 1)) .. 2 ^ (HighBits - 1) - 1]

FieldOf(op) ==
    CASE op \in {"addi.w", "addi.d", "sltui", "lu52i.d"} \cup DOMAIN Width -> Fields.si12
      [] op = "ori" -> Fields.ui12
      [] op \in {"lu12i.w", "lu32i.d"} -> Fields.si20

ImmediatesFit ==
    Passing("code") /\ CodeGenDone =>
        \A n \in DOMAIN output :
            output[n][1] \in {"addi.w", "addi.d", "sltui", "lu52i.d", "ori", "lu12i.w", "lu32i.d"}
                             \cup DOMAIN Width
                => Last(output[n]) \in FieldOf(output[n][1])
=============================================================================
