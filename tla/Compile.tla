------------------------------- MODULE Compile -------------------------------
(***************************************************************************)
(* The middle of cminusfc for one function: the builder, then the passes   *)
(* of a pipeline one after the other, as PassManager runs them.  At the    *)
(* end the function as it was built and as the passes left it run side by  *)
(* side, block by block.                                                   *)
(***************************************************************************)
EXTENDS Builder, BlockElim, Mem2Reg, ConstProp, DeadCode, LoopInvHoist, Gvn

CONSTANT Pipelines      \* of "elim", "mem2reg", "dead", "const", "hoist", "gvn",
                        \* by the options of the driver

(* Those of -mem2reg and -const-prop or -gvn, ... *)
BranchPipelines ==
    {<<"elim", "mem2reg", "dead", "const", "dead">>,
     <<"elim", "mem2reg", "dead", "dead", "gvn", "dead">>}

(* ... and of -mem2reg and -loop-inv-hoist, without and with -gvn. *)
LoopPipelines ==
    {<<"elim", "mem2reg", "dead", "hoist", "dead">>,
     <<"elim", "mem2reg", "dead", "dead", "gvn", "dead", "hoist", "dead">>}

VARIABLES
    pipeline,   \* the passes so far, the last one in progress; then "run"
    orig,       \* the function as it was built
    exec        \* the two executions

vars == <<ir, builderVars, elim, m2r, cp, dc, hoist, gvn, pipeline,
          orig, exec>>

Idle == <<>>

Building == pipeline = Idle

Passing(p) == ~Building /\ Last(pipeline) = p

CompileInit ==
    /\ BuilderInit
    /\ pipeline = Idle
    /\ elim = Idle /\ m2r = Idle /\ cp = Idle /\ dc = Idle /\ hoist = Idle /\ gvn = Idle
    /\ orig = Idle /\ exec = Idle

-----------------------------------------------------------------------------
(* The meaning of a block, for the function g and a machine with memory,    *)
(* values, the block it came from and the block it is at.                   *)
ValueOf(val, m) ==
    CASE IsConstant(val) -> val
      [] val[1] = "arg" -> m.args[val[2]]
      [] val \in DOMAIN m.env -> m.env[val]
      [] OTHER -> <<"missing">>

IncomingValue(phi, m) ==
    IF \E k \in DOMAIN phi.inc : phi.inc[k].from = m.from
    THEN ValueOf(phi.inc[CHOOSE k \in DOMAIN phi.inc : phi.inc[k].from = m.from].val, m)
    ELSE <<"missing">>

RunPhis(g, m) ==
    LET phis == g.phis[m.at]
        new == [id \in {PhiId(m.at, phis[i].var) : i \in DOMAIN phis} |->
                    IncomingValue(phis[CHOOSE i \in DOMAIN phis : phis[i].var = id[3]], m)]
    IN  [m EXCEPT !.env = new @@ @]

(* An operation on integers; on a value that nothing defined it has none. *)
Computed(op, vals) ==
    IF \A i \in DOMAIN vals : vals[i][1] = "const"
    THEN Const(IntResult(op, vals[1][2], vals[2][2]))
    ELSE Undef

RunInstr(m, inst) ==
    CASE inst.op = "store" -> [m EXCEPT !.mem[inst.var] = ValueOf(inst.args[1], m)]
      [] inst.op = "load" -> [m EXCEPT !.env = (inst.id :> m.mem[inst.var]) @@ @]
      [] OTHER ->
            LET result == Computed(inst.op, [i \in DOMAIN inst.args |-> ValueOf(inst.args[i], m)])
            IN  [m EXCEPT !.env = (inst.id :> result) @@ @]

(* A branch on a value that nothing defined ends the comparison. *)
RunBlock(g, machine) ==
    LET m == FoldLeft(RunInstr, RunPhis(g, machine), g.body[machine.at])
        t == g.term[m.at]
        val == ValueOf(t.val, m)
        next == CASE Len(t.to) = 0 -> 0
                  [] Len(t.to) = 1 -> t.to[1]
                  [] val = Const(0) -> t.to[2]
                  [] val = Const(1) -> t.to[1]
                  [] OTHER -> 0
    IN  [m EXCEPT !.at = next, !.from = m.at,
                  !.result = IF t.op = "ret" THEN val ELSE Undef]

Start(args) ==
    [at |-> Entry, from |-> 0, mem |-> [v \in Vars |-> Undef],
     env |-> <<>>, args |-> args, result |-> Undef]

-----------------------------------------------------------------------------
Ways == {Append(p, "run") : p \in Pipelines}

(* The next pass begins when the pass before it is done. *)
StageDone ==
    CASE Building -> built
      [] Passing("elim") -> ElimDone
      [] Passing("mem2reg") -> Mem2RegDone
      [] Passing("dead") -> DeadCodeDone
      [] Passing("const") -> ConstPropDone
      [] Passing("hoist") -> HoistDone
      [] Passing("gvn") -> GvnDone
      [] OTHER -> FALSE

Starts(p) == Last(pipeline') = p

(* The options are chosen where they begin to differ. *)
NextStage ==
    /\ StageDone
    /\ \E p \in Ways :
        /\ IsStrictPrefix(pipeline, p)
        /\ pipeline' = SubSeq(p, 1, Len(pipeline) + 1)
    /\ orig' = IF Building THEN ir ELSE orig
    /\ elim' = IF Starts("elim") THEN ElimStart ELSE Idle
    /\ m2r' = IF Starts("mem2reg") THEN Mem2RegStart ELSE Idle
    /\ cp' = IF Starts("const") THEN ConstPropStart ELSE Idle
    /\ dc' = IF Starts("dead") THEN DeadCodeStart({}) ELSE Idle
    /\ hoist' = IF Starts("hoist") THEN HoistStart ELSE Idle
    /\ gvn' = IF Starts("gvn") THEN GvnStart({}) ELSE Idle
    /\ UNCHANGED <<ir, builderVars, exec>>

Finished == Passing("run")

StartRun ==
    /\ Finished /\ exec = Idle
    /\ \E args \in [Params -> {Const(0), Const(1)}] :
            exec' = [orig |-> Start(args), opt |-> Start(args)]
    /\ UNCHANGED <<ir, builderVars, elim, m2r, cp, dc, hoist, gvn, pipeline, orig>>

RunBoth ==
    /\ exec # Idle
    /\ exec.orig.at # 0 /\ exec.opt.at # 0
    /\ exec' = [orig |-> RunBlock(orig, exec.orig), opt |-> RunBlock(ir, exec.opt)]
    /\ UNCHANGED <<ir, builderVars, elim, m2r, cp, dc, hoist, gvn, pipeline, orig>>

Ended == exec # Idle /\ (exec.orig.at = 0 \/ exec.opt.at = 0) /\ UNCHANGED vars

BuildStep ==
    Building /\ Build /\ UNCHANGED <<elim, m2r, cp, dc, hoist, gvn, pipeline, orig, exec>>

PassStep ==
    /\ \/ Passing("elim") /\ ElimStep /\ UNCHANGED <<m2r, cp, dc, hoist, gvn>>
       \/ Passing("mem2reg") /\ Mem2RegStep /\ UNCHANGED <<elim, cp, dc, hoist, gvn>>
       \/ Passing("const") /\ ConstPropStep /\ UNCHANGED <<elim, m2r, dc, hoist, gvn>>
       \/ Passing("dead") /\ DeadCodeStep /\ UNCHANGED <<elim, m2r, cp, hoist, gvn>>
       \/ Passing("hoist") /\ HoistStep /\ UNCHANGED <<elim, m2r, cp, dc, gvn>>
       \/ Passing("gvn") /\ GvnStep /\ UNCHANGED <<elim, m2r, cp, dc, hoist>>
    /\ UNCHANGED <<builderVars, pipeline, orig, exec>>

Next == BuildStep \/ PassStep \/ NextStage \/ StartRun \/ RunBoth \/ Ended

(* The passes are sequential calls: they take their next step while there is *)
(* one.  This is WF_vars(PassStep \/ NextStage) with ENABLED spelled out: no *)
(* step of a pass leaves everything as it is, and a pass that had no step    *)
(* and was not done would be a deadlock.                                     *)
PassesRun == []<>(~built \/ Finished) \/ []<><<PassStep \/ NextStage>>_vars

Spec == CompileInit /\ [][Next]_vars /\ PassesRun

-----------------------------------------------------------------------------
(* Once Mem2Reg is done every phi has exactly one pair for every            *)
(* predecessor, through the removal of phis and of blocks too.              *)
PhisAgree == ~Passing("mem2reg") => PhisMatchPredecessors(ir)

(* The phis of b, and what the first i instructions of b define. *)
DefinedIn(b, i) ==
    {PhiId(b, ir.phis[b][k].var) : k \in DOMAIN ir.phis[b]}
    \cup {ir.body[b][k].id : k \in {n \in 1 .. i : Defines(ir.body[b][n])}}

(* The value is defined before the instruction after the first i of b. *)
Available(val, b, i, dom) ==
    \/ val[1] \notin {"phi", "load", "op"}
    \/ val \in DefinedIn(b, i)
    \/ \E d \in Blocks \ {b} :
            b \in dom[d] /\ val \in DefinedIn(d, Len(ir.body[d]))

AvailableAtEnd(val, b, dom) == Available(val, b, Len(ir.body[b]), dom)

(* SSA form: whenever a pass has ended every value that a reachable block   *)
(* uses is defined by an instruction that is still there and comes before   *)
(* the use on every path; the values in the pairs of a phi are used at the   *)
(* end of the predecessors they come from.                                  *)
SsaForm ==
    ~Building /\ StageDone =>
        LET dom == Dominated(CfgOf(ir), Entry)
            live == ReachableIn(ir)
        IN  \A b \in live :
                /\ AvailableAtEnd(ir.term[b].val, b, dom)
                /\ \A i \in DOMAIN ir.body[b] :
                        \A val \in Operands(ir.body[b][i]) : Available(val, b, i - 1, dom)
                /\ \A i \in DOMAIN ir.phis[b] : \A k \in DOMAIN ir.phis[b][i].inc :
                        LET pair == ir.phis[b][i].inc[k]
                        IN  pair.from \in live => AvailableAtEnd(pair.val, pair.from, dom)

(* After hoisting no loop holds an operation on a value that it does not     *)
(* define: what was hoisted from an inner loop leaves the outer loop too.   *)
InvariantsLeave ==
    Passing("hoist") /\ HoistDone =>
        \A loop \in hoist.loops : \A b \in loop.blocks : \A i \in DOMAIN ir.body[b] :
            IsMovable(ir.body[b][i]) =>
                Operands(ir.body[b][i]) \cap DefinedInLoop(loop) # {}

(* Every pass ends: the worklists of UnreachableBlockElim and Mem2Reg run   *)
(* dry on every graph, those with loops too, the rounds of DeadCode come to *)
(* one that changes nothing, and the walks of rename and of analyzeGVN and  *)
(* the recursion over the loops return.                                     *)
PassesEnd == built ~> Finished

(* The optimized function takes the same way through the blocks and returns *)
(* the same value as the function that was built, for all arguments, as     *)
(* long as the latter does not use a variable nothing was assigned to.      *)
SameBehaviour ==
    exec # Idle =>
        \/ exec.orig.at = 0 /\ exec.orig.result = Undef
        \/ exec.orig.at = exec.opt.at /\ exec.orig.result = exec.opt.result
=============================================================================
