---------------------------- MODULE PassManager -----------------------------
(***************************************************************************)
(* The pass manager and the driver's pipeline: passes run one after the    *)
(* other, request analyses that are computed on first use and shared, and  *)
(* declare which analyses survive them.                                    *)
(*                                                                         *)
(* Of the IR only what the cached results depend on is kept: a version of  *)
(* the control-flow graph, and for every function the global loads, the    *)
(* global stores and the calls in it.  hot holds what an execution may     *)
(* reach; cold what sits in blocks that no execution reaches, those behind *)
(* a constant condition included; unlinked the calls in blocks that were   *)
(* taken out of the function but keep their entries in the use lists.      *)
(***************************************************************************)
EXTENDS Naturals, Sequences, FiniteSets, Purity

CONSTANTS
    Functions,  \* the functions of the module
    Main,       \* main
    Declared,   \* functions without a body: the runtime library
    NotCached,  \* no entry in analyses_
    Programs    \* the contents of the module before the pipeline

Items == {"load", "store"} \cup Functions

ASSUME PassManagerAssumption ==
    /\ Main \in Functions \ Declared /\ Declared \subseteq Functions
    /\ {"load", "store"} \cap Functions = {}
    /\ \A p \in Programs : {p.hot, p.cold} \subseteq [Functions -> SUBSET Items]

Passes == {"UnreachableBlockElim", "Mem2Reg", "DeadCode", "ConstPropagation",
           "GlobalValueNumbering", "LoopInvHoist"}
Analyses == {"Dominators", "LoopInfo", "FuncInfo"}

VARIABLES
    pipeline,   \* the passes still to run
    ir,         \* the module
    cache       \* PassManager::analyses_

vars == <<pipeline, ir, cache>>

(* The driver's pipelines: gvn is refused without mem2reg. *)
Pipeline(mem2reg, const_prop, gvn, loop_inv_hoist) ==
    <<"UnreachableBlockElim">>
    \o (IF mem2reg THEN <<"Mem2Reg", "DeadCode">> ELSE <<>>)
    \o (IF const_prop THEN <<"ConstPropagation", "DeadCode">> ELSE <<>>)
    \o (IF gvn THEN <<"DeadCode", "GlobalValueNumbering", "DeadCode">> ELSE <<>>)
    \o (IF loop_inv_hoist THEN <<"LoopInvHoist", "DeadCode">> ELSE <<>>)

Init ==
    /\ \E m, c, g, l \in BOOLEAN :
         (g => m) /\ pipeline = Pipeline(m, c, g, l)
    /\ ir \in [cfg : {0}, hot : {p.hot : p \in Programs},
               cold : {p.cold : p \in Programs},
               unlinked : {[f \in Functions |-> {}]}]
    /\ [hot |-> ir.hot, cold |-> ir.cold] \in Programs
    /\ cache = [a \in Analyses |-> NotCached]

-----------------------------------------------------------------------------
(* The analyses.  Dominators and LoopInfo are functions of the control-flow *)
(* graph; FuncInfo finds call instructions through the use lists.           *)
IsCfgOnly(a) == a \in {"Dominators", "LoopInfo"}

SelfImpure(m) ==
    {Main} \cup Declared
    \cup {f \in Functions : {"load", "store"} \cap (m.hot[f] \cup m.cold[f]) # {}}

(* Mutant of SeenCalls: the spreading from callees to callers is left out. *)
SeenCallsNone(m) == [f \in Functions |-> {}]

SeenCalls(m) ==
    [f \in Functions |->
        ((m.hot[f] \cup m.cold[f]) \cap Functions) \cup m.unlinked[f]]

Compute(a, m) ==
    IF IsCfgOnly(a) THEN m.cfg
    ELSE PureFunctions(Functions \ SelfImpure(m), SeenCalls(m))

(* getAnalysis of every analysis of A: computed now unless it is cached. *)
Request(A, c, m) ==
    [a \in Analyses |-> IF a \in A /\ c[a] = NotCached THEN Compute(a, m) ELSE c[a]]

Required(p) ==
    CASE p = "Mem2Reg" -> {"Dominators"}
      [] p = "DeadCode" -> {"FuncInfo"}
      [] p = "GlobalValueNumbering" -> {"Dominators", "FuncInfo"}
      [] p = "LoopInvHoist" -> {"LoopInfo"}
      [] OTHER -> {}

(* Mutant of PreservesCfg: every pass claims to keep the graph. *)
PreservesCfgAlways(p) == TRUE

(* getAnalysisUsage *)
PreservesCfg(p) == p \in {"Mem2Reg", "DeadCode", "GlobalValueNumbering", "LoopInvHoist"}
Preserved(p) == IF p = "DeadCode" THEN {"FuncInfo"} ELSE {}

(* invalidateStaleAnalyses *)
Surviving(p, c) ==
    [a \in Analyses |-> IF a \in Preserved(p) \/ (PreservesCfg(p) /\ IsCfgOnly(a))
                        THEN c[a] ELSE NotCached]

-----------------------------------------------------------------------------
(* What a pass may turn the module m into.                                  *)

(* The cold code of the functions of S is taken out of its function; the    *)
(* calls in it stay in the use lists of their callees.                      *)
Unlink(S, m) ==
    [m EXCEPT !.cfg = IF S = {} THEN @ ELSE @ + 1,
              !.cold = [f \in Functions |-> IF f \in S THEN {} ELSE @[f]],
              !.unlinked = [f \in Functions |->
                    IF f \in S THEN @[f] \cup (m.cold[f] \cap Functions) ELSE @[f]]]

WithCold(m) == {f \in Functions : m.cold[f] # {}}

(* ConstPropagation also replaces global loads whose value it knows. *)
WithoutLoads(S, m) ==
    [m EXCEPT !.hot = [f \in Functions |-> IF f \in S THEN @[f] \ {"load"} ELSE @[f]]]

(* DeadCode erases loads that nothing uses and unused calls of functions    *)
(* FuncInfo calls pure, to a fixed point: D[f] is what goes from f.         *)
Erasable(pure) == {"load"} \cup pure

Erase(D, m) ==
    [m EXCEPT !.hot = [f \in Functions |-> @[f] \ D[f]],
              !.cold = [f \in Functions |-> @[f] \ D[f]]]

Results(p, m, c) ==
    CASE p = "UnreachableBlockElim" -> {Unlink(S, m) : S \in SUBSET WithCold(m)}
      [] p = "ConstPropagation" ->
            {WithoutLoads(L, Unlink(S, m)) :
                S \in SUBSET WithCold(m),
                L \in SUBSET {f \in Functions : "load" \in m.hot[f]}}
      [] p = "DeadCode" ->
            {Erase(D, m) : D \in [Functions -> SUBSET Erasable(c["FuncInfo"])]}
      [] OTHER -> {m}       \* promotes, replaces or moves what is not kept here

(* PassManager::run, one pass. *)
RunPass ==
    /\ pipeline # <<>>
    /\ LET p == Head(pipeline)
           c == Request(Required(p), cache, ir)
       IN  /\ ir' \in Results(p, ir, c)
           /\ cache' = Surviving(p, c)
    /\ pipeline' = Tail(pipeline)

Finished == pipeline = <<>> /\ UNCHANGED vars

Next == RunPass \/ Finished

Spec == Init /\ [][Next]_vars

-----------------------------------------------------------------------------
(* Between passes no analysis of the control-flow graph is older than the   *)
(* graph: "they are only valid as long as the IR they were computed on is   *)
(* unchanged" (PassManager.hpp:63-64).                                      *)
CfgAnalysesFresh ==
    \A a \in Analyses :
        IsCfgOnly(a) /\ cache[a] # NotCached => cache[a] = ir.cfg

(* The functions an execution of main may reach. *)
Executed(m) ==
    {f \in Functions :
        \A S \in SUBSET Functions :
            Main \in S /\ (\A g \in S : m.hot[g] \cap Functions \subseteq S)
            => f \in S}

Effects(m) == {f \in Executed(m) : f \in Declared \/ "store" \in m.hot[f]}

(* However stale the cached purity is, no pass loses an effect of the       *)
(* program: what writes a global or calls the library is still reached.     *)
EffectsKept == [][Effects(ir') = Effects(ir)]_vars
=============================================================================
