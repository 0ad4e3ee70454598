------------------------------ MODULE MCAnalyses ------------------------------
(* Dominators on every control-flow graph of four blocks that the pipeline    *)
(* may present: at most two different successors per block, no branch to the *)
(* entry (the builder never creates one), and every block reachable          *)
(* (UnreachableBlockElim).  LoopInfo on those of an entry with one successor  *)
(* and four blocks.  FuncInfo on every call graph of four functions whose    *)
(* first one, main, is never called, and every choice of the functions with  *)
(* a side effect.                                                            *)
EXTENDS Dominators, LoopInfo, FuncInfo

CONSTANTS entry, n1, n2, n3

MCBlocks == {entry, n1, n2, n3}

Targets == MCBlocks \ {entry}

SuccLists ==
    {<<>>} \cup {<<x>> : x \in Targets}
    \cup {s \in Targets \X Targets : s[1] # s[2]}

(* Renaming the blocks changes nothing: of the graphs that differ by a      *)
(* renaming only the one whose blocks are found in the order n1, n2, n3     *)
(* by a breadth-first scan is kept.                                         *)
Canonical(g) ==
    LET found == SelectSeq(g[entry] \o g[n1], LAMBDA x : x # n1)
    IN  g[entry] # <<>> /\ g[entry][1] = n1 /\ found # <<>> /\ found[1] = n2

MCCfgs == {g \in [MCBlocks -> SuccLists] : Canonical(g) /\ AllReachable(g)}

-----------------------------------------------------------------------------
(* For LoopInfo successors are sets; of the graphs that differ by a renaming  *)
(* of blocks a part is left out.                                             *)
MCNodes == 0 .. 4

Others == 1 .. 4

Few == {T \in SUBSET Others : Cardinality(T) <= 2}

MCGraphs ==
    {g \in {[nodes |-> MCNodes, succs |-> (0 :> {1}) @@ f] :
                f \in {h \in [Others -> Few] :
                    \A m, n \in 2 .. 4 : m < n => Cardinality(h[m]) >= Cardinality(h[n])}} :
        WholeFunction(g)}

-----------------------------------------------------------------------------
CONSTANTS main, f1, f2, f3

MCFunctions == {main, f1, f2, f3}
MCOrder == <<f3, f1, f2, main>>

MCPrograms ==
    {[calls |-> c @@ (main :> m), selfImpure |-> {main} \cup s] :
        c \in [{f1, f2, f3} -> SUBSET {f1, f2, f3}],
        m \in {{f1}, {f1, f2}}, s \in SUBSET {f1, f2, f3}}

-----------------------------------------------------------------------------
VARIABLE analysis       \* the one requested

allVars == <<vars, loopVars, funcVars, analysis>>

AnyCfg == CHOOSE c \in Cfgs : TRUE
AnyGraph == CHOOSE g \in Graphs : TRUE
AnyProgram == CHOOSE p \in Programs : TRUE

(* The analyses run one at a time: a pass requests one of them with          *)
(* getAnalysis, and it runs to its end.  What the others would find is of    *)
(* no interest: they get one function or module.                            *)
RequestDominators ==
    /\ analysis = "Dominators"
    /\ nodeGraph = AnyGraph /\ LoopInit
    /\ program = AnyProgram /\ FuncInfoInit
    /\ Init

RequestLoopInfo ==
    /\ analysis = "LoopInfo"
    /\ succ = AnyCfg /\ Init
    /\ program = AnyProgram /\ FuncInfoInit
    /\ LoopInit

RequestFuncInfo ==
    /\ analysis = "FuncInfo"
    /\ succ = AnyCfg /\ Init
    /\ nodeGraph = AnyGraph /\ LoopInit
    /\ FuncInfoInit

AnalysisStep ==
    /\ \/ analysis = "Dominators" /\ Step /\ UNCHANGED <<loopVars, funcVars>>
       \/ analysis = "LoopInfo" /\ LoopStep /\ UNCHANGED <<vars, funcVars>>
       \/ analysis = "FuncInfo" /\ FuncInfoStep /\ UNCHANGED <<vars, loopVars>>
    /\ UNCHANGED analysis

AnalysisDone ==
    CASE analysis = "Dominators" -> phase = "done"
      [] analysis = "LoopInfo" -> LoopsDone
      [] analysis = "FuncInfo" -> FuncInfoDone

(* run() is a sequential call: it takes its next step. *)
AnalysesSpec ==
    /\ RequestDominators \/ RequestLoopInfo \/ RequestFuncInfo
    /\ [][AnalysisStep \/ (AnalysisDone /\ UNCHANGED allVars)]_allVars
    /\ WF_allVars(AnalysisStep)

(* The analyses end: the sweeps of create_idom reach a fixed point, the      *)
(* fingers of intersect and the walks up the idom chain meet, the recursion  *)
(* of find_scc returns, the rounds of LoopInfo take all blocks, and the      *)
(* worklist of FuncInfo empties although calls may form cycles.              *)
AnalysesEnd == <>AnalysisDone
=============================================================================
