------------------------------ MODULE FuncInfo ------------------------------
(***************************************************************************)
(* The purity analysis (passes/FuncInfo): trivial_mark looks at every      *)
(* function by itself, then a worklist spreads impurity from callees to    *)
(* callers through the use lists of the functions.                         *)
(***************************************************************************)
EXTENDS Naturals, Sequences, FiniteSets, SequencesExt, Purity

CONSTANTS
    Functions,  \* the functions of the module
    Order,      \* the order of the module's function list
    Programs    \* what the analysis may be run on

(* calls[f]: the callees of the call instructions whose parent is f;        *)
(* selfImpure: declarations, main, functions with an array parameter and    *)
(* functions with a store or load that is not to an alloca of their own.    *)
ASSUME FuncInfoAssumption ==
    /\ Order \in Seq(Functions) /\ ToSet(Order) = Functions
    /\ \A i, j \in DOMAIN Order : Order[i] = Order[j] => i = j
    /\ Programs \subseteq [calls : [Functions -> SUBSET Functions],
                           selfImpure : SUBSET Functions]

VARIABLES
    program,    \* the module analysed, fixed
    marked,     \* how many functions trivial_mark has seen
    is_pure,    \* FuncInfo::is_pure
    worklist    \* the functions whose callers are to be visited

funcVars == <<program, marked, is_pure, worklist>>

FuncInfoInit ==
    /\ program \in Programs
    /\ marked = 0
    /\ is_pure = [f \in Functions |-> FALSE]
    /\ worklist = <<>>

(* Mutant of TrivialMark: the pure functions are pushed. *)
TrivialMarkWrongPush ==
    /\ marked < Len(Order)
    /\ LET f == Order[marked + 1]
           pure == f \notin program.selfImpure
       IN  /\ is_pure' = [is_pure EXCEPT ![f] = pure]
           /\ worklist' = IF pure THEN Append(worklist, f) ELSE worklist
    /\ marked' = marked + 1
    /\ UNCHANGED program

(* trivial_mark, and the push of run() that follows it. *)
TrivialMark ==
    /\ marked < Len(Order)
    /\ LET f == Order[marked + 1]
           pure == f \notin program.selfImpure
       IN  /\ is_pure' = [is_pure EXCEPT ![f] = pure]
           /\ worklist' = IF pure THEN worklist ELSE Append(worklist, f)
    /\ marked' = marked + 1
    /\ UNCHANGED program

Callers(f) == {g \in Functions : f \in program.calls[g]}

(* Mutants of Process: the test of is_pure is left out; the spoiled callers *)
(* are not pushed.                                                          *)
ProcessEveryCaller ==
    /\ marked = Len(Order)
    /\ worklist # <<>>
    /\ LET spoiled == Callers(Head(worklist))
       IN  /\ is_pure' = [g \in Functions |-> is_pure[g] /\ g \notin spoiled]
           /\ \E s \in SetToSeqs(spoiled) : worklist' = Tail(worklist) \o s
    /\ UNCHANGED <<program, marked>>

ProcessOneLevel ==
    /\ marked = Len(Order)
    /\ worklist # <<>>
    /\ LET spoiled == {g \in Callers(Head(worklist)) : is_pure[g]}
       IN  is_pure' = [g \in Functions |-> is_pure[g] /\ g \notin spoiled]
    /\ worklist' = Tail(worklist)
    /\ UNCHANGED <<program, marked>>

(* process(front of the worklist): the callers are met in the order of the *)
(* use list, which is that of the creation of the calls: any order.        *)
Process ==
    /\ marked = Len(Order)
    /\ worklist # <<>>
    /\ LET spoiled == {g \in Callers(Head(worklist)) : is_pure[g]}
       IN  /\ is_pure' = [g \in Functions |-> is_pure[g] /\ g \notin spoiled]
           /\ \E s \in SetToSeqs(spoiled) : worklist' = Tail(worklist) \o s
    /\ UNCHANGED <<program, marked>>

FuncInfoDone == marked = Len(Order) /\ worklist = <<>>

FuncInfoStep == TrivialMark \/ Process

FuncInfoSpec == FuncInfoInit /\ [][FuncInfoStep]_funcVars

-----------------------------------------------------------------------------
(* Type invariant: a function waits at most once. *)
PurityTypeOK ==
    /\ program.calls \in [Functions -> SUBSET Functions]
    /\ program.selfImpure \subseteq Functions
    /\ marked \in 0 .. Len(Order)
    /\ is_pure \in [Functions -> BOOLEAN]
    /\ worklist \in Seq(Functions)
    /\ \A i, j \in DOMAIN worklist : worklist[i] = worklist[j] => i = j

Candidates == Functions \ program.selfImpure

Pure == {f \in Functions : is_pure[f]}

(* While callers are being visited, an impure function either has only      *)
(* impure callers or is still to be visited: no caller is forgotten.        *)
NoCallerForgotten ==
    marked = Len(Order) =>
        \A f \in Functions \ Pure :
            f \in ToSet(worklist) \/ Callers(f) \cap Pure = {}

(* The result: the pure functions are the largest set of functions without  *)
(* a side effect that call only one another, recursion included.            *)
ResultIsPureFunctions == FuncInfoDone => Pure = PureFunctions(Candidates, program.calls)
=============================================================================
