------------------------------- MODULE Purity -------------------------------
(***************************************************************************)
(* What FuncInfo computes, stated without its worklist: of the functions   *)
(* that have no side effect of their own, the largest set that calls only  *)
(* itself.                                                                 *)
(***************************************************************************)

(* candidates: the functions without a side effect of their own; calls[f]: *)
(* the functions that f is seen to call.                                   *)
ClosedUnderCalls(S, calls) == \A f \in S : calls[f] \subseteq S

PureFunctions(candidates, calls) ==
    UNION {S \in SUBSET candidates : ClosedUnderCalls(S, calls)}
=============================================================================
