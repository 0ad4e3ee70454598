-------------------------- MODULE PassManagerProofs --------------------------
(***************************************************************************)
(* For every module and every pipeline of the driver, the analyses of the  *)
(* control-flow graph that are cached are fresh, and no pass loses an      *)
(* effect, although the purity that DeadCode works with may be stale.      *)
(***************************************************************************)
EXTENDS PassManager, TLAPS

IsModule(m) ==
    /\ m \in [cfg : Nat, hot : [Functions -> SUBSET Items],
              cold : [Functions -> SUBSET Items],
              unlinked : [Functions -> SUBSET Functions]]

(* What makes a set of functions safe to erase calls of: nothing in it has *)
(* an effect that an execution may reach, by itself or by what it calls.   *)
(* It need not be what FuncInfo would compute now.                         *)
SafeToErase(pure, m) ==
    /\ pure \subseteq Functions \ ({Main} \cup Declared)
    /\ \A f \in pure : "store" \notin m.hot[f] /\ m.hot[f] \cap Functions \subseteq pure

(* Neither property is inductive: the freshness of a result depends on what *)
(* a pass does to the graph, the safety of an erasure on what the cache may *)
(* still hold.                                                              *)
IInv ==
    /\ IsModule(ir)
    /\ DOMAIN cache = Analyses
    /\ CfgAnalysesFresh
    /\ cache["FuncInfo"] # NotCached => SafeToErase(cache["FuncInfo"], ir)
-----------------------------------------------------------------------------
(* m2 is m without some loads and some calls of functions of pure. *)
LosesOnly(pure, m, m2) ==
    \A f \in Functions :
        /\ m2.hot[f] \subseteq m.hot[f]
        /\ m.hot[f] \ m2.hot[f] \subseteq {"load"} \cup pure

(* What FuncInfo calls pure is safe for the module it looked at. *)
LEMMA PureIsSafe ==
  ASSUME NEW m, IsModule(m)
  PROVE  SafeToErase(Compute("FuncInfo", m), m)
  <1> DEFINE own == Functions \ SelfImpure(m)
             pure == PureFunctions(own, SeenCalls(m))
  <1>1. Compute("FuncInfo", m) = pure
    BY DEF Compute, IsCfgOnly
  <1>2. pure \subseteq own
    BY DEF PureFunctions
  <1>3. pure \subseteq Functions \ ({Main} \cup Declared)
    BY <1>2 DEF SelfImpure
  <1>4. ASSUME NEW f \in pure
        PROVE  "store" \notin m.hot[f] /\ m.hot[f] \cap Functions \subseteq pure
    <2>1. PICK S \in SUBSET own : f \in S /\ ClosedUnderCalls(S, SeenCalls(m))
      BY DEF PureFunctions
    <2>2. S \subseteq pure
      BY <2>1 DEF PureFunctions
    <2>3. SeenCalls(m)[f] \subseteq S
      BY <2>1 DEF ClosedUnderCalls
    <2>4. m.hot[f] \cap Functions \subseteq SeenCalls(m)[f]
      BY <1>3 DEF SeenCalls
    <2>5. "store" \notin m.hot[f]
      BY <1>2 DEF SelfImpure
    <2> QED BY <2>2, <2>3, <2>4, <2>5
  <1> QED BY <1>1, <1>3, <1>4 DEF SafeToErase

(* Erasing loads and calls of safe functions loses no effect: whatever has *)
(* one is reached along calls that remain.                                 *)
LEMMA EffectsStay ==
  ASSUME NEW m, NEW m2, NEW pure, SafeToErase(pure, m), LosesOnly(pure, m, m2)
  PROVE  Effects(m2) = Effects(m)
  <1>1. "load" \notin Functions /\ "store" \notin Functions /\ Main \in Functions
    BY PassManagerAssumption
  <1>2. pure \subseteq Functions /\ Main \notin pure /\ pure \cap Declared = {}
    BY DEF SafeToErase
  <1>3. ASSUME NEW f \in Functions
        PROVE  "store" \in m2.hot[f] <=> "store" \in m.hot[f]
    BY <1>1, <1>2 DEF LosesOnly
  <1>4. ASSUME NEW f \in Executed(m2)
        PROVE  f \in Executed(m)
    <2> SUFFICES ASSUME NEW S \in SUBSET Functions, Main \in S,
                        \A g \in S : m.hot[g] \cap Functions \subseteq S
                 PROVE  f \in S
      BY <1>4 DEF Executed
    <2>1. \A g \in S : m2.hot[g] \cap Functions \subseteq S
      BY DEF LosesOnly
    <2> QED BY <1>4, <2>1 DEF Executed
  <1>5. ASSUME NEW f \in Executed(m) \ pure
        PROVE  f \in Executed(m2)
    <2> SUFFICES ASSUME NEW S \in SUBSET Functions, Main \in S,
                        \A g \in S : m2.hot[g] \cap Functions \subseteq S
                 PROVE  f \in S
      BY <1>5 DEF Executed
    <2>1. ASSUME NEW g \in S \cup pure
          PROVE  m.hot[g] \cap Functions \subseteq S \cup pure
      <3>1. CASE g \in pure
        BY <3>1 DEF SafeToErase
      <3>2. CASE g \in S
        BY <1>1, <3>2 DEF LosesOnly
      <3> QED BY <3>1, <3>2
    <2>2. S \cup pure \in SUBSET Functions
      BY <1>2
    <2> QED BY <1>5, <2>1, <2>2 DEF Executed
  <1>6. \A f \in pure : f \notin Declared /\ "store" \notin m.hot[f]
    BY <1>2 DEF SafeToErase
  <1>7. Executed(m) \subseteq Functions /\ Executed(m2) \subseteq Functions
    BY DEF Executed
  <1> QED BY <1>3, <1>4, <1>5, <1>6, <1>7 DEF Effects

-----------------------------------------------------------------------------
(* The cache after the requests of a pass. *)
LEMMA Requested ==
  ASSUME IInv, NEW p
  PROVE  LET c == Request(Required(p), cache, ir)
         IN  /\ \A a \in Analyses : IsCfgOnly(a) /\ c[a] # NotCached => c[a] = ir.cfg
             /\ c["FuncInfo"] # NotCached => SafeToErase(c["FuncInfo"], ir)
             /\ p = "DeadCode" => SafeToErase(c["FuncInfo"], ir)
  <1> DEFINE c == Request(Required(p), cache, ir)
  <1>1. \A a \in Analyses :
            c[a] = IF a \in Required(p) /\ cache[a] = NotCached
                   THEN Compute(a, ir) ELSE cache[a]
    BY DEF Request
  <1>2. ASSUME NEW a \in Analyses, IsCfgOnly(a), c[a] # NotCached
        PROVE  c[a] = ir.cfg
    <2>1. Compute(a, ir) = ir.cfg
      BY <1>2 DEF Compute
    <2> QED BY <1>1, <1>2, <2>1 DEF IInv, CfgAnalysesFresh
  <1>3. "FuncInfo" \in Analyses
    BY DEF Analyses
  <1>4. SafeToErase(Compute("FuncInfo", ir), ir)
    BY PureIsSafe DEF IInv
  <1>5. c["FuncInfo"] # NotCached => SafeToErase(c["FuncInfo"], ir)
    BY <1>1, <1>3, <1>4 DEF IInv
  <1>6. p = "DeadCode" => SafeToErase(c["FuncInfo"], ir)
    BY <1>1, <1>3, <1>4 DEF IInv, Required
  <1> QED BY <1>2, <1>5, <1>6

(* Taking cold code out leaves the code that executions may reach alone. *)
LEMMA UnlinkKeeps ==
  ASSUME NEW m, IsModule(m), NEW S \in SUBSET WithCold(m)
  PROVE  /\ IsModule(Unlink(S, m))
         /\ Unlink(S, m).hot = m.hot
  <1> DEFINE cold == [f \in Functions |-> IF f \in S THEN {} ELSE m.cold[f]]
             unlinked == [f \in Functions |->
                IF f \in S THEN m.unlinked[f] \cup (m.cold[f] \cap Functions)
                ELSE m.unlinked[f]]
             cfg == IF S = {} THEN m.cfg ELSE m.cfg + 1
  <1>1. Unlink(S, m) = [m EXCEPT !.cfg = cfg, !.cold = cold, !.unlinked = unlinked]
    BY DEF Unlink
  <1>2. /\ m.cfg \in Nat
        /\ m.hot \in [Functions -> SUBSET Items]
        /\ m.cold \in [Functions -> SUBSET Items]
        /\ m.unlinked \in [Functions -> SUBSET Functions]
    BY DEF IsModule
  <1>3. cold \in [Functions -> SUBSET Items] /\ cfg \in Nat
    BY <1>2
  <1>4. unlinked \in [Functions -> SUBSET Functions]
    BY <1>2
  <1> HIDE DEF cold, unlinked, cfg
  <1> QED BY <1>1, <1>2, <1>3, <1>4 DEF IsModule

(* What a pass does to the module: it leaves a module, loses nothing but   *)
(* loads and calls of functions that are safe to erase, and keeps the      *)
(* control-flow graph if it says so.                                       *)
LEMMA PassResult ==
  ASSUME NEW m, IsModule(m), NEW p, NEW c, NEW m2 \in Results(p, m, c),
         p = "DeadCode" => SafeToErase(c["FuncInfo"], m)
  PROVE  /\ IsModule(m2)
         /\ PreservesCfg(p) => m2.cfg = m.cfg
         /\ \E pure : SafeToErase(pure, m) /\ LosesOnly(pure, m, m2)
  <1>1. SafeToErase({}, m)
    BY DEF SafeToErase
  <1>2. /\ m.cfg \in Nat
        /\ m.hot \in [Functions -> SUBSET Items]
        /\ m.cold \in [Functions -> SUBSET Items]
        /\ m.unlinked \in [Functions -> SUBSET Functions]
    BY DEF IsModule
  <1>3. CASE p = "UnreachableBlockElim"
    <2>1. PICK S \in SUBSET WithCold(m) : m2 = Unlink(S, m)
      BY <1>3 DEF Results
    <2>2. IsModule(m2) /\ m2.hot = m.hot
      BY <2>1, UnlinkKeeps
    <2>3. LosesOnly({}, m, m2)
      BY <2>2 DEF LosesOnly
    <2>4. ~PreservesCfg(p)
      BY <1>3 DEF PreservesCfg
    <2> QED BY <1>1, <2>2, <2>3, <2>4
  <1>4. CASE p = "ConstPropagation"
    <2>1. PICK S \in SUBSET WithCold(m), L \in SUBSET {f \in Functions : "load" \in m.hot[f]} :
                m2 = WithoutLoads(L, Unlink(S, m))
      BY <1>4 DEF Results
    <2> DEFINE u == Unlink(S, m)
               hot == [f \in Functions |-> IF f \in L THEN u.hot[f] \ {"load"} ELSE u.hot[f]]
    <2>2. IsModule(u) /\ u.hot = m.hot
      BY UnlinkKeeps
    <2> HIDE DEF u
    <2>3. m2 = [u EXCEPT !.hot = hot]
      BY <2>1 DEF WithoutLoads, u
    <2>4. hot \in [Functions -> SUBSET Items]
      BY <1>2, <2>2
    <2>5. m2.hot = hot /\ IsModule(m2)
      BY <2>2, <2>3, <2>4 DEF IsModule
    <2>6. LosesOnly({}, m, m2)
      BY <2>2, <2>5 DEF LosesOnly
    <2>7. ~PreservesCfg(p)
      BY <1>4 DEF PreservesCfg
    <2> QED BY <1>1, <2>5, <2>6, <2>7
  <1>5. CASE p = "DeadCode"
    <2> DEFINE pure == c["FuncInfo"]
    <2>1. PICK D \in [Functions -> SUBSET Erasable(pure)] : m2 = Erase(D, m)
      BY <1>5 DEF Results
    <2> DEFINE hot == [f \in Functions |-> m.hot[f] \ D[f]]
               cold == [f \in Functions |-> m.cold[f] \ D[f]]
    <2>2. hot \in [Functions -> SUBSET Items] /\ cold \in [Functions -> SUBSET Items]
      BY <1>2
    <2>3. m2 = [m EXCEPT !.hot = hot, !.cold = cold]
      BY <2>1 DEF Erase
    <2> HIDE DEF cold
    <2>4. IsModule(m2) /\ m2.hot = hot /\ m2.cfg = m.cfg
      BY <2>2, <2>3 DEF IsModule
    <2>5. LosesOnly(pure, m, m2)
      BY <2>1, <2>4 DEF LosesOnly, Erasable
    <2> QED BY <1>5, <2>4, <2>5
  <1>6. CASE p \notin {"UnreachableBlockElim", "ConstPropagation", "DeadCode"}
    <2>1. m2 = m
      BY <1>6 DEF Results
    <2>2. LosesOnly({}, m, m2)
      BY <2>1 DEF LosesOnly
    <2> QED BY <1>1, <2>1, <2>2
  <1> QED BY <1>3, <1>4, <1>5, <1>6

-----------------------------------------------------------------------------
(* The invariant holds before the first pass. *)
LEMMA InitInv == Init => IInv
  <1> SUFFICES ASSUME Init PROVE IInv
    OBVIOUS
  <1>1. /\ ir \in [cfg : {0}, hot : {p.hot : p \in Programs},
                   cold : {p.cold : p \in Programs},
                   unlinked : {[f \in Functions |-> {}]}]
        /\ cache = [a \in Analyses |-> NotCached]
    BY DEF Init
  <1>2. /\ {p.hot : p \in Programs} \subseteq [Functions -> SUBSET Items]
        /\ {p.cold : p \in Programs} \subseteq [Functions -> SUBSET Items]
    BY PassManagerAssumption
  <1>3. IsModule(ir)
    BY <1>1, <1>2 DEF IsModule
  <1>4. DOMAIN cache = Analyses /\ cache["FuncInfo"] = NotCached /\ CfgAnalysesFresh
    BY <1>1 DEF Analyses, CfgAnalysesFresh
  <1> QED BY <1>3, <1>4 DEF IInv

(* A pass keeps the invariant and every effect. *)
LEMMA PassKeeps ==
  ASSUME IInv, RunPass
  PROVE  IInv' /\ Effects(ir') = Effects(ir)
  <1> DEFINE p == Head(pipeline)
             c == Request(Required(p), cache, ir)
  <1>1. ir' \in Results(p, ir, c) /\ cache' = Surviving(p, c)
    BY DEF RunPass
  <1>2. /\ \A a \in Analyses : IsCfgOnly(a) /\ c[a] # NotCached => c[a] = ir.cfg
        /\ c["FuncInfo"] # NotCached => SafeToErase(c["FuncInfo"], ir)
        /\ p = "DeadCode" => SafeToErase(c["FuncInfo"], ir)
    BY Requested
  <1> HIDE DEF c, p
  <1>3. /\ IsModule(ir')
        /\ PreservesCfg(p) => ir'.cfg = ir.cfg
        /\ \E pure : SafeToErase(pure, ir) /\ LosesOnly(pure, ir, ir')
    BY <1>1, <1>2, PassResult DEF IInv
  <1>4. PICK pure : SafeToErase(pure, ir) /\ LosesOnly(pure, ir, ir')
    BY <1>3
  <1>5. Effects(ir') = Effects(ir)
    BY <1>4, EffectsStay
  <1>6. DOMAIN cache' = Analyses
        /\ \A a \in Analyses : cache'[a] # NotCached =>
              /\ cache'[a] = c[a]
              /\ a \in Preserved(p) \/ (PreservesCfg(p) /\ IsCfgOnly(a))
    BY <1>1 DEF Surviving
  <1>7. CfgAnalysesFresh'
    <2>1. \A a \in Preserved(p) : ~IsCfgOnly(a)
      BY DEF Preserved, IsCfgOnly
    <2> QED BY <1>2, <1>3, <1>6, <2>1 DEF CfgAnalysesFresh
  <1>8. cache'["FuncInfo"] # NotCached => SafeToErase(cache'["FuncInfo"], ir')
    <2>1. "FuncInfo" \in Analyses
      BY DEF Analyses
    <2>2. \A S : SafeToErase(S, ir) => SafeToErase(S, ir')
      BY <1>4 DEF SafeToErase, LosesOnly
    <2> QED BY <1>2, <1>6, <2>1, <2>2
  <1> QED BY <1>3, <1>5, <1>6, <1>7, <1>8 DEF IInv

(* In every state between passes, in particular, what is cached is fresh or *)
(* safe to use.                                                             *)
THEOREM CacheInvariance == Spec => []IInv
  <1>1. IInv /\ [Next]_vars => IInv'
    <2> SUFFICES ASSUME IInv, [Next]_vars PROVE IInv'
      OBVIOUS
    <2>1. CASE RunPass
      BY <2>1, PassKeeps
    <2>2. CASE UNCHANGED vars
      BY <2>2 DEF vars, IInv, CfgAnalysesFresh, IsModule, SafeToErase
    <2> QED BY <2>1, <2>2 DEF Next, Finished
  <1> QED BY InitInv, <1>1, PTL DEF Spec

(* invalidateStaleAnalyses drops every cached result that a pass made       *)
(* wrong: Dominators and LoopInfo always see the graph they were made for.  *)
THEOREM AnalysesFresh == Spec => []CfgAnalysesFresh
  <1>1. IInv => CfgAnalysesFresh
    BY DEF IInv
  <1> QED BY CacheInvariance, <1>1, PTL

(* The FuncInfo that DeadCode keeps across passes may be stale, and may be  *)
(* wrong about functions whose code has changed, but what it calls pure     *)
(* never has an effect: no pass of any pipeline loses one.                  *)
THEOREM NoEffectLost == Spec => EffectsKept
  <1>1. IInv /\ [Next]_vars => [Effects(ir') = Effects(ir)]_vars
    BY PassKeeps DEF Next, Finished
  <1> QED BY CacheInvariance, <1>1, PTL DEF Spec, EffectsKept
=============================================================================
