--------------------------- MODULE AnalysesProofs ---------------------------
(***************************************************************************)
(* What the analyses of a function and of a module compute, for every input. *)
(*                                                                         *)
(* FuncInfo: the pure functions of Purity, whatever the program.           *)
(*                                                                         *)
(* Dominators: for every control-flow graph the sweeps of create_idom lose *)
(* no dominator; when every block is reachable they end with the immediate *)
(* dominators, and the frontiers and the dominator tree are those of the   *)
(* definitions in Dominance.                                               *)
(*                                                                         *)
(* LoopInfo: run finds the natural loops of a function, of a reducible one *)
(* all of them, and get_parent the smallest loop around a loop: for every  *)
(* finite set of blocks, every graph over it and every order in which the  *)
(* sets of pointers are gone over.  In three parts.  SccInv, the invariant *)
(* of find_scc: what it takes from the stack is a strongly connected       *)
(* component.  LoopInv, the invariant of the rounds of run: what remains of *)
(* a component is entered from a header that was taken, so a component of  *)
(* it with one header is a natural loop.  NestInv: what bb2base knows of   *)
(* the loops found so far.                                                 *)
(***************************************************************************)
EXTENDS FuncInfo, Dominators, LoopInfo, Lemmas

-----------------------------------------------------------------------------
(* FuncInfo. *)

(* The functions trivial_mark has seen. *)
Marked == {Order[i] : i \in 1 .. marked}

(* What waits in the worklist is impure and has been marked. *)
WaitingImpure ==
    \A i \in DOMAIN worklist : ~is_pure[worklist[i]] /\ worklist[i] \in Marked

(* While functions are being marked, every impure one waits. *)
ImpureWaiting ==
    marked < Len(Order) => \A f \in Marked \ Pure : f \in ToSet(worklist)

(* A set of functions without side effects that call only one another stays *)
(* pure: impurity enters it neither by itself nor from outside.             *)
ClosedStaysPure ==
    \A S \in SUBSET Candidates :
        ClosedUnderCalls(S, program.calls) => S \cap Marked \subseteq Pure

PurityInv ==
    /\ PurityTypeOK
    /\ Pure \subseteq Candidates /\ Pure \subseteq Marked
    /\ WaitingImpure
    /\ ImpureWaiting
    /\ NoCallerForgotten
    /\ ClosedStaysPure

-----------------------------------------------------------------------------
(* The functions of the module are finitely many. *)
LEMMA FunctionsFinite == IsFiniteSet(Functions)
  <1>1. Order \in Seq(Functions) /\ ToSet(Order) = Functions
    BY FuncInfoAssumption
  <1>2. Order \in Surjection(1 .. Len(Order), Functions)
    BY <1>1 DEF ToSet, Surjection
  <1>3. IsFiniteSet(1 .. Len(Order))
    BY <1>1, FS_Interval
  <1> QED BY <1>2, <1>3, FS_Surjection

(* A sequence of SetToSeqs(S) holds the elements of S once each. *)
LEMMA SeqOfSet ==
  ASSUME NEW S \in SUBSET Functions, NEW s \in SetToSeqs(S)
  PROVE  /\ s \in Seq(S)
         /\ ToSet(s) = S
         /\ \A i, j \in DOMAIN s : s[i] = s[j] => i = j
  <1>1. IsFiniteSet(S)
    BY FunctionsFinite, FS_Subset
  <1>2. Cardinality(S) \in Nat
    BY <1>1, FS_CardinalityType
  <1>3. /\ s \in [1 .. Cardinality(S) -> S]
        /\ \A i, j \in 1 .. Cardinality(S) : i # j => s[i] # s[j]
    BY DEF SetToSeqs
  <1>4. s \in Seq(S)
    BY <1>2, <1>3
  <1>5. s \in Injection(1 .. Cardinality(S), S)
    BY <1>3 DEF Injection, IsInjective
  <1>6. Cardinality(1 .. Cardinality(S)) = Cardinality(S)
    BY <1>2, FS_Interval
  <1>7. s \in Surjection(1 .. Cardinality(S), S)
    BY <1>1, <1>5, <1>6, FS_Injection
  <1>8. ToSet(s) = S
    BY <1>3, <1>7 DEF ToSet, Surjection
  <1> QED BY <1>3, <1>4, <1>8

(* What Tail(w) \o s holds, and that it holds nothing twice. *)
LEMMA PopAndPush ==
  ASSUME NEW w \in Seq(Functions), w # <<>>, NEW s \in Seq(Functions),
         \A i, j \in DOMAIN w : w[i] = w[j] => i = j,
         \A i, j \in DOMAIN s : s[i] = s[j] => i = j,
         ToSet(w) \cap ToSet(s) = {}
  PROVE  /\ Tail(w) \o s \in Seq(Functions)
         /\ ToSet(w) \ {Head(w)} \subseteq ToSet(Tail(w) \o s)
         /\ ToSet(s) \subseteq ToSet(Tail(w) \o s)
         /\ ToSet(Tail(w) \o s) \subseteq ToSet(w) \cup ToSet(s)
         /\ \A i, j \in DOMAIN (Tail(w) \o s) :
                (Tail(w) \o s)[i] = (Tail(w) \o s)[j] => i = j
  <1> DEFINE t == Tail(w)
             r == t \o s
  <1>1. /\ t \in Seq(Functions)
        /\ Len(t) = Len(w) - 1
        /\ \A i \in 1 .. Len(t) : t[i] = w[i + 1]
        /\ Len(w) \in Nat \ {0} /\ Len(s) \in Nat /\ Len(t) \in Nat
    BY HeadTailProperties, EmptySeq, LenProperties
  <1>2. /\ r \in Seq(Functions)
        /\ Len(r) = Len(t) + Len(s)
        /\ \A i \in 1 .. Len(t) + Len(s) :
              r[i] = IF i <= Len(t) THEN t[i] ELSE s[i - Len(t)]
    BY <1>1, ConcatProperties
  <1>3. DOMAIN r = 1 .. Len(t) + Len(s) /\ DOMAIN w = 1 .. Len(w) /\ DOMAIN s = 1 .. Len(s)
    BY <1>2, LenProperties
  <1> HIDE DEF t, r
  <1>4. \A i \in 1 .. Len(t) : i \in DOMAIN r /\ r[i] = w[i + 1]
    BY <1>1, <1>2, <1>3
  <1>5. ASSUME NEW i \in 1 .. Len(s)
        PROVE  Len(t) + i \in DOMAIN r /\ r[Len(t) + i] = s[i]
    <2>1. /\ Len(t) + i \in 1 .. Len(t) + Len(s)
          /\ ~(Len(t) + i <= Len(t))
          /\ (Len(t) + i) - Len(t) = i
      BY <1>1
    <2> QED BY <2>1, <1>2, <1>3
  <1>6. \A k \in DOMAIN r :
            \/ k \in 1 .. Len(t) /\ r[k] = w[k + 1] /\ k + 1 \in DOMAIN w
            \/ k - Len(t) \in DOMAIN s /\ r[k] = s[k - Len(t)] /\ k > Len(t)
    BY <1>1, <1>2, <1>3, SMTT(20)
  <1>7. Head(w) = w[1]
    BY HeadTailProperties 
  <1>8. ToSet(w) \ {Head(w)} \subseteq ToSet(r)
    <2>1. SUFFICES ASSUME NEW i \in DOMAIN w, w[i] # w[1]
                   PROVE  \E k \in DOMAIN r : r[k] = w[i]
      BY <1>7 DEF ToSet
    <2>2. i - 1 \in 1 .. Len(t)
      BY <2>1, <1>1, <1>3
    <2> QED BY <2>2, <1>4
  <1>9. ToSet(s) \subseteq ToSet(r)
    BY <1>3, <1>5 DEF ToSet
  <1>10. ToSet(r) \subseteq ToSet(w) \cup ToSet(s)
    BY <1>6 DEF ToSet
  <1>11. ASSUME NEW i \in DOMAIN r, NEW j \in DOMAIN r, r[i] = r[j]
         PROVE  i = j
    <2>1. CASE i \in 1 .. Len(t) /\ j \in 1 .. Len(t)
      <3>1. /\ i + 1 \in DOMAIN w
            /\ j + 1 \in DOMAIN w
            /\ w[i + 1] = w[j + 1]
        BY <1>1, <1>3, <1>4, <1>11, <2>1
      <3> QED BY <3>1, <2>1
    <2>2. CASE i \notin 1 .. Len(t) /\ j \notin 1 .. Len(t)
      <3>1. /\ i - Len(t) \in DOMAIN s
            /\ j - Len(t) \in DOMAIN s
            /\ s[i - Len(t)] = s[j - Len(t)]
        BY <1>6, <1>11, <2>2
      <3>2. i - Len(t) = j - Len(t)
        BY <3>1
      <3> QED BY <3>2, <1>1, <1>3
    <2>3. CASE ~(i \in 1 .. Len(t) <=> j \in 1 .. Len(t))
      BY <1>6, <1>11, <2>3 DEF ToSet
    <2> QED BY <2>1, <2>2, <2>3
  <1> QED BY <1>2, <1>8, <1>9, <1>10, <1>11 DEF r, t

-----------------------------------------------------------------------------
LEMMA InitPurityInv == FuncInfoInit => PurityInv
  <1> SUFFICES ASSUME FuncInfoInit PROVE PurityInv
    OBVIOUS
  <1>1. /\ program.calls \in [Functions -> SUBSET Functions]
        /\ program.selfImpure \subseteq Functions
    BY FuncInfoAssumption DEF FuncInfoInit
  <1>2. Len(Order) \in Nat
    BY FuncInfoAssumption, LenProperties
  <1>3. Marked = {} /\ Pure = {} /\ DOMAIN worklist = {}
    BY DEF FuncInfoInit, Marked, Pure
  <1>4. PurityTypeOK
    BY <1>1, <1>2, <1>3 DEF FuncInfoInit, PurityTypeOK
  <1>5. NoCallerForgotten
    <2>1. marked = Len(Order) => Functions = {}
      BY <1>2, FuncInfoAssumption DEF FuncInfoInit, ToSet
    <2> QED BY <2>1 DEF NoCallerForgotten
  <1> QED
    BY <1>3, <1>4, <1>5 DEF PurityInv, WaitingImpure, ImpureWaiting, ClosedStaysPure

(* One more function is marked. *)
LEMMA TrivialMarkKeeps == ASSUME PurityInv, TrivialMark PROVE PurityInv'
  <1> DEFINE f == Order[marked + 1]
             pure == f \notin program.selfImpure
  <1>1. /\ marked \in Nat /\ Len(Order) \in Nat
        /\ marked' = marked + 1 /\ marked' \in 0 .. Len(Order)
        /\ marked + 1 \in DOMAIN Order /\ DOMAIN Order = 1 .. Len(Order)
    BY FuncInfoAssumption, LenProperties DEF PurityInv, PurityTypeOK, TrivialMark
  <1>2. f \in Functions
    BY <1>1, FuncInfoAssumption DEF ToSet
  <1>3. f \notin Marked /\ Marked' = Marked \cup {f}
    <2>1. \A i \in 1 .. marked : Order[i] # f
      BY <1>1, FuncInfoAssumption
    <2>2. 1 .. marked' = (1 .. marked) \cup {marked + 1}
      BY <1>1
    <2> QED BY <2>1, <2>2 DEF Marked
  <1>4. Marked \subseteq Functions
    BY <1>1, FuncInfoAssumption DEF Marked, ToSet
  <1>5. /\ is_pure' = [is_pure EXCEPT ![f] = pure]
        /\ worklist' = IF pure THEN worklist ELSE Append(worklist, f)
        /\ program' = program
    BY DEF TrivialMark
  <1> HIDE DEF f
  <1>6. /\ is_pure' \in [Functions -> BOOLEAN]
        /\ is_pure'[f] = pure
        /\ \A g \in Functions \ {f} : is_pure'[g] = is_pure[g]
    BY <1>2, <1>5 DEF PurityInv, PurityTypeOK
  <1>7. /\ Pure' = IF pure THEN Pure \cup {f} ELSE Pure
        /\ f \notin Pure
    BY <1>2, <1>3, <1>6 DEF Pure, PurityInv
  <1>8. /\ worklist \in Seq(Functions)
        /\ DOMAIN worklist = 1 .. Len(worklist) /\ Len(worklist) \in Nat
        /\ f \notin ToSet(worklist)
    BY <1>3, LenProperties DEF PurityInv, PurityTypeOK, WaitingImpure, ToSet
  <1>9. /\ worklist' \in Seq(Functions)
        /\ ToSet(worklist') = IF pure THEN ToSet(worklist) ELSE ToSet(worklist) \cup {f}
        /\ \A i, j \in DOMAIN worklist' : worklist'[i] = worklist'[j] => i = j
    <2>1. CASE pure
      BY <1>5, <1>8, <2>1 DEF PurityInv, PurityTypeOK
    <2>2. CASE ~pure
      <3> DEFINE w == Append(worklist, f)
      <3>1. /\ w \in Seq(Functions) /\ DOMAIN w = 1 .. Len(worklist) + 1
            /\ w[Len(worklist) + 1] = f
            /\ \A i \in 1 .. Len(worklist) : w[i] = worklist[i]
        BY <1>2, <1>8
      <3> HIDE DEF w
      <3>2. ToSet(w) = ToSet(worklist) \cup {f}
        BY <3>1, <1>8 DEF ToSet
      <3>3. \A i, j \in DOMAIN w : w[i] = w[j] => i = j
        BY <3>1, <1>8 DEF PurityInv, PurityTypeOK, ToSet
      <3> QED BY <3>1, <3>2, <3>3, <1>5, <2>2 DEF w
    <2> QED BY <2>1, <2>2
  <1>10. PurityTypeOK'
    BY <1>1, <1>5, <1>6, <1>9 DEF PurityInv, PurityTypeOK
  <1>11. Candidates' = Candidates /\ (pure => f \in Candidates)
    BY <1>2, <1>5 DEF Candidates
  <1>12. Pure' \subseteq Candidates' /\ Pure' \subseteq Marked'
    BY <1>3, <1>7, <1>11 DEF PurityInv
  <1>13. WaitingImpure'
    <2>1. \A g \in ToSet(worklist) : g \in Functions /\ ~is_pure[g] /\ g \in Marked
      BY <1>4 DEF PurityInv, WaitingImpure, ToSet
    <2>2. \A g \in ToSet(worklist') : ~is_pure'[g] /\ g \in Marked'
      BY <2>1, <1>3, <1>6, <1>9
    <2> QED BY <2>2 DEF WaitingImpure, ToSet
  <1>14. \A g \in Marked' \ Pure' : g \in ToSet(worklist')
    BY <1>1, <1>3, <1>7, <1>9 DEF PurityInv, ImpureWaiting, TrivialMark
  <1>15. ImpureWaiting'
    BY <1>14 DEF ImpureWaiting
  <1>16. NoCallerForgotten'
    <2>1. marked' = Len(Order) => Marked' = Functions
      BY <1>1, FuncInfoAssumption DEF Marked, ToSet
    <2> QED BY <2>1, <1>14 DEF NoCallerForgotten
  <1>17. ClosedStaysPure'
    <2>1. ASSUME NEW S \in SUBSET Candidates, ClosedUnderCalls(S, program.calls)
          PROVE  S \cap Marked' \subseteq Pure'
      BY <2>1, <1>3, <1>7 DEF PurityInv, ClosedStaysPure, Candidates
    <2> QED BY <2>1, <1>5, <1>11 DEF ClosedStaysPure
  <1> QED BY <1>10, <1>12, <1>13, <1>15, <1>16, <1>17 DEF PurityInv

(* One function is popped, its pure callers lose their purity and wait. *)
LEMMA ProcessKeeps == ASSUME PurityInv, Process PROVE PurityInv'
  <1> DEFINE h == Head(worklist)
             spoiled == {g \in Callers(h) : is_pure[g]}
  <1>1. PICK s \in SetToSeqs(spoiled) : worklist' = Tail(worklist) \o s
    BY DEF Process
  <1>2. /\ marked = Len(Order) /\ worklist # <<>>
        /\ is_pure' = [g \in Functions |-> is_pure[g] /\ g \notin spoiled]
        /\ program' = program /\ marked' = marked
    BY DEF Process
  <1>3. /\ worklist \in Seq(Functions)
        /\ h \in Functions /\ h \in ToSet(worklist) /\ ~is_pure[h]
    <2>1. worklist \in Seq(Functions) /\ 1 \in DOMAIN worklist
      BY <1>2, EmptySeq, LenProperties DEF PurityInv, PurityTypeOK
    <2>2. h = worklist[1]
      BY <2>1, <1>2, HeadTailProperties
    <2> QED BY <2>1, <2>2 DEF PurityInv, PurityTypeOK, WaitingImpure, ToSet
  <1>4. spoiled = Callers(h) \cap Pure /\ spoiled \subseteq Functions
    BY DEF Callers, Pure
  <1> HIDE DEF h, spoiled
  <1>5. /\ s \in Seq(Functions)
        /\ ToSet(s) = spoiled
        /\ \A i, j \in DOMAIN s : s[i] = s[j] => i = j
    BY <1>1, <1>4, SeqOfSet, SeqMonotonic
  <1>6. ToSet(worklist) \cap spoiled = {}
    BY <1>4 DEF PurityInv, WaitingImpure, ToSet, Pure
  <1>7. /\ worklist' \in Seq(Functions)
        /\ ToSet(worklist) \ {h} \subseteq ToSet(worklist')
        /\ spoiled \subseteq ToSet(worklist')
        /\ ToSet(worklist') \subseteq ToSet(worklist) \cup spoiled
        /\ \A i, j \in DOMAIN worklist' : worklist'[i] = worklist'[j] => i = j
    BY <1>1, <1>2, <1>3, <1>5, <1>6, PopAndPush DEF h, PurityInv, PurityTypeOK
  <1>8. is_pure' \in [Functions -> BOOLEAN] /\ Pure' = Pure \ spoiled
    BY <1>2 DEF PurityInv, PurityTypeOK, Pure
  <1>9. PurityTypeOK'
    BY <1>2, <1>7, <1>8 DEF PurityInv, PurityTypeOK
  <1>10. Marked' = Marked /\ Candidates' = Candidates
    BY <1>2 DEF Marked, Candidates
  <1>11. Pure' \subseteq Candidates' /\ Pure' \subseteq Marked'
    BY <1>8, <1>10 DEF PurityInv
  <1>12. WaitingImpure'
    <2>1. \A g \in ToSet(worklist) : g \in Functions /\ ~is_pure[g] /\ g \in Marked
      BY <1>3, LenProperties DEF PurityInv, WaitingImpure, ToSet
    <2>2. \A g \in ToSet(worklist') : ~is_pure'[g] /\ g \in Marked'
      BY <2>1, <1>2, <1>4, <1>7, <1>10 DEF PurityInv
    <2> QED BY <2>2 DEF WaitingImpure, ToSet
  <1>13. ImpureWaiting'
    BY <1>2, FuncInfoAssumption, LenProperties DEF ImpureWaiting
  <1>14. NoCallerForgotten'
    <2>1. ASSUME NEW g \in Functions \ Pure'
          PROVE  g \in ToSet(worklist') \/ Callers(g) \cap Pure' = {}
      <3>1. CASE g \in spoiled
        BY <3>1, <1>7
      <3>2. CASE g = h
        BY <3>2, <1>4, <1>8
      <3>3. CASE g \notin spoiled /\ g # h
        BY <2>1, <3>3, <1>2, <1>7, <1>8 DEF PurityInv, NoCallerForgotten
      <3> QED BY <3>1, <3>2, <3>3
    <2>2. \A g \in Functions : Callers(g)' = Callers(g)
      BY <1>2 DEF Callers
    <2> QED BY <2>1, <2>2, <1>2 DEF NoCallerForgotten, Callers
  <1>15. ClosedStaysPure'
    <2>1. ASSUME NEW S \in SUBSET Candidates, ClosedUnderCalls(S, program.calls)
          PROVE  S \cap Marked \subseteq Pure \ spoiled
      <3>1. S \cap Marked \subseteq Pure
        BY <2>1 DEF PurityInv, ClosedStaysPure
      <3>2. h \in Marked /\ h \notin Pure
        BY <1>3 DEF PurityInv, WaitingImpure, ToSet, Pure
      <3>3. S \cap spoiled = {}
        BY <2>1, <3>1, <3>2, <1>4 DEF ClosedUnderCalls, Callers
      <3> QED BY <3>1, <3>3
    <2> QED BY <2>1, <1>2, <1>8, <1>10 DEF ClosedStaysPure
  <1> QED BY <1>9, <1>11, <1>12, <1>13, <1>14, <1>15 DEF PurityInv

-----------------------------------------------------------------------------
(* PurityInv is an invariant of the analysis. *)
THEOREM PurityInvariance == FuncInfoSpec => []PurityInv
  <1>1. PurityInv /\ [FuncInfoStep]_funcVars => PurityInv'
    <2> SUFFICES ASSUME PurityInv, [FuncInfoStep]_funcVars PROVE PurityInv'
      OBVIOUS
    <2>1. CASE TrivialMark
      BY <2>1, TrivialMarkKeeps
    <2>2. CASE Process
      BY <2>2, ProcessKeeps
    <2>3. CASE UNCHANGED funcVars
      BY <2>3 DEF funcVars, PurityInv, PurityTypeOK, Pure, Candidates, Marked, WaitingImpure,
                  ImpureWaiting, NoCallerForgotten, Callers, ClosedStaysPure
    <2> QED BY <2>1, <2>2, <2>3 DEF FuncInfoStep
  <1> QED BY InitPurityInv, <1>1, PTL DEF FuncInfoSpec

(* The variables keep their types and no function waits twice. *)
THEOREM PurityTypeCorrect == FuncInfoSpec => []PurityTypeOK
  <1>1. PurityInv => PurityTypeOK
    BY DEF PurityInv
  <1> QED BY PurityInvariance, <1>1, PTL

(* An impure function has only impure callers or waits to be processed. *)
THEOREM CallersRemembered == FuncInfoSpec => []NoCallerForgotten
  <1>1. PurityInv => NoCallerForgotten
    BY DEF PurityInv
  <1> QED BY PurityInvariance, <1>1, PTL

(* For every module: when run() returns, the functions marked pure are the  *)
(* largest set of functions without a side effect that call only one        *)
(* another.  DeadCode and GlobalValueNumbering trust this set.              *)
THEOREM PurityCorrect == FuncInfoSpec => []ResultIsPureFunctions
  <1>1. PurityInv => ResultIsPureFunctions
    <2> SUFFICES ASSUME PurityInv, FuncInfoDone
                 PROVE  Pure = PureFunctions(Candidates, program.calls)
      BY DEF ResultIsPureFunctions
    <2>1. Marked = Functions /\ ToSet(worklist) = {}
      <3>1. Marked = Functions
        BY FuncInfoAssumption, LenProperties DEF FuncInfoDone, Marked, ToSet
      <3> QED BY <3>1 DEF FuncInfoDone, ToSet
    <2>2. Pure \subseteq Candidates
      BY DEF PurityInv
    <2>3. ClosedUnderCalls(Pure, program.calls)
      BY <2>1 DEF PurityInv, PurityTypeOK, FuncInfoDone, NoCallerForgotten, Callers, ClosedUnderCalls, Pure
    <2>4. ASSUME NEW S \in SUBSET Candidates, ClosedUnderCalls(S, program.calls)
          PROVE  S \subseteq Pure
      BY <2>1, <2>4 DEF PurityInv, ClosedStaysPure, Candidates
    <2> QED BY <2>2, <2>3, <2>4 DEF PureFunctions
  <1> QED BY PurityInvariance, <1>1, PTL

-----------------------------------------------------------------------------
(* Dominators. *)

Pointers == Blocks \cup {Null}

TypeOK ==
    /\ succ \in [Blocks -> Seq(Blocks)]
    /\ phase \in {"visit", "sweep", "join", "frontier", "done"}
    /\ stack \in Seq([bb : Blocks, next : Nat \ {0}])
    /\ post \in Seq(Blocks)
    /\ idom \in [Blocks -> Pointers]
    /\ changed \in BOOLEAN
    /\ rest \in Seq(Blocks)
    /\ join \in [bb : Pointers, left : SUBSET Blocks, new : Pointers, finger : Pointers]
    /\ walk \in [left : SUBSET (Blocks \X Blocks), bb : Pointers, runner : Pointers]
    /\ frontier \in [Blocks -> SUBSET Blocks]
    /\ children \in [Blocks -> SUBSET Blocks]

-----------------------------------------------------------------------------
(* The depth-first search. *)

(* A block is on the stack, or in post, or neither, and only once. *)
MetOnce ==
    /\ \A i, j \in DOMAIN stack : stack[i].bb = stack[j].bb => i = j
    /\ \A i, j \in DOMAIN post : post[i] = post[j] => i = j
    /\ \A i \in DOMAIN stack, j \in DOMAIN post : stack[i].bb # post[j]

(* The stack is a path: what dominates a block on it is below the block. *)
DominatorsBelow ==
    \A i \in DOMAIN stack, d \in Blocks \ {Entry} :
        Dominates(d, stack[i].bb) => \E j \in 1 .. i : stack[j].bb = d

(* So the blocks that dominate a block come later in post order. *)
DominatorsLater ==
    \A i, j \in DOMAIN post :
        j < i /\ Dominates(post[j], post[i]) => post[j] = Entry

(* The successors of a finished block, and those the search has been to,   *)
(* are visited.                                                            *)
SuccessorsVisited ==
    /\ Entry \in Visited
    /\ \A i \in DOMAIN post : ToSet(succ[post[i]]) \subseteq Visited
    /\ \A i \in DOMAIN stack : \A k \in DOMAIN succ[stack[i].bb] :
            k < stack[i].next => succ[stack[i].bb][k] \in Visited

SearchInv ==
    /\ MetOnce
    /\ DominatorsBelow
    /\ DominatorsLater
    /\ SuccessorsVisited
    /\ phase # "visit" => stack = <<>>

-----------------------------------------------------------------------------
(* The sweeps. *)

(* The idom chains start at visited blocks and end at the entry only. *)
ChainsVisited ==
    /\ idom[Entry] = Entry
    /\ phase = "visit" => \A b \in Blocks \ {Entry} : idom[b] = Null
    /\ \A b \in Blocks : idom[b] # Null => b \in Visited /\ idom[idom[b]] # Null

(* In a join both fingers are on chains, and what strictly dominates the   *)
(* block dominates both.                                                   *)
FingersDominated ==
    phase = "join" =>
        /\ rest # <<>> /\ join.bb = Head(rest) /\ join.bb # Entry
        /\ join.left \subseteq Preds(join.bb)
        /\ join.new # Null /\ idom[join.new] # Null
        /\ join.finger # Null => idom[join.finger] # Null
        /\ \A d \in Blocks : StrictlyDominates(d, join.bb) =>
                /\ Dominates(d, join.new)
                /\ join.finger # Null => Dominates(d, join.finger)

(* NoDominatorLost by itself is not inductive: that a finger does not climb *)
(* past a common dominator follows from the post order of the two.          *)
IInv ==
    /\ TypeOK
    /\ SearchInv
    /\ ToSet(rest) \subseteq ToSet(post)
    /\ ChainsVisited
    /\ FingersDominated
    /\ NoDominatorLost

-----------------------------------------------------------------------------
(* The fixed point. *)

(* a is on the idom chain of x: in every set with x that is closed under   *)
(* idom.                                                                   *)
Ancestor(a, x) ==
    \A T \in SUBSET Blocks :
        x \in T /\ (\A y \in T : idom[y] \in T \cup {Null}) => a \in T

(* The idom of b is on the chain of every predecessor that has one. *)
Settled(b) ==
    /\ idom[b] # Null
    /\ \A p \in Preds(b) : idom[p] # Null => Ancestor(idom[b], p)

(* What a join has seen: new is on the chains of the predecessors it has   *)
(* done, finger on that of the one it is at.                               *)
FingersClimb ==
    phase = "join" =>
        \E q \in Preds(join.bb) :
            /\ join.finger # Null => Ancestor(join.finger, q)
            /\ \A p \in Preds(join.bb) \ join.left :
                    idom[p] # Null /\ (join.finger # Null => p # q)
                    => Ancestor(join.new, p)

(* A sweep that has changed nothing has left settled blocks behind. *)
SettledBehind ==
    /\ phase = "visit" => changed
    /\ phase \in {"sweep", "join"} /\ ~changed =>
            \A b \in ToSet(post) \ (ToSet(rest) \cup {Entry}) : Settled(b)
    /\ phase \in {"frontier", "done"} =>
            \A b \in ToSet(post) \ {Entry} : Settled(b)

FixInv == succ \in Cfgs /\ IInv /\ FingersClimb /\ SettledBehind

-----------------------------------------------------------------------------
(* Facts about sequences. *)

LEMMA FrontFacts ==
  ASSUME NEW S, NEW s \in Seq(S), s # <<>>
  PROVE  /\ Front(s) \in Seq(S)
         /\ Len(s) \in Nat \ {0} /\ Len(Front(s)) = Len(s) - 1
         /\ \A i \in 1 .. Len(s) - 1 : Front(s)[i] = s[i]
         /\ s[Len(s)] \in S
  <1>1. Len(s) \in Nat \ {0} /\ DOMAIN s = 1 .. Len(s)
    BY EmptySeq, LenProperties
  <1>2. /\ 1 \in 1 .. Len(s) + 1 /\ Len(s) - 1 \in 0 .. Len(s)
        /\ Len(s) - 1 - 1 + 1 = Len(s) - 1
    BY <1>1
  <1>3. /\ SubSeq(s, 1, Len(s) - 1) \in Seq(S)
        /\ Len(SubSeq(s, 1, Len(s) - 1)) = Len(s) - 1
        /\ \A i \in 1 .. Len(s) - 1 : SubSeq(s, 1, Len(s) - 1)[i] = s[i]
    BY <1>1
  <1>4. s[Len(s)] \in S
    BY <1>1, ElementOfSeq
  <1> QED BY <1>1, <1>3, <1>4 DEF Front

LEMMA TailFacts ==
  ASSUME NEW S, NEW s \in Seq(S), s # <<>>
  PROVE  /\ Tail(s) \in Seq(S)
         /\ Head(s) \in S
         /\ ToSet(s) = {Head(s)} \cup ToSet(Tail(s))
  <1>1. /\ Tail(s) \in Seq(S)
        /\ Len(Tail(s)) = Len(s) - 1
        /\ \A i \in 1 .. Len(Tail(s)) : Tail(s)[i] = s[i + 1]
        /\ Len(s) \in Nat \ {0} /\ Head(s) = s[1] /\ Head(s) \in S
    BY HeadTailProperties, EmptySeq, LenProperties, ElementOfSeq
  <1>2. DOMAIN s = 1 .. Len(s) /\ DOMAIN Tail(s) = 1 .. Len(s) - 1
    BY <1>1, LenProperties
  <1>3. ToSet(s) \subseteq {Head(s)} \cup ToSet(Tail(s))
    <2>1. SUFFICES ASSUME NEW i \in DOMAIN s, i # 1 PROVE s[i] \in ToSet(Tail(s))
      BY <1>1 DEF ToSet
    <2>2. i - 1 \in DOMAIN Tail(s) /\ Tail(s)[i - 1] = s[i]
      BY <1>1, <1>2, <2>1
    <2> QED BY <2>2 DEF ToSet
  <1>4. ToSet(Tail(s)) \subseteq ToSet(s)
    <2>1. SUFFICES ASSUME NEW i \in DOMAIN Tail(s) PROVE Tail(s)[i] \in ToSet(s)
      BY DEF ToSet
    <2>2. i + 1 \in DOMAIN s /\ Tail(s)[i] = s[i + 1]
      BY <1>1, <1>2
    <2> QED BY <2>2 DEF ToSet
  <1>5. Head(s) \in ToSet(s)
    BY <1>1, <1>2 DEF ToSet
  <1> QED BY <1>1, <1>3, <1>4, <1>5

LEMMA ReverseFacts ==
  ASSUME NEW S, NEW s \in Seq(S)
  PROVE  Reverse(s) \in Seq(S) /\ ToSet(Reverse(s)) = ToSet(s)
  <1> DEFINE r == Reverse(s)
  <1>1. Len(s) \in Nat /\ DOMAIN s = 1 .. Len(s) /\ DOMAIN r = 1 .. Len(s)
    BY LenProperties DEF Reverse
  <1>2. \A i \in 1 .. Len(s) :
            r[i] = s[(Len(s) - i) + 1] /\ (Len(s) - i) + 1 \in 1 .. Len(s)
    BY <1>1 DEF Reverse
  <1>3. r \in Seq(S)
    BY <1>1, <1>2, ElementOfSeq DEF Reverse
  <1>4. ToSet(r) \subseteq ToSet(s)
    BY <1>1, <1>2 DEF ToSet
  <1>5. ASSUME NEW i \in 1 .. Len(s)
        PROVE  s[i] \in ToSet(r)
    <2>1. (Len(s) - i) + 1 \in 1 .. Len(s) /\ (Len(s) - ((Len(s) - i) + 1)) + 1 = i
      BY <1>1
    <2>2. r[(Len(s) - i) + 1] = s[i]
      BY <1>2, <2>1
    <2> QED BY <1>1, <2>1, <2>2 DEF ToSet
  <1> QED BY <1>1, <1>3, <1>4, <1>5 DEF ToSet

-----------------------------------------------------------------------------
(* Facts about dominance. *)

LEMMA NullNotBlock == Null \notin Blocks /\ Entry \in Blocks
  BY DominatorsAssumption

(* What dominates a block, and is not the block, dominates its predecessors. *)
LEMMA DominatesPred ==
  ASSUME NEW b \in Blocks, NEW p \in Preds(b), NEW d \in Blocks,
         StrictlyDominates(d, b)
  PROVE  Dominates(d, p)
  <1>1. CASE d = p \/ d = Entry
    BY <1>1 DEF Dominates
  <1>2. CASE d # p /\ d # Entry
    <2>1. PICK S \in SUBSET (Blocks \ {d, b}) : Entry \in S /\ ClosedAvoiding(d, S)
      BY <1>2 DEF StrictlyDominates, Dominates
    <2>2. PICK i \in DOMAIN succ[p] : succ[p][i] = b
      BY DEF Preds
    <2>3. p \notin S
      BY <2>1, <2>2 DEF ClosedAvoiding, StrictlyDominates
    <2> QED BY <2>1, <2>3 DEF Dominates
  <1> QED BY <1>1, <1>2

LEMMA DominatesEntry ==
  ASSUME NEW d, Dominates(d, Entry)
  PROVE  d = Entry
  BY DEF Dominates

LEMMA DominatesAgain ==
  ASSUME UNCHANGED succ
  PROVE  \A d, b : /\ Dominates(d, b)' <=> Dominates(d, b)
                   /\ StrictlyDominates(d, b)' <=> StrictlyDominates(d, b)
  BY DEF Dominates, StrictlyDominates, ClosedAvoiding

LEMMA PostOrderIds ==
  ASSUME TypeOK, NEW b \in ToSet(post)
  PROVE  PostOrderId(b) \in 1 .. Len(post) /\ post[PostOrderId(b)] = b
  <1>1. \E i \in DOMAIN post : post[i] = b
    BY DEF ToSet
  <1> QED BY <1>1, LenProperties DEF PostOrderId, TypeOK

-----------------------------------------------------------------------------
(* Types. *)

Frames == [bb : Blocks, next : Nat \ {0}]

LEMMA InitType == Init => TypeOK
  <1> SUFFICES ASSUME Init PROVE TypeOK
    OBVIOUS
  <1>1. succ \in [Blocks -> Seq(Blocks)]
    BY DominatorsAssumption DEF Init
  <1>2. stack \in Seq([bb : Blocks, next : Nat \ {0}])
    BY NullNotBlock DEF Init
  <1>3. post \in Seq(Blocks) /\ rest \in Seq(Blocks)
    BY DEF Init
  <1>4. idom \in [Blocks -> Pointers]
    BY NullNotBlock DEF Init, Pointers
  <1>5. /\ join \in [bb : Pointers, left : SUBSET Blocks, new : Pointers, finger : Pointers]
        /\ walk \in [left : SUBSET (Blocks \X Blocks), bb : Pointers, runner : Pointers]
    BY DEF Init, NoJoin, NoWalk, Pointers
  <1>6. /\ phase \in {"visit", "sweep", "join", "frontier", "done"}
        /\ changed \in BOOLEAN
        /\ frontier \in [Blocks -> SUBSET Blocks]
        /\ children \in [Blocks -> SUBSET Blocks]
    BY DEF Init
  <1> QED BY <1>1, <1>2, <1>3, <1>4, <1>5, <1>6 DEF TypeOK

(* The stack a step of the search works on. *)
LEMMA TopFacts ==
  ASSUME TypeOK, stack # <<>>
  PROVE  LET n     == Len(stack)
             top   == stack[n]
             below == Front(stack)
             after == Append(below, [top EXCEPT !.next = @ + 1])
         IN  /\ n \in Nat \ {0} /\ DOMAIN stack = 1 .. n
             /\ top \in Frames
             /\ below \in Seq(Frames) /\ DOMAIN below = 1 .. n - 1
             /\ \A i \in 1 .. n - 1 : below[i] = stack[i]
             /\ after \in Seq(Frames) /\ DOMAIN after = 1 .. n
             /\ \A i \in 1 .. n - 1 : after[i] = stack[i]
             /\ after[n] = [bb |-> top.bb, next |-> top.next + 1]
  <1> DEFINE n     == Len(stack)
             top   == stack[n]
             below == Front(stack)
             elem  == [top EXCEPT !.next = @ + 1]
  <1>1. stack \in Seq(Frames)
    BY DEF TypeOK, Frames
  <1>2. /\ below \in Seq(Frames)
        /\ n \in Nat \ {0} /\ Len(below) = n - 1
        /\ \A i \in 1 .. n - 1 : below[i] = stack[i]
        /\ top \in Frames
    BY <1>1, FrontFacts
  <1>3. DOMAIN stack = 1 .. n /\ DOMAIN below = 1 .. n - 1
    BY <1>1, <1>2, LenProperties
  <1>4. elem = [bb |-> top.bb, next |-> top.next + 1] /\ elem \in Frames
    BY <1>2 DEF Frames
  <1> HIDE DEF below, elem, top
  <1>5. /\ Append(below, elem) \in Seq(Frames)
        /\ Len(Append(below, elem)) = n - 1 + 1
        /\ \A i \in 1 .. n - 1 : Append(below, elem)[i] = below[i]
        /\ Append(below, elem)[n - 1 + 1] = elem
    BY <1>2, <1>4, AppendProperties
  <1>6. n - 1 + 1 = n
    BY <1>2
  <1>7. DOMAIN Append(below, elem) = 1 .. n
    BY <1>5, <1>6, LenProperties
  <1> QED BY <1>2, <1>3, <1>4, <1>5, <1>6, <1>7 DEF below, elem, top

(* What the search does to stack and post. *)
LEMMA VisitCases ==
  ASSUME TypeOK, PostOrderVisit
  PROVE  LET n     == Len(stack)
             top   == stack[n]
             after == Append(Front(stack), [top EXCEPT !.next = @ + 1])
         IN  \/ /\ ~(top.next \in DOMAIN succ[top.bb])
                /\ stack' = Front(stack) /\ post' = Append(post, top.bb)
             \/ /\ top.next \in DOMAIN succ[top.bb]
                /\ succ[top.bb][top.next] \in Visited
                /\ stack' = after /\ post' = post
             \/ /\ top.next \in DOMAIN succ[top.bb]
                /\ succ[top.bb][top.next] \in Blocks \ Visited
                /\ stack' = Append(after, [bb |-> succ[top.bb][top.next], next |-> 1])
                /\ post' = post
  <1> DEFINE top == stack[Len(stack)]
  <1>1. top \in Frames
    BY TopFacts DEF PostOrderVisit
  <1>2. succ[top.bb] \in Seq(Blocks)
    BY <1>1 DEF Frames, TypeOK
  <1>3. /\ DOMAIN succ[top.bb] = 1 .. Len(succ[top.bb])
        /\ Len(succ[top.bb]) \in Nat
        /\ \A i \in DOMAIN succ[top.bb] : succ[top.bb][i] \in Blocks
    BY <1>2, LenProperties
  <1>4. /\ top.next > Len(succ[top.bb]) <=> ~(top.next \in DOMAIN succ[top.bb])
        /\ top.next <= Len(succ[top.bb]) <=> top.next \in DOMAIN succ[top.bb]
    BY <1>1, <1>3 DEF Frames
  <1>5. \/ /\ top.next > Len(succ[top.bb])
           /\ stack' = Front(stack) /\ post' = Append(post, top.bb)
        \/ /\ top.next <= Len(succ[top.bb])
           /\ stack' = IF succ[top.bb][top.next] \in Visited
                       THEN Append(Front(stack), [top EXCEPT !.next = @ + 1])
                       ELSE Append(Append(Front(stack), [top EXCEPT !.next = @ + 1]),
                                   [bb |-> succ[top.bb][top.next], next |-> 1])
           /\ post' = post
    BY DEF PostOrderVisit
  <1> QED BY <1>3, <1>4, <1>5

LEMMA VisitType ==
  ASSUME TypeOK, PostOrderVisit
  PROVE  TypeOK'
  <1> DEFINE n     == Len(stack)
             top   == stack[n]
             after == Append(Front(stack), [top EXCEPT !.next = @ + 1])
  <1>1. /\ Front(stack) \in Seq(Frames) /\ after \in Seq(Frames)
        /\ top \in Frames
    BY TopFacts DEF PostOrderVisit
  <1>2. Append(post, top.bb) \in Seq(Blocks)
    BY <1>1, AppendProperties DEF Frames, TypeOK
  <1>3. \A b \in Blocks : Append(after, [bb |-> b, next |-> 1]) \in Seq(Frames)
    <2>1. \A b \in Blocks : [bb |-> b, next |-> 1] \in Frames
      BY DEF Frames
    <2> HIDE DEF after
    <2> QED BY <1>1, <2>1, AppendProperties
  <1> HIDE DEF after, top
  <1>4. stack' \in Seq(Frames) /\ post' \in Seq(Blocks)
    BY <1>1, <1>2, <1>3, VisitCases DEF TypeOK, after, top
  <1> QED BY <1>4 DEF TypeOK, Frames, PostOrderVisit, results

LEMMA StepType ==
  ASSUME TypeOK, FingersDominated, [Next]_vars
  PROVE  TypeOK'
  <1> USE NullNotBlock DEF graph, results, Pointers
  <1>1. CASE PostOrderVisit
    BY <1>1, VisitType
  <1>2. CASE VisitEnd
    BY <1>2 DEF VisitEnd, TypeOK
  <1>3. CASE SweepStart
    <2>1. rest' \in Seq(Blocks)
      BY <1>3, ReverseFacts DEF SweepStart, TypeOK
    <2> QED BY <1>3, <2>1 DEF SweepStart, TypeOK
  <1>4. CASE SkipEntry
    <2>1. rest' \in Seq(Blocks)
      BY <1>4, TailFacts DEF SkipEntry, TypeOK
    <2> QED BY <1>4, <2>1 DEF SkipEntry, TypeOK
  <1>5. CASE JoinEnd
    <2>1. idom' \in [Blocks -> Pointers] /\ changed' \in BOOLEAN
      BY <1>5 DEF JoinEnd, TypeOK
    <2>2. rest' \in Seq(Blocks)
      BY <1>5, TailFacts DEF JoinEnd, FingersDominated, TypeOK
    <2> QED BY <1>5, <2>1, <2>2 DEF JoinEnd, NoJoin, TypeOK
  <1>6. CASE Intersect
    <2>1. join' \in [bb : Pointers, left : SUBSET Blocks, new : Pointers, finger : Pointers]
      BY <1>6 DEF Intersect, FingersDominated, TypeOK
    <2> QED BY <1>6, <2>1 DEF Intersect, TypeOK
  <1>7. ASSUME NEW p \in Blocks, PickPred(p) PROVE TypeOK'
    <2>1. Head(rest) \in Blocks
      BY <1>7, TailFacts DEF PickPred, TypeOK
    <2>2. Preds(Head(rest)) \in SUBSET Blocks
      BY DEF Preds
    <2> QED BY <1>7, <2>1, <2>2 DEF PickPred, TypeOK
  <1>8. ASSUME NEW p \in Blocks, JoinPred(p) PROVE TypeOK'
    BY <1>8 DEF JoinPred, TypeOK
  <1>9. CASE SweepsEnd
    BY <1>9 DEF SweepsEnd, NoWalk, JoinEdges, TypeOK
  <1>10. CASE WalkUp
    <2>1. walk.bb \in Blocks
      BY <1>10 DEF WalkUp, TypeOK
    <2>2. CASE walk.runner = idom[walk.bb]
      BY <1>10, <2>2 DEF WalkUp, TypeOK
    <2>3. CASE walk.runner # idom[walk.bb]
      <3>1. walk.runner \in Blocks
        BY <1>10, <2>3 DEF WalkUp, TypeOK
      <3>2. /\ frontier' = [frontier EXCEPT ![walk.runner] = @ \cup {walk.bb}]
            /\ walk' = [walk EXCEPT !.runner = idom[walk.runner]]
        BY <1>10, <2>3 DEF WalkUp
      <3>3. frontier' \in [Blocks -> SUBSET Blocks]
        BY <2>1, <3>1, <3>2 DEF TypeOK
      <3>4. walk' \in [left : SUBSET (Blocks \X Blocks), bb : Pointers, runner : Pointers]
        BY <3>1, <3>2 DEF TypeOK
      <3> QED BY <1>10, <3>3, <3>4 DEF WalkUp, TypeOK
    <2> QED BY <2>2, <2>3
  <1>11. CASE BuildTree
    BY <1>11 DEF BuildTree, TypeOK
  <1>12. ASSUME NEW e \in JoinEdges, StartWalk(e) PROVE TypeOK'
    BY <1>12 DEF StartWalk, JoinEdges, TypeOK
  <1>13. CASE UNCHANGED vars
    BY <1>13 DEF vars, TypeOK
  <1> QED BY <1>1, <1>2, <1>3, <1>4, <1>5, <1>6, <1>7, <1>8, <1>9, <1>10,
             <1>11, <1>12, <1>13 DEF Next, Step, Done

-----------------------------------------------------------------------------
(* The search. *)

LEMMA InitSearch ==
  ASSUME Init
  PROVE  SearchInv
  <1>1. stack = <<[bb |-> Entry, next |-> 1]>> /\ post = <<>> /\ phase = "visit"
    BY DEF Init
  <1>2. MetOnce /\ DominatorsLater
    BY <1>1 DEF MetOnce, DominatorsLater
  <1>3. DominatorsBelow
    BY <1>1, DominatesEntry DEF DominatorsBelow
  <1>4. SuccessorsVisited
    <2>1. succ[Entry] \in Seq(Blocks)
      BY NullNotBlock, InitType DEF TypeOK
    <2>2. \A k \in DOMAIN succ[Entry] : ~(k < 1)
      BY <2>1, LenProperties
    <2>3. DOMAIN stack = {1} /\ stack[1].bb = Entry /\ stack[1].next = 1
      BY <1>1
    <2> QED BY <1>1, <2>2, <2>3 DEF SuccessorsVisited, Visited, ToSet
  <1> QED BY <1>1, <1>2, <1>3, <1>4 DEF SearchInv

(* A call of post_order_visit ends: its block goes to post. *)
LEMMA VisitReturns ==
  ASSUME TypeOK, SearchInv, PostOrderVisit,
         stack' = Front(stack), post' = Append(post, stack[Len(stack)].bb),
         ~(stack[Len(stack)].next \in DOMAIN succ[stack[Len(stack)].bb])
  PROVE  SearchInv'
  <1> DEFINE n == Len(stack)
             m == Len(post)
             b == stack[n].bb
  <1>1. /\ n \in Nat \ {0} /\ DOMAIN stack = 1 .. n
        /\ stack[n] \in Frames /\ b \in Blocks
        /\ DOMAIN stack' = 1 .. n - 1
        /\ \A i \in 1 .. n - 1 : stack'[i] = stack[i]
    BY TopFacts DEF PostOrderVisit, Frames
  <1>2. /\ m \in Nat /\ DOMAIN post = 1 .. m
        /\ DOMAIN post' = 1 .. m + 1
        /\ \A i \in 1 .. m : post'[i] = post[i]
        /\ post'[m + 1] = b
    BY <1>1, AppendProperties, LenProperties DEF TypeOK
  <1>3. succ' = succ /\ phase = "visit" /\ phase' = "visit"
    BY DEF PostOrderVisit
  <1>4. \A i \in 1 .. n : \A j \in 1 .. n : stack[i].bb = stack[j].bb => i = j
    BY <1>1 DEF SearchInv, MetOnce
  <1>5. \A i \in 1 .. m : \A j \in 1 .. n : post[i] # stack[j].bb
    BY <1>1, <1>2 DEF SearchInv, MetOnce
  <1>6. \A i \in 1 .. m : \A j \in 1 .. m : post[i] = post[j] => i = j
    BY <1>2 DEF SearchInv, MetOnce
  <1> HIDE DEF b, m, n
  <1>7. Visited' = Visited
    <2>1. \A x : x \in Visited <=> \/ \E i \in 1 .. m : post[i] = x
                                   \/ \E i \in 1 .. n : stack[i].bb = x
      BY <1>1, <1>2 DEF Visited, ToSet
    <2>2. \A x : x \in Visited' <=> \/ \E i \in 1 .. m + 1 : post'[i] = x
                                    \/ \E i \in 1 .. n - 1 : stack'[i].bb = x
      BY <1>1, <1>2 DEF Visited, ToSet
    <2>3. \A x : x \in Visited' <=> \/ \E i \in 1 .. m : post[i] = x
                                    \/ b = x
                                    \/ \E i \in 1 .. n - 1 : stack[i].bb = x
      BY <1>1, <1>2, <2>2
    <2>4. /\ 1 .. n = (1 .. n - 1) \cup {n}
          /\ stack[n].bb = b
      BY <1>1 DEF b
    <2> QED BY <2>1, <2>3, <2>4
  <1>8. MetOnce'
    <2>1. \A i \in 1 .. m : post[i] # b
      BY <1>1, <1>5 DEF b
    <2>2. \A i \in 1 .. n - 1 : stack[i].bb # b
      BY <1>1, <1>4 DEF b
    <2>3. \A i, j \in 1 .. m + 1 : post'[i] = post'[j] => i = j
      BY <1>2, <1>6, <2>1
    <2>4. \A i \in 1 .. n - 1 : \A j \in 1 .. m + 1 : stack'[i].bb # post'[j]
      BY <1>1, <1>2, <1>5, <2>2
    <2>5. \A i, j \in 1 .. n - 1 : stack'[i].bb = stack'[j].bb => i = j
      BY <1>1, <1>4
    <2> QED BY <1>1, <1>2, <2>3, <2>4, <2>5 DEF MetOnce
  <1>9. DominatorsBelow'
    BY <1>1, <1>3, DominatesAgain DEF SearchInv, DominatorsBelow
  <1>10. DominatorsLater'
    <2>1. SUFFICES ASSUME NEW i \in 1 .. m + 1, NEW j \in 1 .. m + 1, j < i,
                          Dominates(post'[j], post'[i])
                   PROVE  post'[j] = Entry
      BY <1>2, <1>3, DominatesAgain DEF DominatorsLater
    <2>2. j \in 1 .. m /\ post'[j] = post[j]
      BY <1>2, <2>1
    <2>3. CASE i \in 1 .. m
      BY <1>2, <2>1, <2>2, <2>3 DEF SearchInv, DominatorsLater
    <2>4. CASE i = m + 1
      <3>1. Dominates(post[j], stack[n].bb)
        BY <1>2, <2>1, <2>2, <2>4 DEF b
      <3>2. post[j] \in Blocks
        BY <2>2, <1>2, ElementOfSeq DEF TypeOK, m
      <3>3. post[j] # Entry => \E k \in 1 .. n : stack[k].bb = post[j]
        BY <1>1, <3>1, <3>2 DEF SearchInv, DominatorsBelow
      <3> QED BY <1>5, <2>2, <3>3
    <2> QED BY <1>2, <2>1, <2>3, <2>4
  <1>11. SuccessorsVisited'
    <2>1. ToSet(succ[b]) \subseteq Visited
      <3>1. SUFFICES ASSUME NEW k \in DOMAIN succ[b] PROVE succ[b][k] \in Visited
        BY DEF ToSet
      <3>2. /\ succ[b] \in Seq(Blocks)
            /\ DOMAIN succ[b] = 1 .. Len(succ[b]) /\ Len(succ[b]) \in Nat
        BY <1>1, LenProperties DEF TypeOK
      <3>3. stack[n].next \in Nat \ {0} /\ ~(stack[n].next \in DOMAIN succ[b])
        BY <1>1 DEF Frames, b, n
      <3>4. k < stack[n].next
        BY <3>1, <3>2, <3>3
      <3> QED BY <1>1, <3>1, <3>4 DEF SearchInv, SuccessorsVisited, b
    <2>2. \A i \in 1 .. m + 1 : ToSet(succ[post'[i]]) \subseteq Visited
      <3>1. SUFFICES ASSUME NEW i \in 1 .. m + 1
                     PROVE  ToSet(succ[post'[i]]) \subseteq Visited
        OBVIOUS
      <3>2. CASE i \in 1 .. m
        BY <1>2, <3>2 DEF SearchInv, SuccessorsVisited
      <3>3. CASE i = m + 1
        BY <1>2, <2>1, <3>3
      <3> QED BY <1>2, <3>2, <3>3
    <2>3. \A i \in 1 .. n - 1 : \A k \in DOMAIN succ[stack'[i].bb] :
                k < stack'[i].next => succ[stack'[i].bb][k] \in Visited
      <3>1. \A i \in DOMAIN stack : \A k \in DOMAIN succ[stack[i].bb] :
                k < stack[i].next => succ[stack[i].bb][k] \in Visited
        BY DEF SearchInv, SuccessorsVisited
      <3>2. \A i \in 1 .. n - 1 : i \in DOMAIN stack /\ stack'[i] = stack[i]
        BY <1>1
      <3> QED BY <3>1, <3>2
    <2> QED BY <1>1, <1>2, <1>3, <1>7, <2>2, <2>3 DEF SearchInv, SuccessorsVisited
  <1> QED BY <1>3, <1>8, <1>9, <1>10, <1>11 DEF SearchInv

(* The search looks at the next successor of the block on top, which is    *)
(* visited already: only the top of the stack changes, and only its next.  *)
LEMMA VisitPasses ==
  ASSUME TypeOK, SearchInv, post' = post, succ' = succ, phase' = "visit",
         NEW n \in Nat \ {0}, NEW b \in Blocks, NEW next \in Nat,
         DOMAIN stack = 1 .. n, stack[n].bb = b, stack[n].next = next,
         DOMAIN stack' = 1 .. n,
         \A i \in 1 .. n - 1 : stack'[i] = stack[i],
         stack'[n] = [bb |-> b, next |-> next + 1],
         succ[b][next] \in Visited
  PROVE  SearchInv'
  <1>1. 1 .. n = (1 .. n - 1) \cup {n} /\ n \in 1 .. n
    OBVIOUS
  <1>2. stack'[n].bb = b /\ stack'[n].next = next + 1
    OBVIOUS
  <1>3. \A i \in 1 .. n : stack'[i].bb = stack[i].bb
    BY <1>1, <1>2
  <1>5. Visited' = Visited
    BY <1>1, <1>3 DEF Visited, ToSet
  <1>6. MetOnce'
    BY <1>1, <1>3 DEF SearchInv, MetOnce
  <1>7. DominatorsBelow'
    <2>1. SUFFICES ASSUME NEW i \in 1 .. n, NEW d \in Blocks \ {Entry},
                          Dominates(d, stack[i].bb)
                   PROVE  \E j \in 1 .. i : stack'[j].bb = d
      BY <1>1, <1>3, DominatesAgain DEF DominatorsBelow
    <2>2. PICK j \in 1 .. i : stack[j].bb = d
      BY <1>1, <2>1 DEF SearchInv, DominatorsBelow
    <2>3. j \in 1 .. n
      BY <1>1, <2>1, <2>2
    <2> QED BY <1>3, <2>2, <2>3
  <1>8. DominatorsLater'
    BY DominatesAgain DEF SearchInv, DominatorsLater
  <1>9. SuccessorsVisited'
    <2>1. SUFFICES ASSUME NEW i \in 1 .. n, NEW k \in DOMAIN succ[stack[i].bb],
                          k < stack'[i].next
                   PROVE  succ[stack[i].bb][k] \in Visited
      BY <1>1, <1>3, <1>5 DEF SearchInv, SuccessorsVisited
    <2>2. CASE i = n
      <3>1. stack[i].bb = b /\ stack'[i].next = next + 1
        BY <1>2, <2>2
      <3>2. k \in Nat
        BY <1>1, <3>1, LenProperties DEF TypeOK
      <3>3. CASE k = next
        BY <3>1, <3>3
      <3>4. CASE k < next
        BY <1>1, <2>1, <2>2, <3>4 DEF SearchInv, SuccessorsVisited
      <3>5. k < next + 1
        BY <2>1, <3>1
      <3>6. k = next \/ k < next
        BY <3>2, <3>5
      <3> QED BY <3>3, <3>4, <3>6
    <2>3. CASE i # n
      <3>1. stack'[i] = stack[i]
        BY <1>1, <2>3
      <3> QED BY <1>1, <2>1, <3>1 DEF SearchInv, SuccessorsVisited
    <2> QED BY <2>2, <2>3
  <1> QED BY <1>6, <1>7, <1>8, <1>9 DEF SearchInv

(* The search calls itself on the next successor c of the block on top. *)
LEMMA VisitCalls ==
  ASSUME TypeOK, SearchInv, post' = post, succ' = succ, phase' = "visit",
         NEW n \in Nat \ {0}, NEW b \in Blocks, NEW next \in Nat, NEW c,
         DOMAIN stack = 1 .. n, stack[n].bb = b, stack[n].next = next,
         DOMAIN stack' = 1 .. n + 1,
         \A i \in 1 .. n - 1 : stack'[i] = stack[i],
         stack'[n] = [bb |-> b, next |-> next + 1],
         stack'[n + 1] = [bb |-> c, next |-> 1],
         succ[b][next] = c, c \in Blocks \ Visited, b \in Preds(c)
  PROVE  SearchInv'
  <1>1. /\ 1 .. n + 1 = (1 .. n) \cup {n + 1} /\ n + 1 \notin 1 .. n
        /\ 1 .. n = (1 .. n - 1) \cup {n} /\ n \in 1 .. n
    OBVIOUS
  <1>2. /\ stack'[n].bb = b /\ stack'[n].next = next + 1
        /\ stack'[n + 1].bb = c /\ stack'[n + 1].next = 1
    OBVIOUS
  <1>3. \A i \in 1 .. n : stack'[i].bb = stack[i].bb
    BY <1>1, <1>2
  <1>4. \A i \in 1 .. n : stack[i].bb # c
    BY DEF Visited
  <1>5. \A i \in DOMAIN post : post[i] # c
    BY DEF Visited, ToSet
  <1>6. Visited' = Visited \cup {c}
    <2>1. \A x : x \in Visited <=> x \in ToSet(post) \/ \E i \in 1 .. n : stack[i].bb = x
      BY DEF Visited
    <2>2. \A x : x \in Visited' <=> \/ x \in ToSet(post)
                                    \/ \E i \in 1 .. n + 1 : stack'[i].bb = x
      BY DEF Visited
    <2> QED BY <1>1, <1>2, <1>3, <2>1, <2>2
  <1>7. MetOnce'
    <2>1. \A i, j \in 1 .. n + 1 : stack'[i].bb = stack'[j].bb => i = j
      <3>1. \A i, j \in 1 .. n : stack[i].bb = stack[j].bb => i = j
        BY DEF SearchInv, MetOnce
      <3> QED BY <1>1, <1>2, <1>3, <1>4, <3>1
    <2>2. \A i \in 1 .. n + 1, j \in DOMAIN post : stack'[i].bb # post[j]
      <3>1. \A i \in 1 .. n, j \in DOMAIN post : stack[i].bb # post[j]
        BY DEF SearchInv, MetOnce
      <3> QED BY <1>1, <1>2, <1>3, <1>5, <3>1
    <2>3. \A i, j \in DOMAIN post' : post'[i] = post'[j] => i = j
      BY DEF SearchInv, MetOnce
    <2> QED BY <2>1, <2>2, <2>3 DEF MetOnce
  <1>8. DominatorsBelow'
    <2>1. SUFFICES ASSUME NEW i \in 1 .. n + 1, NEW d \in Blocks \ {Entry},
                          Dominates(d, stack'[i].bb)
                   PROVE  \E j \in 1 .. i : stack'[j].bb = d
      BY DominatesAgain DEF DominatorsBelow
    <2>2. ASSUME NEW k \in 1 .. n, k <= i, Dominates(d, stack[k].bb)
          PROVE  \E j \in 1 .. i : stack'[j].bb = d
      <3>1. PICK j \in 1 .. k : stack[j].bb = d
        BY <2>2 DEF SearchInv, DominatorsBelow
      <3>2. j \in 1 .. n /\ j \in 1 .. i
        BY <2>1, <2>2, <3>1
      <3> QED BY <1>3, <3>1, <3>2
    <2>3. CASE i \in 1 .. n
      <3>1. stack'[i].bb = stack[i].bb /\ i <= i
        BY <1>3, <2>3
      <3> QED BY <2>1, <2>2, <2>3, <3>1
    <2>4. CASE i = n + 1
      <3>1. stack'[i].bb = c /\ i \in 1 .. i
        BY <1>2, <2>4
      <3>2. CASE d = c
        BY <3>1, <3>2
      <3>3. CASE d # c
        <4>1. Dominates(d, b)
          BY <2>1, <3>1, <3>3, DominatesPred DEF StrictlyDominates
        <4>2. n \in 1 .. n /\ n <= i /\ Dominates(d, stack[n].bb)
          BY <2>4, <4>1
        <4> QED BY <2>2, <4>2
      <3> QED BY <3>2, <3>3
    <2> QED BY <1>1, <2>3, <2>4
  <1>9. DominatorsLater'
    BY DominatesAgain DEF SearchInv, DominatorsLater
  <1>10. SuccessorsVisited'
    <2>1. SUFFICES ASSUME NEW i \in 1 .. n + 1, NEW k \in DOMAIN succ[stack'[i].bb],
                          k < stack'[i].next
                   PROVE  succ[stack'[i].bb][k] \in Visited \cup {c}
      BY <1>6 DEF SearchInv, SuccessorsVisited
    <2>2. k \in Nat \ {0}
      <3>1. stack'[i].bb \in Blocks
        <4>1. \A j \in 1 .. n : stack[j].bb \in Blocks
          <5>1. stack \in Seq(Frames) /\ \A f \in Frames : f.bb \in Blocks
            BY DEF TypeOK, Frames
          <5>2. \A j \in 1 .. n : stack[j] \in Frames
            BY <5>1, ElementOfSeq, LenProperties
          <5> QED BY <5>1, <5>2
        <4> QED BY <1>1, <1>2, <1>3, <4>1
      <3>2. succ[stack'[i].bb] \in Seq(Blocks)
        BY <3>1 DEF TypeOK
      <3> QED BY <3>2, LenProperties
    <2>3. CASE i = n + 1
      BY <1>2, <2>1, <2>2, <2>3
    <2>4. CASE i = n
      <3>1. CASE k = next
        BY <1>2, <2>4, <3>1
      <3>2. CASE k < next
        BY <1>1, <1>2, <2>1, <2>4, <3>2 DEF SearchInv, SuccessorsVisited
      <3>3. k < next + 1
        BY <1>2, <2>1, <2>4
      <3>4. k = next \/ k < next
        BY <2>2, <3>3
      <3> QED BY <3>1, <3>2, <3>4
    <2>5. CASE i \in 1 .. n - 1
      <3>1. stack'[i] = stack[i] /\ i \in 1 .. n
        BY <2>5
      <3> QED BY <2>1, <3>1 DEF SearchInv, SuccessorsVisited
    <2> QED BY <1>1, <2>3, <2>4, <2>5
  <1> QED BY <1>7, <1>8, <1>9, <1>10 DEF SearchInv

LEMMA VisitSearch ==
  ASSUME TypeOK, SearchInv, PostOrderVisit
  PROVE  SearchInv'
  <1> DEFINE n     == Len(stack)
             top   == stack[n]
             b     == top.bb
             next  == top.next
             after == Append(Front(stack), [top EXCEPT !.next = @ + 1])
  <1>1. /\ n \in Nat \ {0} /\ DOMAIN stack = 1 .. n
        /\ top \in Frames
        /\ after \in Seq(Frames) /\ DOMAIN after = 1 .. n
        /\ \A i \in 1 .. n - 1 : after[i] = stack[i]
        /\ after[n] = [bb |-> b, next |-> next + 1]
    BY TopFacts DEF PostOrderVisit
  <1>6. b \in Blocks /\ next \in Nat
    <2>1. \A f \in Frames : f.bb \in Blocks /\ f.next \in Nat
      BY DEF Frames
    <2> HIDE DEF top
    <2> QED BY <1>1, <2>1
  <1>2. succ' = succ /\ phase' = "visit"
    BY DEF PostOrderVisit
  <1>3. CASE ~(next \in DOMAIN succ[b])
    BY <1>3, VisitCases, VisitReturns
  <1>4. CASE /\ next \in DOMAIN succ[b] /\ succ[b][next] \in Visited
             /\ stack' = after /\ post' = post
    <2>1. DOMAIN stack' = 1 .. n /\ \A i \in 1 .. n - 1 : stack'[i] = stack[i]
      BY <1>1, <1>4
    <2>2. stack'[n] = [bb |-> b, next |-> next + 1]
      BY <1>1, <1>4
    <2> HIDE DEF after
    <2> QED BY <1>1, <1>2, <1>4, <1>6, <2>1, <2>2, VisitPasses
  <1>5. CASE /\ next \in DOMAIN succ[b] /\ succ[b][next] \in Blocks \ Visited
             /\ stack' = Append(after, [bb |-> succ[b][next], next |-> 1])
             /\ post' = post
    <2> DEFINE c == succ[b][next]
    <2>1. c \in Blocks \ Visited /\ b \in Preds(c)
      BY <1>1, <1>5, <1>6 DEF Preds
    <2> HIDE DEF after, c, b, next
    <2>2. [bb |-> c, next |-> 1] \in Frames /\ Len(after) = n
      BY <1>1, <2>1, LenProperties DEF Frames
    <2>3. /\ DOMAIN stack' = 1 .. n + 1
          /\ \A i \in 1 .. n : stack'[i] = after[i]
          /\ stack'[n + 1] = [bb |-> c, next |-> 1]
      <3>1. stack' = Append(after, [bb |-> c, next |-> 1])
        BY <1>5 DEF c
      <3> HIDE DEF n
      <3> QED BY <1>1, <2>2, <3>1, AppendProperties, LenProperties
    <2> HIDE DEF n
    <2>4. \A i \in 1 .. n - 1 : stack'[i] = stack[i]
      BY <1>1, <2>3
    <2>5. stack'[n] = [bb |-> b, next |-> next + 1]
      BY <1>1, <2>3
    <2>6. stack[n].bb = b /\ stack[n].next = next /\ succ[b][next] = c
      BY DEF b, next, c
    <2> QED BY <1>1, <1>2, <1>5, <1>6, <2>1, <2>3, <2>4, <2>5, <2>6, VisitCalls
  <1> QED BY <1>3, <1>4, <1>5, VisitCases

(* The other steps leave the search alone. *)
LEMMA OtherSearch ==
  ASSUME SearchInv, UNCHANGED graph, phase' # "visit" => phase # "visit" \/ stack = <<>>
  PROVE  SearchInv'
  <1>1. succ' = succ /\ stack' = stack /\ post' = post
    BY DEF graph
  <1>2. MetOnce' /\ SuccessorsVisited' /\ Visited' = Visited
    BY <1>1 DEF SearchInv, MetOnce, SuccessorsVisited, Visited
  <1>3. DominatorsBelow' /\ DominatorsLater'
    BY <1>1, DominatesAgain DEF SearchInv, DominatorsBelow, DominatorsLater
  <1> QED BY <1>1, <1>2, <1>3 DEF SearchInv

-----------------------------------------------------------------------------
(* The sweeps lose no dominator. *)

SweepInv ==
    /\ ToSet(rest) \subseteq ToSet(post)
    /\ ChainsVisited
    /\ FingersDominated
    /\ NoDominatorLost

LEMMA InitSweep ==
  ASSUME Init
  PROVE  SweepInv
  <1>1. ToSet(rest) \subseteq ToSet(post) /\ phase = "visit"
    BY DEF Init, ToSet
  <1>2. \A b \in Blocks : idom[b] # Null => b = Entry
    BY DEF Init
  <1>3. idom[Entry] = Entry /\ Entry \in Visited
    BY NullNotBlock, InitSearch DEF Init, SearchInv, SuccessorsVisited
  <1>4. ChainsVisited
    BY <1>1, <1>2, <1>3, NullNotBlock DEF ChainsVisited
  <1> QED BY <1>1, <1>2, <1>4 DEF SweepInv, FingersDominated, NoDominatorLost

LEMMA VisitSweep ==
  ASSUME TypeOK, SearchInv, SweepInv, PostOrderVisit
  PROVE  SweepInv'
  <1>1. /\ phase = "visit" /\ phase' = "visit" /\ succ' = succ
        /\ idom' = idom /\ rest' = rest /\ join' = join
    BY DEF PostOrderVisit
  <1>2. ToSet(post) \subseteq ToSet(post')
    <2> DEFINE b == stack[Len(stack)].bb
    <2>1. b \in Blocks
      BY TopFacts DEF PostOrderVisit, Frames
    <2> HIDE DEF b
    <2>2. \A i \in DOMAIN post : i \in DOMAIN Append(post, b) /\ Append(post, b)[i] = post[i]
      BY <2>1, AppendProperties, LenProperties DEF TypeOK
    <2>3. ToSet(post) \subseteq ToSet(Append(post, b))
      BY <2>2 DEF ToSet
    <2> QED BY <2>3, VisitCases DEF b
  <1>3. Entry \in Visited'
    BY VisitSearch DEF SearchInv, SuccessorsVisited
  <1>4. ChainsVisited'
    BY <1>1, <1>3, NullNotBlock DEF SweepInv, ChainsVisited
  <1>5. NoDominatorLost'
    BY <1>1, DominatesAgain DEF SweepInv, NoDominatorLost
  <1> QED BY <1>1, <1>2, <1>4, <1>5 DEF SweepInv, FingersDominated

(* The steps that change neither the graph nor idom_. *)
LEMMA IdomKept ==
  ASSUME SweepInv, UNCHANGED graph, idom' = idom, phase' = "visit" => phase = "visit"
  PROVE  ChainsVisited' /\ NoDominatorLost'
  <1>1. succ' = succ /\ Visited' = Visited
    BY DEF graph, Visited
  <1>2. ChainsVisited'
    BY <1>1 DEF SweepInv, ChainsVisited
  <1>3. NoDominatorLost'
    BY <1>1, DominatesAgain DEF SweepInv, NoDominatorLost
  <1> QED BY <1>2, <1>3

(* A block dominated by the same block as one that comes later in post      *)
(* order is not that dominator, so its idom is dominated too.               *)
LEMMA Climb ==
  ASSUME TypeOK, SearchInv, SweepInv, phase # "visit",
         NEW low \in Blocks, NEW high \in Blocks,
         idom[low] # Null, idom[high] # Null, PostOrderId(low) < PostOrderId(high),
         NEW d \in Blocks, Dominates(d, low), Dominates(d, high)
  PROVE  Dominates(d, idom[low])
  <1>1. CASE d = Entry
    BY <1>1 DEF Dominates
  <1>2. CASE d # Entry
    <2>1. low # Entry
      BY <1>2, DominatesEntry
    <2>2. low \in ToSet(post) /\ high \in ToSet(post)
      BY DEF SweepInv, ChainsVisited, SearchInv, Visited
    <2>3. /\ PostOrderId(low) \in DOMAIN post /\ post[PostOrderId(low)] = low
          /\ PostOrderId(high) \in DOMAIN post /\ post[PostOrderId(high)] = high
      BY <2>2, PostOrderIds, LenProperties DEF TypeOK
    <2>4. d # low
      BY <2>1, <2>3 DEF SearchInv, DominatorsLater
    <2>5. StrictlyDominates(d, low)
      BY <2>4 DEF StrictlyDominates
    <2> QED BY <2>1, <2>5 DEF SweepInv, NoDominatorLost
  <1> QED BY <1>1, <1>2

(* The fingers of an intersection, and their order. *)
LEMMA Fingers ==
  ASSUME TypeOK, SearchInv, SweepInv, phase = "join", join.finger # Null
  PROVE  /\ join.finger \in Blocks /\ join.new \in Blocks /\ join.bb \in Blocks
         /\ idom[join.finger] \in Blocks /\ idom[join.new] \in Blocks
         /\ idom[idom[join.finger]] # Null /\ idom[idom[join.new]] # Null
         /\ join.finger # join.new =>
                \/ PostOrderId(join.finger) < PostOrderId(join.new)
                \/ ~(PostOrderId(join.finger) < PostOrderId(join.new))
                   /\ PostOrderId(join.new) < PostOrderId(join.finger)
  <1>1. join.finger \in Blocks /\ join.new \in Blocks /\ join.bb \in Pointers
    BY DEF TypeOK, Pointers, SweepInv, FingersDominated
  <1>2. idom[join.finger] # Null /\ idom[join.new] # Null
    BY DEF SweepInv, FingersDominated
  <1>3. idom[join.finger] \in Blocks /\ idom[join.new] \in Blocks
    BY <1>1, <1>2 DEF TypeOK, Pointers
  <1>4. idom[idom[join.finger]] # Null /\ idom[idom[join.new]] # Null
    BY <1>1, <1>2 DEF SweepInv, ChainsVisited
  <1>5. join.bb \in Blocks
    BY TailFacts DEF SweepInv, FingersDominated, TypeOK
  <1>6. join.finger \in ToSet(post) /\ join.new \in ToSet(post)
    BY <1>1, <1>2 DEF SweepInv, ChainsVisited, SearchInv, Visited
  <1>7. /\ PostOrderId(join.finger) \in Nat
        /\ PostOrderId(join.new) \in Nat
        /\ post[PostOrderId(join.finger)] = join.finger
        /\ post[PostOrderId(join.new)] = join.new
    BY <1>6, PostOrderIds, LenProperties DEF TypeOK
  <1>8. join.finger # join.new => PostOrderId(join.finger) # PostOrderId(join.new)
    BY <1>7
  <1> QED BY <1>1, <1>3, <1>4, <1>5, <1>7, <1>8

LEMMA IntersectFingers ==
  ASSUME TypeOK, SearchInv, SweepInv, Intersect
  PROVE  FingersDominated'
  <1> DEFINE b1 == join.finger
             b2 == join.new
  <1>1. /\ phase = "join" /\ join.finger # Null /\ phase' = phase
        /\ rest' = rest /\ idom' = idom /\ succ' = succ /\ post' = post
    BY DEF Intersect, graph
  <1>2. /\ b1 \in Blocks /\ b2 \in Blocks /\ join.bb \in Blocks
        /\ idom[b1] \in Blocks /\ idom[b2] \in Blocks
        /\ idom[idom[b1]] # Null /\ idom[idom[b2]] # Null
        /\ b1 # b2 => \/ PostOrderId(b1) < PostOrderId(b2)
                      \/ ~(PostOrderId(b1) < PostOrderId(b2))
                         /\ PostOrderId(b2) < PostOrderId(b1)
    BY <1>1, Fingers
  <1>3. /\ rest # <<>> /\ join.bb = Head(rest) /\ join.bb # Entry
        /\ join.left \subseteq Preds(join.bb)
        /\ idom[b1] # Null /\ idom[b2] # Null
    BY <1>1 DEF SweepInv, FingersDominated
  <1>4. \A d \in Blocks : StrictlyDominates(d, join.bb) => Dominates(d, b1) /\ Dominates(d, b2)
    BY <1>1 DEF SweepInv, FingersDominated
  <1>5. /\ join'.bb = join.bb /\ join'.left = join.left
        /\ \/ b1 = b2 /\ join'.finger = Null /\ join'.new = b2
           \/ /\ PostOrderId(b1) < PostOrderId(b2)
              /\ join'.finger = idom[b1] /\ join'.new = b2
           \/ /\ PostOrderId(b2) < PostOrderId(b1)
              /\ join'.finger = b1 /\ join'.new = idom[b2]
    BY <1>2 DEF Intersect, TypeOK
  <1>6. ASSUME NEW d \in Blocks, StrictlyDominates(d, join.bb)
        PROVE  Dominates(d, join'.new) /\ (join'.finger # Null => Dominates(d, join'.finger))
    <2>1. Dominates(d, b1) /\ Dominates(d, b2)
      BY <1>4, <1>6
    <2>2. PostOrderId(b1) < PostOrderId(b2) => Dominates(d, idom[b1])
      BY <1>1, <1>2, <1>3, <2>1, Climb
    <2>3. PostOrderId(b2) < PostOrderId(b1) => Dominates(d, idom[b2])
      BY <1>1, <1>2, <1>3, <2>1, Climb
    <2> QED BY <1>5, <2>1, <2>2, <2>3
  <1>7. /\ join'.new # Null /\ idom[join'.new] # Null
        /\ join'.finger # Null => idom[join'.finger] # Null
    BY <1>2, <1>3, <1>5, NullNotBlock
  <1>8. Preds(join.bb)' = Preds(join.bb)
    BY <1>1, <1>5 DEF Preds
  <1> QED BY <1>1, <1>3, <1>5, <1>6, <1>7, <1>8, DominatesAgain DEF FingersDominated

(* The join of a block starts with the first predecessor that has an idom, *)
(* and goes on with the others.                                            *)
LEMMA PickFingers ==
  ASSUME TypeOK, NEW p \in Blocks, PickPred(p)
  PROVE  FingersDominated'
  <1>1. /\ rest # <<>> /\ rest' = rest /\ idom' = idom /\ succ' = succ
        /\ Head(rest) # Entry /\ p \in Preds(Head(rest)) /\ idom[p] # Null
        /\ join' = [bb |-> Head(rest), left |-> Preds(Head(rest)) \ {p},
                    new |-> p, finger |-> Null]
    BY DEF PickPred, graph
  <1>2. /\ join'.bb = Head(rest) /\ join'.left = Preds(Head(rest)) \ {p}
        /\ join'.new = p /\ join'.finger = Null
    BY <1>1
  <1>3. Head(rest) \in Blocks
    BY <1>1, TailFacts DEF TypeOK
  <1>4. \A d \in Blocks : StrictlyDominates(d, Head(rest)) => Dominates(d, p)
    BY <1>1, <1>3, DominatesPred
  <1>5. Preds(join.bb)' = Preds(Head(rest))
    BY <1>1, <1>2 DEF Preds
  <1> QED BY <1>1, <1>2, <1>4, <1>5, NullNotBlock, DominatesAgain DEF FingersDominated

LEMMA JoinFingers ==
  ASSUME TypeOK, SweepInv, NEW p \in Blocks, JoinPred(p)
  PROVE  FingersDominated'
  <1>1. /\ phase = "join" /\ phase' = phase /\ rest' = rest /\ idom' = idom
        /\ succ' = succ /\ p \in join.left
        /\ join'.bb = join.bb /\ join'.new = join.new
        /\ join'.left = join.left \ {p}
        /\ join'.finger = IF idom[p] # Null THEN p ELSE Null
    BY DEF JoinPred, graph, TypeOK
  <1>2. /\ rest # <<>> /\ join.bb = Head(rest) /\ join.bb # Entry
        /\ join.left \subseteq Preds(join.bb)
        /\ join.new # Null /\ idom[join.new] # Null
        /\ \A d \in Blocks : StrictlyDominates(d, join.bb) => Dominates(d, join.new)
    BY <1>1 DEF SweepInv, FingersDominated
  <1>3. join.bb \in Blocks /\ p \in Preds(join.bb)
    BY <1>1, <1>2, TailFacts DEF TypeOK
  <1>4. \A d \in Blocks : StrictlyDominates(d, join.bb) => Dominates(d, p)
    BY <1>3, DominatesPred
  <1>5. Preds(join.bb)' = Preds(join.bb)
    BY <1>1 DEF Preds
  <1> QED BY <1>1, <1>2, <1>4, <1>5, NullNotBlock, DominatesAgain DEF FingersDominated

LEMMA JoinEndSweep ==
  ASSUME TypeOK, SearchInv, SweepInv, JoinEnd
  PROVE  SweepInv'
  <1> DEFINE b == join.bb
             n == join.new
  <1>1. /\ phase = "join" /\ phase' = "sweep" /\ succ' = succ /\ post' = post
        /\ stack' = stack /\ rest' = Tail(rest)
        /\ idom' = [idom EXCEPT ![b] = n]
    BY DEF JoinEnd, graph
  <1>2. /\ rest # <<>> /\ b = Head(rest) /\ b # Entry
        /\ n # Null /\ idom[n] # Null
        /\ \A d \in Blocks : StrictlyDominates(d, b) => Dominates(d, n)
    BY <1>1 DEF SweepInv, FingersDominated
  <1>3. /\ b \in Blocks /\ n \in Blocks /\ b \in ToSet(post)
        /\ ToSet(Tail(rest)) \subseteq ToSet(rest)
    BY <1>2, TailFacts, NullNotBlock DEF TypeOK, Pointers, SweepInv
  <1> HIDE DEF b, n
  <1>4. /\ idom'[b] = n
        /\ \A x \in Blocks \ {b} : idom'[x] = idom[x]
    BY <1>1, <1>3 DEF TypeOK
  <1>5. Visited' = Visited /\ b \in Visited
    BY <1>1, <1>3 DEF Visited
  <1>6. \A x \in Blocks : idom[x] # Null => idom'[x] # Null
    BY <1>2, <1>4
  <1>7. ChainsVisited'
    <2>1. SUFFICES ASSUME NEW x \in Blocks, idom'[x] # Null
                   PROVE  x \in Visited /\ idom'[idom'[x]] # Null
      BY <1>1, <1>2, <1>4, <1>5, NullNotBlock DEF ChainsVisited, SweepInv
    <2>2. CASE x = b
      BY <1>2, <1>3, <1>4, <1>5, <1>6, <2>2
    <2>3. CASE x # b
      <3>1. idom[x] # Null /\ idom'[x] = idom[x] /\ idom[x] \in Blocks
        BY <1>4, <2>1, <2>3 DEF TypeOK, Pointers
      <3> QED BY <1>6, <3>1 DEF SweepInv, ChainsVisited
    <2> QED BY <2>2, <2>3
  <1>8. NoDominatorLost'
    <2>1. SUFFICES ASSUME NEW x \in Blocks \ {Entry}, idom'[x] # Null,
                          NEW d \in Blocks, StrictlyDominates(d, x)
                   PROVE  Dominates(d, idom'[x])
      BY <1>1, DominatesAgain DEF NoDominatorLost
    <2>2. CASE x = b
      BY <1>2, <1>4, <2>1, <2>2
    <2>3. CASE x # b
      BY <1>4, <2>1, <2>3 DEF SweepInv, NoDominatorLost
    <2> QED BY <2>2, <2>3
  <1> QED BY <1>1, <1>3, <1>7, <1>8 DEF SweepInv, FingersDominated

LEMMA StepSweep ==
  ASSUME IInv, [Next]_vars
  PROVE  SearchInv' /\ SweepInv'
  <1> USE DEF IInv, graph
  <1>0. SweepInv
    BY DEF SweepInv
  <1>1. CASE PostOrderVisit
    BY <1>0, <1>1, VisitSearch, VisitSweep
  <1>2. CASE VisitEnd
    BY <1>0, <1>2, OtherSearch, IdomKept DEF VisitEnd, SweepInv, FingersDominated
  <1>3. CASE SweepStart
    <2>1. ToSet(rest') = ToSet(post)
      BY <1>3, ReverseFacts DEF SweepStart, TypeOK
    <2> QED BY <1>0, <1>3, <2>1, OtherSearch, IdomKept
            DEF SweepStart, SweepInv, FingersDominated
  <1>4. CASE SkipEntry
    <2>1. ToSet(rest') \subseteq ToSet(rest)
      BY <1>4, TailFacts DEF SkipEntry, TypeOK
    <2> QED BY <1>0, <1>4, <2>1, OtherSearch, IdomKept
            DEF SkipEntry, SweepInv, FingersDominated
  <1>5. ASSUME NEW p \in Blocks, PickPred(p) PROVE SearchInv' /\ SweepInv'
    BY <1>0, <1>5, PickFingers, OtherSearch, IdomKept DEF PickPred, SweepInv
  <1>6. ASSUME NEW p \in Blocks, JoinPred(p) PROVE SearchInv' /\ SweepInv'
    BY <1>0, <1>6, JoinFingers, OtherSearch, IdomKept DEF JoinPred, SweepInv
  <1>7. CASE Intersect
    BY <1>0, <1>7, IntersectFingers, OtherSearch, IdomKept DEF Intersect, SweepInv
  <1>8. CASE JoinEnd
    BY <1>0, <1>8, JoinEndSweep, OtherSearch DEF JoinEnd
  <1>9. CASE SweepsEnd
    BY <1>0, <1>9, OtherSearch, IdomKept DEF SweepsEnd, SweepInv, FingersDominated
  <1>10. CASE WalkUp
    BY <1>0, <1>10, OtherSearch, IdomKept DEF WalkUp, SweepInv, FingersDominated
  <1>11. CASE BuildTree
    BY <1>0, <1>11, OtherSearch, IdomKept DEF BuildTree, SweepInv, FingersDominated
  <1>12. ASSUME NEW e \in JoinEdges, StartWalk(e) PROVE SearchInv' /\ SweepInv'
    BY <1>0, <1>12, OtherSearch, IdomKept DEF StartWalk, SweepInv, FingersDominated
  <1>13. CASE UNCHANGED vars
    <2>1. FingersDominated'
      BY <1>13, DominatesAgain DEF vars, FingersDominated, Preds
    <2> QED BY <1>0, <1>13, <2>1, OtherSearch, IdomKept DEF vars, SweepInv
  <1> QED BY <1>1, <1>2, <1>3, <1>4, <1>5, <1>6, <1>7, <1>8, <1>9, <1>10,
             <1>11, <1>12, <1>13 DEF Next, Step, Done

(* For every graph, also one with unreachable blocks, and every order of    *)
(* the predecessors, every state of the analysis (Dominators::run) keeps    *)
(* the facts about the search, the chains and the fingers.                  *)
THEOREM AnalysisInvariance == Spec => []IInv
  <1>1. Init => IInv
    BY InitType, InitSearch, InitSweep DEF IInv, SweepInv
  <1>2. IInv /\ [Next]_vars => IInv'
    <2> SUFFICES ASSUME IInv, [Next]_vars PROVE IInv'
      OBVIOUS
    <2>1. TypeOK'
      BY StepType DEF IInv
    <2> QED BY <2>1, StepSweep DEF IInv, SweepInv
  <1> QED BY <1>1, <1>2, PTL DEF Spec

(* No sweep of create_idom climbs past a dominator: what strictly dominates *)
(* a block dominates what idom_ holds for it, whenever it holds something.  *)
THEOREM NoSweepClimbsTooFar == Spec => []NoDominatorLost
  <1>1. IInv => NoDominatorLost
    BY DEF IInv
  <1> QED BY <1>1, AnalysisInvariance, PTL

-----------------------------------------------------------------------------
(* The sweeps end at the immediate dominators. *)

LEMMA AncestorSelf ==
  ASSUME NEW a
  PROVE  Ancestor(a, a)
  BY DEF Ancestor

LEMMA AncestorUp ==
  ASSUME NEW a, NEW x, Ancestor(a, x), idom[a] # Null
  PROVE  Ancestor(idom[a], x)
  BY DEF Ancestor

LEMMA AncestorTransitive ==
  ASSUME NEW a, NEW y, NEW x, Ancestor(a, y), Ancestor(y, x)
  PROVE  Ancestor(a, x)
  BY DEF Ancestor

(* The chain of y is y and the chain of its idom. *)
LEMMA AncestorOfIdom ==
  ASSUME NEW a, NEW y \in Blocks, Ancestor(a, y), a # y
  PROVE  Ancestor(a, idom[y])
  <1>1. SUFFICES ASSUME NEW T \in SUBSET Blocks, idom[y] \in T,
                        \A z \in T : idom[z] \in T \cup {Null}
                 PROVE  a \in T
    BY DEF Ancestor
  <1>2. T \cup {y} \in SUBSET Blocks
    OBVIOUS
  <1>3. \A z \in T \cup {y} : idom[z] \in (T \cup {y}) \cup {Null}
    BY <1>1
  <1>4. a \in T \cup {y}
    BY <1>2, <1>3 DEF Ancestor
  <1> QED BY <1>4

LEMMA AncestorAgain ==
  ASSUME idom' = idom
  PROVE  \A a, x : Ancestor(a, x)' <=> Ancestor(a, x)
  BY DEF Ancestor

(* The steps that change neither the graph nor idom_ nor what is settled. *)
LEMMA SettledAgain ==
  ASSUME idom' = idom, succ' = succ
  PROVE  \A b : Settled(b)' <=> Settled(b)
  <1>1. \A b : Preds(b)' = Preds(b)
    BY DEF Preds
  <1> QED BY <1>1, AncestorAgain DEF Settled

LEMMA PickClimb ==
  ASSUME NEW p \in Blocks, PickPred(p)
  PROVE  FingersClimb'
  <1>1. /\ p \in Preds(Head(rest)) /\ idom' = idom /\ succ' = succ
        /\ join' = [bb |-> Head(rest), left |-> Preds(Head(rest)) \ {p},
                    new |-> p, finger |-> Null]
    BY DEF PickPred, graph
  <1>2. /\ join'.bb = Head(rest) /\ join'.left = Preds(Head(rest)) \ {p}
        /\ join'.new = p /\ join'.finger = Null
    BY <1>1
  <1>3. Preds(join.bb)' = Preds(Head(rest))
    BY <1>1, <1>2 DEF Preds
  <1>4. \A x \in Preds(join.bb)' \ join'.left : x = p
    BY <1>2, <1>3
  <1>5. Ancestor(p, p)'
    BY <1>1, AncestorAgain, AncestorSelf
  <1> QED BY <1>1, <1>2, <1>3, <1>4, <1>5 DEF FingersClimb

LEMMA JoinClimb ==
  ASSUME TypeOK, FingersClimb, NEW p \in Blocks, JoinPred(p), join.left \subseteq Preds(join.bb)
  PROVE  FingersClimb'
  <1>1. /\ phase = "join" /\ idom' = idom /\ succ' = succ
        /\ p \in join.left /\ join.finger = Null
        /\ join'.bb = join.bb /\ join'.new = join.new
        /\ join'.left = join.left \ {p}
        /\ join'.finger = IF idom[p] # Null THEN p ELSE Null
    BY DEF JoinPred, graph, TypeOK
  <1>2. \A x \in Preds(join.bb) \ join.left : idom[x] # Null => Ancestor(join.new, x)
    BY <1>1 DEF FingersClimb
  <1>3. Preds(join.bb)' = Preds(join.bb)
    BY <1>1 DEF Preds
  <1>4. /\ p \in Preds(join.bb)'
        /\ join'.finger # Null => join'.finger = p /\ Ancestor(join'.finger, p)
    BY <1>1, <1>3, AncestorSelf
  <1>5. ASSUME NEW x \in Preds(join.bb) \ join'.left, idom[x] # Null,
               join'.finger # Null => x # p
        PROVE  Ancestor(join.new, x)
    <2>1. x # p
      BY <1>1, <1>5, NullNotBlock
    <2> QED BY <1>1, <1>2, <1>5, <2>1
  <1>6. \A a, x : Ancestor(a, x)' <=> Ancestor(a, x)
    BY <1>1, AncestorAgain
  <1> QED BY <1>1, <1>3, <1>4, <1>5, <1>6 DEF FingersClimb

LEMMA IntersectClimb ==
  ASSUME TypeOK, SearchInv, SweepInv, FingersClimb, Intersect
  PROVE  FingersClimb'
  <1> DEFINE b1 == join.finger
             b2 == join.new
  <1>1. /\ phase = "join" /\ b1 # Null /\ idom' = idom /\ succ' = succ
    BY DEF Intersect, graph
  <1>2. idom[b1] # Null /\ idom[b2] # Null
    BY <1>1 DEF SweepInv, FingersDominated
  <1>3. /\ join'.bb = join.bb /\ join'.left = join.left
        /\ \/ b1 = b2 /\ join'.finger = Null /\ join'.new = b2
           \/ b1 # b2 /\ join'.finger = idom[b1] /\ join'.new = b2
           \/ b1 # b2 /\ join'.finger = b1 /\ join'.new = idom[b2]
    BY DEF Intersect, TypeOK
  <1>4. PICK q \in Preds(join.bb) :
            /\ Ancestor(b1, q)
            /\ \A x \in Preds(join.bb) \ join.left :
                    idom[x] # Null /\ x # q => Ancestor(b2, x)
    BY <1>1 DEF FingersClimb
  <1>5. Preds(join.bb)' = Preds(join.bb)
    BY <1>1, <1>3 DEF Preds
  <1>6. \A a, x : Ancestor(a, x)' <=> Ancestor(a, x)
    BY <1>1, AncestorAgain
  <1>7. Ancestor(idom[b1], q)
    BY <1>2, <1>4, AncestorUp
  <1>8. \A x \in Preds(join.bb) \ join.left :
            idom[x] # Null /\ x # q => Ancestor(idom[b2], x)
    BY <1>2, <1>4, AncestorUp
  <1> HIDE DEF b1, b2
  <1>9. join'.finger # Null => Ancestor(join'.finger, q)
    BY <1>3, <1>4, <1>7
  <1>10. \A x \in Preds(join.bb) \ join.left :
            idom[x] # Null /\ (join'.finger # Null => x # q) => Ancestor(join'.new, x)
    <2>1. SUFFICES ASSUME NEW x \in Preds(join.bb) \ join.left, idom[x] # Null,
                          join'.finger # Null => x # q
                   PROVE  Ancestor(join'.new, x)
      OBVIOUS
    <2>2. CASE x = q
      BY <1>1, <1>2, <1>3, <1>4, <2>1, <2>2
    <2>3. CASE x # q
      BY <1>3, <1>4, <1>8, <2>1, <2>3
    <2> QED BY <2>2, <2>3
  <1> QED BY <1>1, <1>3, <1>5, <1>6, <1>9, <1>10 DEF FingersClimb

(* A join that has left the idom of its block as it was has settled it. *)
LEMMA JoinEndSettles ==
  ASSUME TypeOK, SweepInv, FingersClimb, SettledBehind, JoinEnd
  PROVE  SettledBehind'
  <1> DEFINE b == join.bb
             n == join.new
  <1>1. /\ phase = "join" /\ phase' = "sweep" /\ succ' = succ /\ post' = post
        /\ rest' = Tail(rest) /\ idom' = [idom EXCEPT ![b] = n]
        /\ changed' = (changed \/ idom[b] # n)
        /\ join.finger = Null /\ join.left = {}
    BY DEF JoinEnd, graph
  <1>2. rest # <<>> /\ b = Head(rest) /\ n # Null
    BY <1>1 DEF SweepInv, FingersDominated
  <1>3. b \in Blocks /\ ToSet(rest) = {b} \cup ToSet(Tail(rest))
    BY <1>2, TailFacts DEF TypeOK
  <1>4. \A p \in Preds(b) : idom[p] # Null => Ancestor(n, p)
    BY <1>1 DEF FingersClimb
  <1> HIDE DEF b, n
  <1>5. SUFFICES ASSUME ~changed'
                 PROVE  \A x \in ToSet(post) \ (ToSet(Tail(rest)) \cup {Entry}) : Settled(x)'
    BY <1>1 DEF SettledBehind
  <1>6. ~changed /\ idom[b] = n
    BY <1>1, <1>5 DEF TypeOK
  <1>7. idom' = idom
    BY <1>1, <1>3, <1>6 DEF TypeOK
  <1>8. Settled(b)
    BY <1>2, <1>4, <1>6 DEF Settled
  <1>9. \A x \in ToSet(post) \ (ToSet(rest) \cup {Entry}) : Settled(x)
    BY <1>1, <1>6 DEF SettledBehind
  <1>10. \A x : Settled(x)' <=> Settled(x)
    BY <1>1, <1>7, SettledAgain
  <1> QED BY <1>3, <1>8, <1>9, <1>10

LEMMA StepFix ==
  ASSUME FixInv, [Next]_vars
  PROVE  FingersClimb' /\ SettledBehind'
  <1> USE DEF FixInv, IInv, graph
  <1>0. SweepInv
    BY DEF SweepInv
  <1>1. CASE PostOrderVisit
    BY <1>1 DEF PostOrderVisit, FingersClimb, SettledBehind
  <1>2. CASE VisitEnd
    BY <1>2 DEF VisitEnd, FingersClimb, SettledBehind
  <1>3. CASE SweepStart
    <2>1. ToSet(rest') = ToSet(post)
      BY <1>3, ReverseFacts DEF SweepStart, TypeOK
    <2> QED BY <1>3, <2>1 DEF SweepStart, FingersClimb, SettledBehind
  <1>4. CASE SkipEntry
    <2>1. ToSet(rest) = {Entry} \cup ToSet(rest')
      BY <1>4, TailFacts DEF SkipEntry, TypeOK
    <2>2. \A b : Settled(b)' <=> Settled(b)
      BY <1>4, SettledAgain DEF SkipEntry
    <2> QED BY <1>4, <2>1, <2>2 DEF SkipEntry, FingersClimb, SettledBehind
  <1>5. ASSUME NEW p \in Blocks, PickPred(p) PROVE FingersClimb' /\ SettledBehind'
    <2>1. \A b : Settled(b)' <=> Settled(b)
      BY <1>5, SettledAgain DEF PickPred
    <2> QED BY <1>5, <2>1, PickClimb DEF PickPred, SettledBehind
  <1>6. ASSUME NEW p \in Blocks, JoinPred(p) PROVE FingersClimb' /\ SettledBehind'
    <2>1. \A b : Settled(b)' <=> Settled(b)
      BY <1>6, SettledAgain DEF JoinPred
    <2>2. join.left \subseteq Preds(join.bb)
      BY <1>6 DEF JoinPred, FingersDominated
    <2> QED BY <1>6, <2>1, <2>2, JoinClimb DEF JoinPred, SettledBehind
  <1>7. CASE Intersect
    <2>1. \A b : Settled(b)' <=> Settled(b)
      BY <1>7, SettledAgain DEF Intersect
    <2> QED BY <1>0, <1>7, <2>1, IntersectClimb DEF Intersect, SettledBehind
  <1>8. CASE JoinEnd
    BY <1>0, <1>8, JoinEndSettles DEF JoinEnd, FingersClimb
  <1>9. CASE SweepsEnd
    <2>1. \A b : Settled(b)' <=> Settled(b)
      BY <1>9, SettledAgain DEF SweepsEnd
    <2>2. ToSet(rest) = {}
      BY <1>9 DEF SweepsEnd, ToSet
    <2> QED BY <1>9, <2>1, <2>2 DEF SweepsEnd, FingersClimb, SettledBehind
  <1>10. CASE WalkUp
    BY <1>10, SettledAgain DEF WalkUp, FingersClimb, SettledBehind
  <1>11. CASE BuildTree
    BY <1>11, SettledAgain DEF BuildTree, FingersClimb, SettledBehind
  <1>12. ASSUME NEW e \in JoinEdges, StartWalk(e) PROVE FingersClimb' /\ SettledBehind'
    BY <1>12, SettledAgain DEF StartWalk, FingersClimb, SettledBehind
  <1>13. CASE UNCHANGED vars
    <2>1. Preds(join.bb)' = Preds(join.bb)
      BY <1>13 DEF vars, Preds
    <2>2. FingersClimb'
      BY <1>13, <2>1, AncestorAgain DEF vars, FingersClimb
    <2> QED BY <1>13, <2>2, SettledAgain DEF vars, SettledBehind
  <1> QED BY <1>1, <1>2, <1>3, <1>4, <1>5, <1>6, <1>7, <1>8, <1>9, <1>10,
             <1>11, <1>12, <1>13 DEF Next, Step, Done

LEMMA SuccKept ==
  ASSUME [Next]_vars
  PROVE  succ' = succ
  BY DEF Next, Step, Done, vars, graph, PostOrderVisit, VisitEnd, SweepStart, SkipEntry,
         PickPred, JoinPred, Intersect, JoinEnd, SweepsEnd, WalkUp, BuildTree, StartWalk

LEMMA FixInvariance == Spec => []FixInv
  <1>1. Init => FixInv
    <2> SUFFICES ASSUME Init PROVE FixInv
      OBVIOUS
    <2>1. IInv
      BY InitType, InitSearch, InitSweep DEF IInv, SweepInv
    <2> QED BY <2>1 DEF Init, FixInv, FingersClimb, SettledBehind
  <1>2. FixInv /\ [Next]_vars => FixInv'
    <2> SUFFICES ASSUME FixInv, [Next]_vars PROVE FixInv'
      OBVIOUS
    <2>1. IInv'
      BY StepType, StepSweep DEF FixInv, IInv, SweepInv
    <2> QED BY <2>1, StepFix, SuccKept DEF FixInv
  <1> QED BY <1>1, <1>2, PTL DEF Spec

(* Once the sweeps are over, every block is visited and settled. *)
LEMMA AllSettled ==
  ASSUME FixInv, AllReachable(succ), phase \in {"frontier", "done"}
  PROVE  /\ idom[Entry] = Entry
         /\ \A b \in Blocks : idom[b] \in Blocks
         /\ \A b \in Blocks \ {Entry} : \A p \in Preds(b) : Ancestor(idom[b], p)
  <1> USE DEF FixInv, IInv
  <1>1. Visited = ToSet(post)
    BY DEF SearchInv, Visited
  <1>2. ToSet(post) = Blocks
    <2>1. ToSet(post) \in SUBSET Blocks
      BY ElementOfSeq, LenProperties DEF TypeOK, ToSet
    <2>2. Entry \in ToSet(post)
      BY <1>1 DEF SearchInv, SuccessorsVisited
    <2>3. \A x \in ToSet(post) : \A i \in DOMAIN succ[x] : succ[x][i] \in ToSet(post)
      BY <1>1 DEF SearchInv, SuccessorsVisited, ToSet
    <2> QED BY <2>1, <2>2, <2>3 DEF AllReachable
  <1>3. \A b \in Blocks \ {Entry} : Settled(b)
    BY <1>2 DEF SettledBehind
  <1>4. idom[Entry] = Entry
    BY DEF ChainsVisited
  <1>5. \A b \in Blocks : idom[b] \in Blocks
    BY <1>3, <1>4, NullNotBlock DEF Settled, TypeOK, Pointers
  <1>6. \A b \in Blocks : Preds(b) \subseteq Blocks
    BY DEF Preds
  <1> QED BY <1>3, <1>4, <1>5, <1>6, NullNotBlock DEF Settled

(* What the fixed point holds for a block strictly dominates it: the blocks *)
(* whose chains avoid i = idom[b] contain the entry and are closed under    *)
(* the edges that avoid i, and b is not one of them.                        *)
LEMMA SettledDominates ==
  ASSUME FixInv, AllReachable(succ), phase \in {"frontier", "done"},
         NEW b \in Blocks \ {Entry}
  PROVE  StrictlyDominates(idom[b], b)
  <1> DEFINE i == idom[b]
             S == {x \in Blocks : ~Ancestor(i, x)}
  <1>1. /\ idom[Entry] = Entry
        /\ \A x \in Blocks : idom[x] \in Blocks
        /\ \A y \in Blocks \ {Entry} : \A p \in Preds(y) : Ancestor(idom[y], p)
    BY AllSettled
  <1>2. CASE i = Entry
    BY <1>2 DEF StrictlyDominates, Dominates
  <1>3. CASE i # Entry
    <2>1. Entry \in S
      <3>1. Ancestor(i, Entry) => i \in {Entry}
        BY <1>1, NullNotBlock DEF Ancestor
      <3> QED BY <1>3, <3>1, NullNotBlock
    <2>2. i \notin S /\ b \notin S
      <3>1. Ancestor(i, i)
        BY AncestorSelf
      <3>2. idom[b] # Null
        BY <1>1, NullNotBlock
      <3>3. Ancestor(i, b)
        BY <3>2, AncestorSelf, AncestorUp
      <3> QED BY <3>1, <3>3
    <2>3. ASSUME NEW x \in S, NEW k \in DOMAIN succ[x], succ[x][k] \notin S
          PROVE  succ[x][k] = i /\ i # b
      <3> DEFINE y == succ[x][k]
      <3>1. y \in Blocks
        <4>1. succ[x] \in Seq(Blocks)
          BY DEF FixInv, IInv, TypeOK
        <4> QED BY <4>1, ElementOfSeq, LenProperties
      <3>2. Ancestor(i, y) /\ y # Entry
        BY <2>1, <2>3, <3>1
      <3>3. Ancestor(idom[y], x)
        <4>1. x \in Preds(y)
          BY DEF Preds
        <4> QED BY <1>1, <3>1, <3>2, <4>1
      <3>4. ~Ancestor(i, x)
        OBVIOUS
      <3> HIDE DEF i, y
      <3>5. y = i
        BY <3>1, <3>2, <3>3, <3>4, AncestorOfIdom, AncestorTransitive
      <3>6. i # b
        BY <3>3, <3>4, <3>5 DEF i
      <3> QED BY <3>5, <3>6 DEF y
    <2> HIDE DEF S
    <2>4. i # b
      <3>1. ASSUME i = b PROVE FALSE
        <4>1. \A x \in S : \A k \in DOMAIN succ[x] : succ[x][k] \in S
          BY <2>3, <3>1
        <4>2. S \in SUBSET Blocks
          BY DEF S
        <4>3. S = Blocks
          BY <2>1, <4>1, <4>2 DEF AllReachable
        <4> QED BY <2>2, <4>3
      <3> QED BY <3>1
    <2>5. S \in SUBSET (Blocks \ {i, b})
      BY <2>2 DEF S
    <2>6. ClosedAvoiding(i, S)
      BY <2>3 DEF ClosedAvoiding
    <2> QED BY <2>1, <2>4, <2>5, <2>6 DEF StrictlyDominates, Dominates
  <1> QED BY <1>2, <1>3

(* When every block can be reached, as UnreachableBlockElim leaves it, and  *)
(* in whatever order the predecessors are taken, create_idom ends with the  *)
(* immediate dominators.                                                    *)
THEOREM IdomsAreImmediate ==
  ASSUME \A g \in Cfgs : AllReachable(g)
  PROVE  Spec => []IdomCorrect
  <1>1. FixInv => IdomCorrect
    <2> SUFFICES ASSUME FixInv, phase \in {"frontier", "done"}, NEW b \in Blocks \ {Entry}
                 PROVE  /\ idom[b] # Null
                        /\ StrictlyDominates(idom[b], b)
                        /\ \A d \in Blocks : StrictlyDominates(d, b) => Dominates(d, idom[b])
      BY DEF IdomCorrect
    <2>1. AllReachable(succ)
      BY DEF FixInv
    <2>2. idom[b] # Null
      BY <2>1, AllSettled, NullNotBlock
    <2>3. StrictlyDominates(idom[b], b)
      BY <2>1, SettledDominates
    <2> QED BY <2>2, <2>3 DEF FixInv, IInv, NoDominatorLost
  <1> QED BY <1>1, FixInvariance, PTL

-----------------------------------------------------------------------------
(* Dominance is an order. *)

LEMMA DominatesTransitive ==
  ASSUME NEW a \in Blocks, NEW b \in Blocks, NEW c \in Blocks,
         Dominates(a, b), Dominates(b, c)
  PROVE  Dominates(a, c)
  <1>1. CASE a = b \/ b = c \/ a = Entry \/ a = c
    BY <1>1 DEF Dominates
  <1>2. CASE a # b /\ b # c /\ a # Entry /\ a # c
    <2>1. b # Entry
      BY <1>2, DominatesEntry
    <2>2. PICK S \in SUBSET (Blocks \ {a, b}) : Entry \in S /\ ClosedAvoiding(a, S)
      BY <1>2 DEF Dominates
    <2>3. PICK T \in SUBSET (Blocks \ {b, c}) : Entry \in T /\ ClosedAvoiding(b, T)
      BY <1>2, <2>1 DEF Dominates
    <2>4. S \cap T \in SUBSET (Blocks \ {a, c}) /\ Entry \in S \cap T
      BY <2>2, <2>3
    <2>5. ClosedAvoiding(a, S \cap T)
      BY <1>2, <2>2, <2>3 DEF ClosedAvoiding
    <2> QED BY <2>4, <2>5 DEF Dominates
  <1> QED BY <1>1, <1>2

(* Of two reachable blocks not each dominates the other. *)
LEMMA DominatesAntisymmetric ==
  ASSUME AllReachable(succ), NEW a \in Blocks, NEW b \in Blocks,
         Dominates(a, b), Dominates(b, a)
  PROVE  a = b
  <1> SUFFICES ASSUME a # b PROVE FALSE
    OBVIOUS
  <1>1. a # Entry /\ b # Entry
    BY DominatesEntry
  <1>2. PICK S \in SUBSET (Blocks \ {a, b}) : Entry \in S /\ ClosedAvoiding(a, S)
    BY <1>1 DEF Dominates
  <1>3. PICK T \in SUBSET (Blocks \ {a, b}) : Entry \in T /\ ClosedAvoiding(b, T)
    BY <1>1 DEF Dominates
  <1>4. \A x \in S \cap T : \A i \in DOMAIN succ[x] : succ[x][i] \in S \cap T
    BY <1>2, <1>3 DEF ClosedAvoiding
  <1>5. S \cap T = Blocks
    BY <1>2, <1>3, <1>4 DEF AllReachable
  <1> QED BY <1>2, <1>5

(* The blocks a walk from one block visits without passing d. *)
LEMMA ReachedFromOne ==
  ASSUME NEW B, IsFiniteSet(B), NEW g \in [B -> Seq(B)], NEW e \in B, NEW d
  PROVE  Reached(g, {e}, {d}) = Least(g, {e} \ {d}, {d})
  <1>1. {e} \in SUBSET B
    OBVIOUS
  <1> DEFINE start == {e}
             avoid == {d}
  <1>2. start \in SUBSET B
    BY <1>1
  <1> HIDE DEF start, avoid
  <1>3. Reached(g, start, avoid) = Least(g, start \ avoid, avoid)
    BY <1>2, ReachedIsLeast
  <1> QED BY <1>3 DEF start, avoid

(* Dominance, the module of definitions, means the same. *)
LEMMA DominatedMeansDominates ==
  ASSUME IsFiniteSet(Blocks), succ \in [Blocks -> Seq(Blocks)]
  PROVE  \A d, b \in Blocks : b \in Dominated(succ, Entry)[d] <=> Dominates(d, b)
  <1> SUFFICES ASSUME NEW d \in Blocks, NEW b \in Blocks
               PROVE  b \in Dominated(succ, Entry)[d] <=> Dominates(d, b)
    OBVIOUS
  <1> DEFINE Avoids(T) == {Entry} \ {d} \subseteq T /\ Beyond(succ, T, {d}) \subseteq T
  <1>1. Entry \in Blocks /\ DOMAIN succ = Blocks
    BY NullNotBlock
  <1>2. Dominated(succ, Entry)[d] = Blocks \ Reached(succ, {Entry}, {d})
    BY <1>1 DEF Dominated
  <1>3. Reached(succ, {Entry}, {d}) = Least(succ, {Entry} \ {d}, {d})
    BY <1>1, ReachedFromOne
  <1>4. b \in Dominated(succ, Entry)[d] <=> \E T \in SUBSET Blocks : Avoids(T) /\ b \notin T
    BY <1>1, <1>2, <1>3 DEF Least
  <1>5. \A T \in SUBSET Blocks : Beyond(succ, T, {d}) \subseteq T <=> ClosedAvoiding(d, T)
    <2> SUFFICES ASSUME NEW T \in SUBSET Blocks
                 PROVE  Beyond(succ, T, {d}) \subseteq T <=> ClosedAvoiding(d, T)
      OBVIOUS
    <2>1. \A y : y \in Beyond(succ, T, {d}) <=>
                    y # d /\ \E x \in T : \E i \in DOMAIN succ[x] : y = succ[x][i]
      BY DEF Beyond, ToSet
    <2>2. ASSUME Beyond(succ, T, {d}) \subseteq T PROVE ClosedAvoiding(d, T)
      BY <2>1, <2>2 DEF ClosedAvoiding
    <2>3. ASSUME ClosedAvoiding(d, T), NEW y \in Beyond(succ, T, {d}) PROVE y \in T
      <3>1. PICK x \in T : \E i \in DOMAIN succ[x] : y = succ[x][i]
        BY <2>1, <2>3
      <3> QED BY <2>1, <2>3, <3>1 DEF ClosedAvoiding
    <2> QED BY <2>2, <2>3
  <1>6. ASSUME Dominates(d, b)
        PROVE  \E T \in SUBSET Blocks : Avoids(T) /\ b \notin T
    <2>1. CASE d = b
      <3>1. ClosedAvoiding(d, Blocks \ {d})
        BY ElementOfSeq, LenProperties DEF ClosedAvoiding
      <3>2. Avoids(Blocks \ {d}) /\ b \notin Blocks \ {d}
        BY <1>1, <1>5, <2>1, <3>1
      <3> QED BY <3>2
    <2>2. CASE d = Entry
      <3>1. Avoids({}) /\ b \notin {}
        BY <1>5, <2>2 DEF ClosedAvoiding
      <3> QED BY <3>1
    <2>3. CASE d # b /\ d # Entry
      <3>1. PICK S \in SUBSET (Blocks \ {d, b}) : Entry \in S /\ ClosedAvoiding(d, S)
        BY <1>6, <2>3 DEF Dominates
      <3>2. Avoids(S) /\ b \notin S
        BY <1>5, <3>1
      <3> QED BY <3>2
    <2> QED BY <2>1, <2>2, <2>3
  <1>7. ASSUME NEW T \in SUBSET Blocks, Avoids(T), b \notin T
        PROVE  Dominates(d, b)
    <2>1. CASE d = b \/ d = Entry
      BY <2>1 DEF Dominates
    <2>2. CASE d # b /\ d # Entry
      <3>1. T \ {d} \in SUBSET (Blocks \ {d, b}) /\ Entry \in T \ {d}
        BY <1>7, <2>2
      <3>2. ClosedAvoiding(d, T \ {d})
        BY <1>5, <1>7 DEF ClosedAvoiding
      <3> QED BY <3>1, <3>2 DEF Dominates
    <2> QED BY <2>1, <2>2
  <1> QED BY <1>4, <1>6, <1>7

-----------------------------------------------------------------------------
(* The walks of create_dominance_frontier. *)

(* y is in the frontier of x by definition. *)
InFrontier(x, y) ==
    \E p \in Preds(y) : Dominates(x, p) /\ ~StrictlyDominates(x, y)

(* A walk goes from a predecessor up the dominators of it, to the idom. *)
WalkClimbs ==
    walk.bb # Null =>
        /\ walk.bb # Entry /\ walk.runner \in Blocks
        /\ Dominates(idom[walk.bb], walk.runner)
        /\ \E p \in Preds(walk.bb) : Dominates(walk.runner, p)

(* What the walks done have found, and the one in progress will. *)
WalksComplete ==
    \A e \in JoinEdges \ walk.left, x \in Blocks :
        Dominates(x, e[1]) /\ ~StrictlyDominates(x, e[2]) =>
            \/ e[2] \in frontier[x]
            \/ walk.bb = e[2] /\ Dominates(x, walk.runner)

Frontiers ==
    IF phase \in {"frontier", "done"}
    THEN /\ \A x \in Blocks : \A y \in frontier[x] : InFrontier(x, y)
         /\ walk.left \subseteq JoinEdges
         /\ WalkClimbs
         /\ WalksComplete
         /\ phase = "done" =>
                /\ walk.left = {} /\ walk.bb = Null
                /\ children = [b \in Blocks |-> {c \in Blocks : idom[c] = b /\ b # c}]
    ELSE frontier = [b \in Blocks |-> {}]

(* A block with one predecessor is in no frontier. *)
LEMMA OnePredecessor ==
  ASSUME succ \in [Blocks -> Seq(Blocks)], AllReachable(succ),
         NEW y \in Blocks \ {Entry}, NEW p \in Blocks, Preds(y) = {p}
  PROVE  \A x \in Blocks : ~InFrontier(x, y)
  <1> USE ElementOfSeq, LenProperties
  <1>1. p # y
    <2> SUFFICES ASSUME p = y PROVE FALSE
      OBVIOUS
    <2> DEFINE S == Blocks \ {y}
    <2>1. \A x \in S : \A i \in DOMAIN succ[x] : succ[x][i] # y
      BY DEF Preds
    <2>2. \A x \in S : \A i \in DOMAIN succ[x] : succ[x][i] \in S
      BY <2>1
    <2>3. S \in SUBSET Blocks /\ Entry \in S
      BY NullNotBlock
    <2> HIDE DEF S
    <2>4. S = Blocks
      BY <2>2, <2>3 DEF AllReachable
    <2> QED BY <2>4 DEF S
  <1>2. Dominates(p, y)
    <2>1. \A x \in Blocks : \A i \in DOMAIN succ[x] : succ[x][i] \in Blocks /\ (succ[x][i] = y => x = p)
      BY DEF Preds
    <2>2. ClosedAvoiding(p, Blocks \ {p, y})
      BY <2>1 DEF ClosedAvoiding
    <2> QED BY <2>2, NullNotBlock DEF Dominates
  <1> SUFFICES ASSUME NEW x \in Blocks, Dominates(x, p) PROVE StrictlyDominates(x, y)
    BY DEF InFrontier
  <1>3. Dominates(x, y)
    BY <1>2, DominatesTransitive
  <1>4. x # y
    BY <1>1, <1>2, DominatesAntisymmetric
  <1> QED BY <1>3, <1>4 DEF StrictlyDominates

LEMMA FrontierNeedsJoin ==
  ASSUME succ \in [Blocks -> Seq(Blocks)], AllReachable(succ), NoBranchToEntry(succ),
         IsFiniteSet(Blocks),
         NEW x \in Blocks, NEW y \in Blocks, InFrontier(x, y)
  PROVE  y # Entry /\ Cardinality(Preds(y)) >= 2
  <1>1. Preds(y) \in SUBSET Blocks /\ Preds(y) # {}
    BY DEF Preds, InFrontier
  <1>2. y # Entry
    BY <1>1 DEF Preds, NoBranchToEntry
  <1>3. IsFiniteSet(Preds(y)) /\ Cardinality(Preds(y)) \in Nat
    BY <1>1, FS_Subset, FS_CardinalityType
  <1>4. Cardinality(Preds(y)) # 0
    BY <1>1, <1>3, FS_EmptySet
  <1>5. Cardinality(Preds(y)) # 1
    <2> SUFFICES ASSUME Cardinality(Preds(y)) = 1 PROVE FALSE
      OBVIOUS
    <2>1. PICK p : Preds(y) = {p}
      BY <1>3, FS_Singleton
    <2> QED BY <1>1, <1>2, <2>1, OnePredecessor
  <1> QED BY <1>2, <1>3, <1>4, <1>5

(* What the fixed point gives the walks. *)
Fixed ==
    /\ FixInv
    /\ AllReachable(succ) /\ NoBranchToEntry(succ)
    /\ IdomCorrect

LEMMA IdomAbove ==
  ASSUME Fixed, phase \in {"frontier", "done"}, NEW b \in Blocks \ {Entry}
  PROVE  /\ idom[b] \in Blocks /\ StrictlyDominates(idom[b], b)
         /\ \A d \in Blocks : StrictlyDominates(d, b) => Dominates(d, idom[b])
  BY AllSettled DEF Fixed, IdomCorrect

LEMMA StartWalkFrontiers ==
  ASSUME Fixed, Frontiers, NEW e \in JoinEdges, StartWalk(e)
  PROVE  Frontiers'
  <1>1. /\ phase = "frontier" /\ phase' = "frontier" /\ walk.bb = Null /\ e \in walk.left
        /\ walk' = [left |-> walk.left \ {e}, bb |-> e[2], runner |-> e[1]]
        /\ UNCHANGED <<succ, idom, frontier, children>>
    BY DEF StartWalk, graph, results
  <1>2. PICK y \in Blocks : \E p \in Preds(y) : e = <<p, y>>
    BY DEF JoinEdges
  <1>3. PICK p \in Preds(y) : e = <<p, y>>
    BY <1>2
  <1>4. p \in Blocks /\ y # Entry
    BY DEF Preds, Fixed, NoBranchToEntry
  <1>5. walk'.left = walk.left \ {e} /\ walk'.bb = y /\ walk'.runner = p
    BY <1>1, <1>3
  <1>6. StrictlyDominates(idom[y], y) /\ idom[y] \in Blocks
    BY <1>1, <1>4, IdomAbove
  <1>7. Dominates(idom[y], p)
    BY <1>6, DominatesPred
  <1>8. Dominates(p, p)
    BY DEF Dominates
  <1>9. UNCHANGED succ
    BY <1>1
  <1>10. \A x, z : /\ InFrontier(x, z)' <=> InFrontier(x, z)
                   /\ Dominates(x, z)' <=> Dominates(x, z)
                   /\ StrictlyDominates(x, z)' <=> StrictlyDominates(x, z)
    BY <1>9, DominatesAgain DEF InFrontier, Preds
  <1>11. JoinEdges' = JoinEdges /\ Preds(y)' = Preds(y)
    BY <1>9 DEF JoinEdges, Preds
  <1>12. WalkClimbs'
    BY <1>1, <1>4, <1>5, <1>7, <1>8, <1>10, <1>11 DEF WalkClimbs
  <1>13. WalksComplete'
    <2> SUFFICES ASSUME NEW f \in JoinEdges \ walk'.left, NEW x \in Blocks,
                        Dominates(x, f[1]), ~StrictlyDominates(x, f[2])
                 PROVE  \/ f[2] \in frontier[x]
                        \/ walk'.bb = f[2] /\ Dominates(x, walk'.runner)
      BY <1>1, <1>10, <1>11 DEF WalksComplete
    <2>1. CASE f = e
      BY <1>3, <1>5, <2>1
    <2>2. CASE f # e
      <3>1. f[2] \in Blocks
        BY DEF JoinEdges
      <3> QED BY <1>1, <1>5, <2>2, <3>1, NullNotBlock DEF WalksComplete, Frontiers
    <2> QED BY <2>1, <2>2
  <1> QED BY <1>1, <1>5, <1>10, <1>11, <1>12, <1>13 DEF Frontiers

LEMMA WalkUpFrontiers ==
  ASSUME Fixed, Frontiers, WalkUp
  PROVE  Frontiers'
  <1> DEFINE y == walk.bb
             r == walk.runner
  <1>1. /\ phase = "frontier" /\ phase' = "frontier" /\ y # Null
        /\ UNCHANGED <<succ, idom, children>>
    BY DEF WalkUp, graph
  <1>2. TypeOK
    BY DEF Fixed, FixInv, IInv
  <1>3. y \in Blocks \ {Entry} /\ r \in Blocks /\ Dominates(idom[y], r)
        /\ \E p \in Preds(y) : Dominates(r, p)
    BY <1>1, <1>2 DEF Frontiers, WalkClimbs, TypeOK, Pointers
  <1>4. idom[y] \in Blocks /\ StrictlyDominates(idom[y], y)
    BY <1>1, <1>3, IdomAbove
  <1>5. UNCHANGED succ
    BY <1>1
  <1>6. \A x, z : /\ InFrontier(x, z)' <=> InFrontier(x, z)
                  /\ Dominates(x, z)' <=> Dominates(x, z)
                  /\ StrictlyDominates(x, z)' <=> StrictlyDominates(x, z)
    BY <1>5, DominatesAgain DEF InFrontier, Preds
  <1>7. JoinEdges' = JoinEdges /\ \A z : Preds(z)' = Preds(z)
    BY <1>5 DEF JoinEdges, Preds
  <1>8. \A d \in Blocks : StrictlyDominates(d, y) => Dominates(d, idom[y])
    BY <1>1, <1>3, IdomAbove
  <1> HIDE DEF y, r
  <1>9. CASE r = idom[y]
    <2>1. /\ walk'.left = walk.left /\ walk'.bb = Null
          /\ frontier' = frontier
      BY <1>2, <1>9 DEF WalkUp, TypeOK, y, r
    <2>2. WalksComplete'
      <3> SUFFICES ASSUME NEW e \in JoinEdges \ walk.left, NEW x \in Blocks,
                          Dominates(x, e[1]), ~StrictlyDominates(x, e[2])
                   PROVE  e[2] \in frontier[x]
        BY <1>6, <1>7, <2>1 DEF WalksComplete
      <3> SUFFICES ASSUME y = e[2], Dominates(x, r) PROVE FALSE
        BY <1>1 DEF Frontiers, WalksComplete, y, r
      <3>1. Dominates(x, y)
        BY <1>3, <1>4, <1>9, DominatesTransitive DEF StrictlyDominates
      <3>2. x = y
        BY <3>1 DEF StrictlyDominates
      <3>3. y = idom[y]
        BY <1>3, <1>4, <1>9, <3>2, DominatesAntisymmetric DEF Fixed, StrictlyDominates
      <3> QED BY <1>4, <3>3 DEF StrictlyDominates
    <2> QED BY <1>1, <1>6, <1>7, <2>1, <2>2 DEF Frontiers, WalkClimbs
  <1>10. CASE r # idom[y]
    <2>1. /\ walk'.left = walk.left /\ walk'.bb = y /\ walk'.runner = idom[r]
          /\ frontier' = [frontier EXCEPT ![r] = @ \cup {y}]
      BY <1>2, <1>10 DEF WalkUp, TypeOK, y, r
    <2>2. frontier \in [Blocks -> SUBSET Blocks]
      BY <1>2 DEF TypeOK
    <2>3. ~StrictlyDominates(r, y)
      BY <1>3, <1>4, <1>8, <1>10, DominatesAntisymmetric DEF Fixed
    <2>4. InFrontier(r, y)
      BY <1>3, <2>3 DEF InFrontier
    <2>5. r # Entry
      BY <1>3, <1>10, DominatesEntry
    <2>6. /\ idom[r] \in Blocks /\ StrictlyDominates(idom[r], r)
          /\ \A d \in Blocks : StrictlyDominates(d, r) => Dominates(d, idom[r])
      BY <1>1, <1>3, <2>5, IdomAbove
    <2>7. Dominates(idom[y], idom[r])
      BY <1>3, <1>4, <1>10, <2>6 DEF StrictlyDominates
    <2>8. \E p \in Preds(y) : Dominates(idom[r], p)
      <3>1. PICK p \in Preds(y) : Dominates(r, p)
        BY <1>3
      <3>2. p \in Blocks
        BY DEF Preds
      <3> QED BY <1>3, <2>6, <3>1, <3>2, DominatesTransitive DEF StrictlyDominates
    <2>9. WalkClimbs'
      BY <1>1, <1>3, <1>6, <1>7, <2>1, <2>6, <2>7, <2>8 DEF WalkClimbs
    <2>10. WalksComplete'
      <3> SUFFICES ASSUME NEW e \in JoinEdges \ walk.left, NEW x \in Blocks,
                          Dominates(x, e[1]), ~StrictlyDominates(x, e[2])
                   PROVE  \/ e[2] \in frontier'[x]
                          \/ y = e[2] /\ Dominates(x, idom[r])
        BY <1>1, <1>6, <1>7, <2>1 DEF WalksComplete
      <3>1. CASE e[2] \in frontier[x]
        BY <2>1, <2>2, <3>1
      <3>2. CASE y = e[2] /\ Dominates(x, r)
        <4>1. CASE x = r
          BY <1>3, <2>1, <2>2, <3>2, <4>1
        <4>2. CASE x # r
          BY <2>6, <3>2, <4>2 DEF StrictlyDominates
        <4> QED BY <4>1, <4>2
      <3> QED BY <1>1, <3>1, <3>2 DEF Frontiers, WalksComplete, y, r
    <2>11. \A x \in Blocks : \A z \in frontier'[x] : InFrontier(x, z)
      BY <1>1, <2>1, <2>2, <2>4 DEF Frontiers
    <2> QED BY <1>1, <1>6, <1>7, <2>1, <2>9, <2>10, <2>11 DEF Frontiers
  <1> QED BY <1>9, <1>10

(* The walks are a matter of the graph, idom_ and the frontiers found. *)
LEMMA WalksAgain ==
  ASSUME UNCHANGED <<succ, idom, walk, frontier>>
  PROVE  /\ \A x, y : InFrontier(x, y)' <=> InFrontier(x, y)
         /\ JoinEdges' = JoinEdges
         /\ WalkClimbs' <=> WalkClimbs
         /\ WalksComplete' <=> WalksComplete
  <1>1. \A x, y : /\ Dominates(x, y)' <=> Dominates(x, y)
                  /\ StrictlyDominates(x, y)' <=> StrictlyDominates(x, y)
    BY DominatesAgain
  <1>2. \A y : Preds(y)' = Preds(y)
    BY DEF Preds
  <1>3. JoinEdges' = JoinEdges
    BY <1>2 DEF JoinEdges
  <1>4. WalkClimbs' <=> WalkClimbs
    BY <1>1, <1>2 DEF WalkClimbs
  <1>5. WalksComplete' <=> WalksComplete
    BY <1>1, <1>3 DEF WalksComplete
  <1> QED BY <1>1, <1>2, <1>3, <1>4, <1>5 DEF InFrontier

LEMMA InitFrontiers == Init => Frontiers
  BY DEF Init, Frontiers

LEMMA StepFrontiers ==
  ASSUME Fixed, Frontiers, [Next]_vars
  PROVE  Frontiers'
  <1> USE DEF graph, results
  <1>1. CASE WalkUp
    BY <1>1, WalkUpFrontiers
  <1>2. ASSUME NEW e \in JoinEdges, StartWalk(e) PROVE Frontiers'
    BY <1>2, StartWalkFrontiers
  <1>3. CASE SweepsEnd
    <2>1. /\ phase = "sweep" /\ phase' = "frontier" /\ frontier' = frontier
          /\ walk'.left = JoinEdges /\ walk'.bb = Null
      BY <1>3 DEF SweepsEnd, NoWalk
    <2>2. JoinEdges' = JoinEdges
      BY <1>3 DEF SweepsEnd, JoinEdges, Preds
    <2>3. \A x \in Blocks : frontier'[x] = {}
      BY <2>1 DEF Frontiers
    <2> QED BY <2>1, <2>2, <2>3 DEF Frontiers, WalkClimbs, WalksComplete
  <1>4. CASE BuildTree
    <2>1. /\ phase = "frontier" /\ phase' = "done" /\ walk.bb = Null /\ walk.left = {}
          /\ children' = [b \in Blocks |-> {c \in Blocks : idom[c] = b /\ b # c}]
          /\ UNCHANGED <<succ, idom, walk, frontier>>
      BY <1>4 DEF BuildTree
    <2> QED BY <2>1, WalksAgain DEF Frontiers
  <1>5. CASE UNCHANGED vars
    <2>1. UNCHANGED <<succ, phase, idom, walk, frontier, children>>
      BY <1>5 DEF vars
    <2> QED BY <2>1, WalksAgain DEF Frontiers
  <1>6. ASSUME phase \notin {"frontier", "done"}, phase' \notin {"frontier", "done"},
               UNCHANGED frontier
        PROVE  Frontiers'
    BY <1>6 DEF Frontiers
  <1>7. CASE PostOrderVisit
    BY <1>6, <1>7 DEF PostOrderVisit
  <1>8. CASE VisitEnd
    BY <1>6, <1>8 DEF VisitEnd
  <1>9. CASE SweepStart
    BY <1>6, <1>9 DEF SweepStart
  <1>10. CASE SkipEntry
    BY <1>6, <1>10 DEF SkipEntry
  <1>11. ASSUME NEW p \in Blocks, PickPred(p) PROVE Frontiers'
    BY <1>6, <1>11 DEF PickPred
  <1>12. ASSUME NEW p \in Blocks, JoinPred(p) PROVE Frontiers'
    BY <1>6, <1>12 DEF JoinPred
  <1>13. CASE Intersect
    BY <1>6, <1>13 DEF Intersect
  <1>14. CASE JoinEnd
    BY <1>6, <1>14 DEF JoinEnd
  <1> QED BY <1>1, <1>2, <1>3, <1>4, <1>5, <1>7, <1>8, <1>9, <1>10, <1>11, <1>12,
             <1>13, <1>14 DEF Next, Step, Done

(* What the walks and the tree hold at the end. *)
LEMMA WalksEnd ==
  ASSUME Fixed, Frontiers, phase = "done", IsFiniteSet(Blocks)
  PROVE  /\ \A x, y \in Blocks : y \in frontier[x] <=> InFrontier(x, y)
         /\ \A x, y \in Blocks : y \in children[x] <=>
                /\ StrictlyDominates(x, y)
                /\ \A d \in Blocks : StrictlyDominates(d, y) => Dominates(d, x)
  <1>1. /\ \A x \in Blocks : \A y \in frontier[x] : InFrontier(x, y)
        /\ walk.left = {} /\ walk.bb = Null /\ WalksComplete
        /\ children = [b \in Blocks |-> {c \in Blocks : idom[c] = b /\ b # c}]
    BY DEF Frontiers
  <1>2. succ \in [Blocks -> Seq(Blocks)] /\ AllReachable(succ) /\ NoBranchToEntry(succ)
    BY DEF Fixed, FixInv, IInv, TypeOK
  <1>3. ASSUME NEW x \in Blocks, NEW y \in Blocks, InFrontier(x, y)
        PROVE  y \in frontier[x]
    <2>1. PICK p \in Preds(y) : Dominates(x, p) /\ ~StrictlyDominates(x, y)
      BY <1>3 DEF InFrontier
    <2>2. <<p, y>> \in JoinEdges
      BY <1>2, <1>3, FrontierNeedsJoin DEF JoinEdges, Preds
    <2> QED BY <1>1, <2>1, <2>2, NullNotBlock DEF WalksComplete
  <1>4. ASSUME NEW x \in Blocks, NEW y \in Blocks, y \in children[x]
        PROVE  /\ StrictlyDominates(x, y)
               /\ \A d \in Blocks : StrictlyDominates(d, y) => Dominates(d, x)
    <2>1. idom[y] = x /\ x # y
      BY <1>1, <1>4
    <2>2. y # Entry
      BY <2>1 DEF Fixed, FixInv, IInv, ChainsVisited
    <2> QED BY <2>1, <2>2, IdomAbove
  <1>5. ASSUME NEW x \in Blocks, NEW y \in Blocks, StrictlyDominates(x, y),
               \A d \in Blocks : StrictlyDominates(d, y) => Dominates(d, x)
        PROVE  y \in children[x]
    <2>1. y # Entry
      BY <1>5, DominatesEntry DEF StrictlyDominates
    <2>2. idom[y] \in Blocks /\ Dominates(idom[y], x) /\ Dominates(x, idom[y])
      BY <1>5, <2>1, IdomAbove
    <2>3. idom[y] = x
      BY <1>2, <2>2, DominatesAntisymmetric
    <2> QED BY <1>1, <1>5, <2>3 DEF StrictlyDominates
  <1> QED BY <1>1, <1>3, <1>4, <1>5

(* The frontiers and the tree of Dominance, in the words of Dominates. *)
LEMMA DefinitionFacts ==
  ASSUME IsFiniteSet(Blocks), succ \in [Blocks -> Seq(Blocks)], AllReachable(succ),
         NEW x \in Blocks
  PROVE  LET dom == Dominated(succ, Entry)
         IN  /\ FrontierOf(succ, dom, x) = {y \in Blocks : InFrontier(x, y)}
             /\ ChildrenOf(dom, x) =
                    {y \in Blocks : /\ StrictlyDominates(x, y)
                                    /\ \A d \in Blocks : StrictlyDominates(d, y) => Dominates(d, x)}
  <1> DEFINE dom == Dominated(succ, Entry)
  <1>1. \A d, b \in Blocks : b \in dom[d] <=> Dominates(d, b)
    BY DominatedMeansDominates
  <1>2. DOMAIN dom = Blocks /\ \A d \in Blocks : dom[d] \subseteq Blocks
    BY DEF Dominated
  <1> HIDE DEF dom
  <1>3. \A p \in Blocks : \A y : y \in ToSet(succ[p]) <=> y \in Blocks /\ p \in Preds(y)
    BY ElementOfSeq, LenProperties DEF ToSet, Preds
  <1>4. \A y : y \in FrontierOf(succ, dom, x) <=> y \in Blocks /\ InFrontier(x, y)
    BY <1>1, <1>2, <1>3 DEF FrontierOf, InFrontier, StrictlyDominates, Preds
  <1>5. \A y : y \in ChildrenOf(dom, x) <=>
                /\ y \in Blocks /\ StrictlyDominates(x, y)
                /\ \A d \in Blocks : StrictlyDominates(d, y) => Dominates(d, x)
    BY <1>1, <1>2 DEF ChildrenOf, StrictlyDominates
  <1>6. /\ FrontierOf(succ, dom, x) = {y \in Blocks : InFrontier(x, y)}
        /\ ChildrenOf(dom, x) =
              {y \in Blocks : /\ StrictlyDominates(x, y)
                              /\ \A d \in Blocks : StrictlyDominates(d, y) => Dominates(d, x)}
    BY <1>4, <1>5
  <1> QED BY <1>6 DEF dom

(* The frontiers and the tree are those of the definitions.  Mem2Reg places *)
(* its phis by the one and renames along the other, and a block missing     *)
(* from either is a load that never becomes a register.                     *)
THEOREM FrontiersAndTree ==
  ASSUME IsFiniteSet(Blocks), \A g \in Cfgs : AllReachable(g) /\ NoBranchToEntry(g)
  PROVE  Spec => []MatchesDominance
  <1>1. FixInv /\ IdomCorrect => Fixed
    BY DEF Fixed, FixInv
  <1>2. Fixed /\ Frontiers /\ [Next]_vars => Frontiers'
    BY StepFrontiers
  <1>3. Fixed /\ Frontiers => MatchesDominance
    <2> SUFFICES ASSUME Fixed, Frontiers, phase = "done", NEW b \in Blocks
                 PROVE  LET dom == Dominated(succ, Entry)
                        IN  /\ frontier[b] = FrontierOf(succ, dom, b)
                            /\ children[b] = ChildrenOf(dom, b)
      BY DEF MatchesDominance
    <2>1. TypeOK /\ AllReachable(succ)
      BY DEF Fixed, FixInv, IInv
    <2>2. frontier[b] \subseteq Blocks /\ children[b] \subseteq Blocks
      BY <2>1 DEF TypeOK
    <2>3. succ \in [Blocks -> Seq(Blocks)]
      BY <2>1 DEF TypeOK
    <2>4. frontier[b] = {y \in Blocks : InFrontier(b, y)}
      BY <2>2, WalksEnd
    <2>5. children[b] = {y \in Blocks : /\ StrictlyDominates(b, y)
                              /\ \A d \in Blocks : StrictlyDominates(d, y) => Dominates(d, b)}
      BY <2>2, WalksEnd
    <2> QED BY <2>1, <2>3, <2>4, <2>5, DefinitionFacts
  <1>4. \A g \in Cfgs : AllReachable(g)
    OBVIOUS
  <1>5. Spec => []IdomCorrect
    BY <1>4, IdomsAreImmediate
  <1> QED BY <1>1, <1>2, <1>3, <1>5, InitFrontiers, FixInvariance, PTL DEF Spec

-----------------------------------------------------------------------------
(* LoopInfo. *)

(* The successors traverse goes over. *)
Edges(n) == nodeGraph.succs[n] \cap nodeGraph.nodes

On == ToSet(nodeStack)
Finished == UNION result

Calling(n) == \E i \in DOMAIN calls : calls[i].node = n

(* The successors of n its call has not dealt with. *)
Pending(n) ==
    UNION {calls[i].succs \cup calls[i].child : i \in {j \in DOMAIN calls : calls[j].node = n}}

Activation == [node : nodeGraph.nodes, succs : SUBSET nodeGraph.nodes, child : SUBSET nodeGraph.nodes]

(* Closed in what remains of the graph. *)
Closed(S) == \A x \in S : Edges(x) \subseteq S

(* A strongly connected component: a part of it cannot be left for nothing  *)
(* but the whole, and what is reached from it, P, does not lead back.       *)
Component(C) ==
    /\ C # {} /\ C \subseteq nodeGraph.nodes
    /\ \A S \in SUBSET C : S # {} /\ (\A x \in S : Edges(x) \cap C \subseteq S) => S = C
    /\ \E P \in SUBSET nodeGraph.nodes : P \cap C = {} /\ Closed(P) /\ Closed(P \cup C)

SccType ==
    /\ nodeGraph.nodes \in SUBSET Nodes
    /\ nodeGraph = [nodes |-> nodeGraph.nodes, succs |-> nodeGraph.succs]
    /\ nodeGraph.succs \in [Nodes -> SUBSET Nodes]
    /\ DOMAIN index \in SUBSET nodeGraph.nodes
    /\ index \in [DOMAIN index -> Nat]
    /\ low_link \in [DOMAIN index -> Nat]
    /\ nodeStack \in Seq(nodeGraph.nodes)
    /\ calls \in Seq(Activation)
    /\ result \in SUBSET SUBSET nodeGraph.nodes

IndexBelow == \A x \in DOMAIN index : index[x] < Cardinality(DOMAIN index)

Indexed == DOMAIN index = On \cup Finished /\ On \cap Finished = {}

StackOrdered ==
    \A i, j \in DOMAIN nodeStack : i < j => index[nodeStack[i]] < index[nodeStack[j]]

CallsOrdered ==
    /\ \A i \in DOMAIN calls : calls[i].node \in On
    /\ \A i, j \in DOMAIN calls : i < j => index[calls[i].node] < index[calls[j].node]
    /\ \A x \in On : \E i \in DOMAIN calls : index[calls[i].node] <= index[x]

CallsWait ==
    /\ \A i \in DOMAIN calls :
            /\ calls[i].succs \subseteq Edges(calls[i].node)
            /\ calls[i].child \subseteq Edges(calls[i].node)
            /\ i < Len(calls) => calls[i].child = {calls[i + 1].node}
    /\ calls # <<>> => \A s \in TopCall.child :
            /\ TopCall.child = {s}
            /\ s \in DOMAIN index
            /\ index[TopCall.node] < index[s]
            /\ s \in Finished => low_link[s] = index[s]

FinishedClosed == Closed(Finished)

EdgesSeen ==
    \A y \in On : \A z \in Edges(y) :
        z \in Pending(y) \/ z \in Finished \/ (z \in On /\ low_link[y] <= index[z])

(* A node was reached by an edge from a node above the innermost call. *)
Reaching ==
    \A x \in On :
        (\E i \in DOMAIN calls : index[calls[i].node] < index[x]) =>
        \E p \in On :
            /\ index[p] < index[x] /\ x \in Edges(p)
            /\ \A i \in DOMAIN calls :
                    index[calls[i].node] < index[x] => index[calls[i].node] <= index[p]

(* The low link of x is the index of a node that x leads to, by nodes that   *)
(* are not below x.                                                        *)
LowReached ==
    \A x \in On :
        /\ low_link[x] <= index[x]
        /\ \A S \in SUBSET On :
            x \in S /\ (\A y \in S : index[x] <= index[y] => Edges(y) \cap On \subseteq S) =>
            \E w \in S : index[w] = low_link[x]

LowFell == \A x \in On : ~Calling(x) => low_link[x] < index[x]

LowBounded ==
    \A x \in On, i \in DOMAIN calls :
        index[calls[i].node] <= index[x]
        /\ (i < Len(calls) => index[x] < index[calls[i + 1].node]) =>
            \/ low_link[calls[i].node] <= low_link[x]
            \/ /\ i = Len(calls)
               /\ \E s \in calls[i].child : index[s] <= index[x] /\ low_link[s] <= low_link[x]

Components == \A C \in result : Component(C)

SccInv ==
    /\ SccType
    /\ IndexBelow /\ Indexed /\ StackOrdered /\ CallsOrdered /\ CallsWait
    /\ FinishedClosed /\ EdgesSeen /\ Reaching /\ LowReached /\ LowFell /\ LowBounded
    /\ Components
-----------------------------------------------------------------------------
LEMMA SmallestNat ==
  ASSUME NEW S \in SUBSET Nat, S # {}
  PROVE  \E m \in S : \A l \in S : m <= l
  <1>1. PICK m \in S : \A l \in S : <<l, m>> \notin OpToRel(<, Nat)
    BY NatLessThanWellFounded, WFMin, Zenon
  <1>2. \A l \in S : ~(l < m)
    BY <1>1 DEF OpToRel
  <1> QED BY <1>2

LEMMA InitialPart ==
  ASSUME NEW S, NEW s \in Seq(S), NEW n \in 0 .. Len(s)
  PROVE  SubSeq(s, 1, n) \in Seq(S)
  <1>1. \A i \in 1 .. n : s[i] \in S
    BY ElementOfSeq, LenProperties
  <1>2. 1 \in Int /\ n \in Int
    BY LenProperties
  <1> QED BY <1>1, <1>2, SubSeqProperties, Zenon

LEMMA SccShape ==
  ASSUME SccInv
  PROVE  /\ On \subseteq nodeGraph.nodes /\ On \subseteq DOMAIN index
         /\ Finished \subseteq DOMAIN index
         /\ \A x \in DOMAIN index : index[x] \in Nat /\ low_link[x] \in Nat
         /\ DOMAIN low_link = DOMAIN index
         /\ Len(calls) \in Nat /\ DOMAIN calls = 1 .. Len(calls)
         /\ \A i \in DOMAIN calls :
                /\ calls[i] \in Activation
                /\ calls[i].node \in On /\ index[calls[i].node] \in Nat
         /\ Len(nodeStack) \in Nat /\ DOMAIN nodeStack = 1 .. Len(nodeStack)
         /\ \A i \in DOMAIN nodeStack : nodeStack[i] \in On
         /\ \A x \in On : \E i \in DOMAIN nodeStack : nodeStack[i] = x
  <1> USE DEF SccInv, SccType
  <1>1. \A i \in DOMAIN nodeStack : nodeStack[i] \in nodeGraph.nodes
    BY ElementOfSeq, LenProperties
  <1>2. On \subseteq nodeGraph.nodes /\ \A i \in DOMAIN nodeStack : nodeStack[i] \in On
    BY <1>1 DEF On, ToSet
  <1>3. On \subseteq DOMAIN index /\ Finished \subseteq DOMAIN index
    BY DEF Indexed
  <1>4. \A i \in DOMAIN calls : calls[i] \in Activation
    BY ElementOfSeq, LenProperties
  <1>5. \A x \in DOMAIN index : index[x] \in Nat /\ low_link[x] \in Nat
    OBVIOUS
  <1>6. \A i \in DOMAIN calls : calls[i].node \in On
    BY DEF CallsOrdered
  <1>7. \A x \in On : \E i \in DOMAIN nodeStack : nodeStack[i] = x
    BY DEF On, ToSet
  <1>8. DOMAIN low_link = DOMAIN index
    OBVIOUS
  <1>9. /\ Len(calls) \in Nat /\ DOMAIN calls = 1 .. Len(calls)
        /\ Len(nodeStack) \in Nat /\ DOMAIN nodeStack = 1 .. Len(nodeStack)
    BY LenProperties
  <1> HIDE DEF SccInv, SccType
  <1> QED BY <1>2, <1>3, <1>4, <1>5, <1>6, <1>7, <1>8, <1>9

LEMMA IndexedCount ==
  ASSUME IsFiniteSet(Nodes), SccType, NEW s \in nodeGraph.nodes \ DOMAIN index
  PROVE  /\ Cardinality(DOMAIN index) \in Nat
         /\ Cardinality(DOMAIN index \cup {s}) = Cardinality(DOMAIN index) + 1
  <1>1. DOMAIN index \in SUBSET Nodes
    BY DEF SccType
  <1>2. IsFiniteSet(DOMAIN index)
    BY <1>1, FS_Subset
  <1> QED BY <1>2, FS_AddElement, FS_CardinalityType

(* traverse is called for s, from the call at k if there is one. *)
LEMMA EnterKeeps ==
  ASSUME IsFiniteSet(Nodes), SccInv, NEW s \in nodeGraph.nodes \ DOMAIN index,
         nodeGraph' = nodeGraph, result' = result,
         index' = Numbered(index, s), low_link' = Numbered(low_link, s),
         nodeStack' = Append(nodeStack, s),
         calls' \in Seq(Activation), NEW k \in Nat, k = Len(calls), Len(calls') = k + 1,
         calls'[k + 1] = Call(s),
         \A i \in 1 .. k : calls'[i].node = calls[i].node,
         \A i \in 1 .. k - 1 : calls'[i] = calls[i],
         k > 0 => /\ calls[k].child = {} /\ calls'[k].child = {s}
                  /\ s \in calls[k].succs /\ calls'[k].succs = calls[k].succs \ {s}
  PROVE  SccInv'
  <1> DEFINE m == Cardinality(DOMAIN index)
  <1>t. SccType /\ IndexBelow /\ Indexed /\ StackOrdered /\ CallsOrdered /\ CallsWait
    BY DEF SccInv
  <1>i. FinishedClosed /\ EdgesSeen /\ Reaching /\ LowReached /\ LowFell /\ LowBounded
        /\ Components
    BY DEF SccInv
  <1>1. /\ DOMAIN index' = DOMAIN index \cup {s} /\ index'[s] = m
        /\ \A x \in DOMAIN index : index'[x] = index[x]
        /\ DOMAIN low_link' = DOMAIN low_link \cup {s} /\ low_link'[s] = m
        /\ \A x \in DOMAIN low_link : low_link'[x] = low_link[x]
    BY SccShape DEF Numbered
  <1>2. m \in Nat /\ Cardinality(DOMAIN index') = m + 1
    BY <1>1, <1>t, IndexedCount
  <1>3. On' = On \cup {s}
    <2>1. DOMAIN nodeStack' = 1 .. Len(nodeStack) + 1 /\ nodeStack'[Len(nodeStack) + 1] = s
          /\ \A i \in 1 .. Len(nodeStack) : nodeStack'[i] = nodeStack[i]
      BY <1>t, AppendProperties DEF SccType
    <2>2. \A x : x \in On' <=> \E i \in DOMAIN nodeStack' : nodeStack'[i] = x
      BY DEF On, ToSet
    <2>3. \A x : x \in On <=> \E i \in DOMAIN nodeStack : nodeStack[i] = x
      BY DEF On, ToSet
    <2>4. DOMAIN nodeStack = 1 .. Len(nodeStack) /\ Len(nodeStack) \in Nat
      BY SccShape
    <2>5. \A x \in On' : x \in On \cup {s}
      BY <2>1, <2>2, <2>3, <2>4
    <2>6. \A x \in On \cup {s} : x \in On'
      BY <2>1, <2>2, <2>3, <2>4
    <2> QED BY <2>5, <2>6
  <1>4. Finished' = Finished /\ \A x : Edges(x)' = Edges(x)
    BY DEF Finished, Edges
  <1>5. DOMAIN calls' = 1 .. k + 1 /\ DOMAIN calls = 1 .. k
    BY LenProperties, SccShape
  <1>6. calls'[k + 1].node = s /\ calls'[k + 1].succs = Edges(s) /\ calls'[k + 1].child = {}
    BY DEF Call, Edges
  <1>7. \A x \in DOMAIN index : index[x] < m /\ index[x] \in Nat
    BY <1>t, SccShape DEF IndexBelow
  <1>8. s \notin On /\ s \notin Finished
    BY SccShape
  <1>9. \A i \in 1 .. k : calls'[i].node \in On /\ index'[calls'[i].node] = index[calls[i].node]
    BY <1>1, <1>5, SccShape
  <1>10. index'[calls'[k + 1].node] = m
    BY <1>1, <1>6
  <1> HIDE DEF m
  <1>11. SccType'
    <2>1. nodeStack' \in Seq(nodeGraph.nodes)
      BY <1>t, AppendProperties DEF SccType
    <2>2. index' \in [DOMAIN index' -> Nat] /\ low_link' \in [DOMAIN index' -> Nat]
      BY <1>t, <1>2 DEF Numbered, SccType, m
    <2>3. calls' \in Seq(Activation)'
      BY DEF Activation
    <2> QED BY <1>t, <1>1, <2>1, <2>2, <2>3 DEF SccType
  <1>12. IndexBelow'
    BY <1>1, <1>2, <1>7 DEF IndexBelow
  <1>13. Indexed'
    BY <1>t, <1>1, <1>3, <1>4, <1>8 DEF Indexed
  <1>14. StackOrdered'
    <2>1. DOMAIN nodeStack' = 1 .. Len(nodeStack) + 1 /\ nodeStack'[Len(nodeStack) + 1] = s
          /\ \A i \in 1 .. Len(nodeStack) : nodeStack'[i] = nodeStack[i]
      BY <1>t, AppendProperties DEF SccType
    <2> SUFFICES ASSUME NEW i \in DOMAIN nodeStack', NEW j \in DOMAIN nodeStack', i < j
                 PROVE  index'[nodeStack'[i]] < index'[nodeStack'[j]]
      BY DEF StackOrdered
    <2>2. i \in DOMAIN nodeStack /\ nodeStack'[i] = nodeStack[i] /\ nodeStack[i] \in DOMAIN index
      BY <2>1, SccShape
    <2>3. CASE j = Len(nodeStack) + 1
      BY <2>1, <2>2, <2>3, <1>1, <1>7
    <2>4. CASE j # Len(nodeStack) + 1
      <3>1. j \in DOMAIN nodeStack /\ nodeStack'[j] = nodeStack[j] /\ nodeStack[j] \in DOMAIN index
        BY <2>1, <2>4, SccShape
      <3> QED BY <2>2, <3>1, <1>1, <1>t DEF StackOrdered
    <2> QED BY <2>3, <2>4
  <1>15. CallsOrdered'
    <2>1. \A i \in DOMAIN calls' : calls'[i].node \in On'
      BY <1>3, <1>5, <1>6, <1>9
    <2>2. \A i, j \in DOMAIN calls' : i < j => index'[calls'[i].node] < index'[calls'[j].node]
      <3> SUFFICES ASSUME NEW i \in 1 .. k + 1, NEW j \in 1 .. k + 1, i < j
                   PROVE  index'[calls'[i].node] < index'[calls'[j].node]
        BY <1>5
      <3>1. i \in 1 .. k
        <4>1. k \in Nat /\ i \in Nat /\ j \in Nat /\ 1 <= i /\ i < j /\ j <= k + 1
          OBVIOUS
        <4> QED BY ONLY <4>1
      <3>2. CASE j = k + 1
        BY <3>1, <3>2, <1>5, <1>7, <1>9, <1>10, SccShape
      <3>3. CASE j # k + 1
        <4>3. j \in 1 .. k
          <5>1. k \in Nat /\ j \in Nat /\ 1 <= j /\ j <= k + 1 /\ j # k + 1
            BY <3>3
          <5> QED BY ONLY <5>1
        <4>1. i \in DOMAIN calls /\ j \in DOMAIN calls
          BY <3>1, <4>3, <1>5
        <4>2. index[calls[i].node] < index[calls[j].node]
          BY <4>1, <1>t DEF CallsOrdered
        <4> QED BY <3>1, <4>1, <4>2, <1>9
      <3> QED BY <3>2, <3>3
    <2>3. \A x \in On' : \E i \in DOMAIN calls' : index'[calls'[i].node] <= index'[x]
      <3> SUFFICES ASSUME NEW x \in On'
                   PROVE  \E i \in 1 .. k + 1 : index'[calls'[i].node] <= index'[x]
        BY <1>5
      <3>1. CASE x = s
        BY <3>1, <1>1, <1>2, <1>10
      <3>2. CASE x \in On
        <4>1. PICK i \in 1 .. k : index[calls[i].node] <= index[x]
          BY <3>2, <1>5, <1>t DEF CallsOrdered
        <4>2. index'[calls'[i].node] <= index'[x]
          BY <3>2, <4>1, <1>1, <1>9, SccShape
        <4> QED BY <4>2
      <3> QED BY <3>1, <3>2, <1>3
    <2> QED BY <2>1, <2>2, <2>3 DEF CallsOrdered
  <1>16. CallsWait'
    <2>0. \A i \in 1 .. k : /\ calls[i].succs \subseteq Edges(calls[i].node)
                            /\ calls[i].child \subseteq Edges(calls[i].node)
                            /\ i < k => calls[i].child = {calls[i + 1].node}
      BY <1>5, <1>t DEF CallsWait
    <2>1. \A i \in 1 .. k + 1 : calls'[i].succs \subseteq Edges(calls'[i].node)
      <3> SUFFICES ASSUME NEW i \in 1 .. k + 1
                   PROVE  calls'[i].succs \subseteq Edges(calls'[i].node)
        OBVIOUS
      <3>1. CASE i = k + 1
        BY <3>1, <1>6
      <3>2. CASE i = k
        BY <3>2, <2>0
      <3>3. CASE i \in 1 .. k - 1
        BY <3>3, <2>0
      <3> QED BY <3>1, <3>2, <3>3
    <2>2. \A i \in 1 .. k + 1 : calls'[i].child \subseteq Edges(calls'[i].node)
      <3> SUFFICES ASSUME NEW i \in 1 .. k + 1
                   PROVE  calls'[i].child \subseteq Edges(calls'[i].node)
        OBVIOUS
      <3>1. CASE i = k + 1
        BY <3>1, <1>6
      <3>2. CASE i = k
        BY <3>2, <2>0
      <3>3. CASE i \in 1 .. k - 1
        BY <3>3, <2>0
      <3> QED BY <3>1, <3>2, <3>3
    <2>3. \A i \in 1 .. k : calls'[i].child = {calls'[i + 1].node}
      <3> SUFFICES ASSUME NEW i \in 1 .. k
                   PROVE  calls'[i].child = {calls'[i + 1].node}
        OBVIOUS
      <3>1. CASE i = k
        BY <3>1, <1>6
      <3>2. CASE i \in 1 .. k - 1
        BY <3>2, <2>0
      <3> QED BY <3>1, <3>2
    <2>4. TopCall'.child = {}
      BY <1>6 DEF TopCall, Last
    <2> QED BY <2>1, <2>2, <2>3, <2>4, <1>5 DEF CallsWait, Edges
  <1>17. FinishedClosed'
    BY <1>i, <1>4 DEF FinishedClosed, Closed
  <1>18. EdgesSeen'
    <2> SUFFICES ASSUME NEW y \in On', NEW z \in Edges(y)
                 PROVE  \/ z \in Pending(y)' \/ z \in Finished
                        \/ (z \in On' /\ low_link'[y] <= index'[z])
      BY <1>4 DEF EdgesSeen
    <2>1. \A i \in 1 .. k + 1 : calls'[i].node = y => calls'[i].succs \cup calls'[i].child \subseteq Pending(y)'
      BY <1>5 DEF Pending
    <2>2. CASE y = s
      BY <2>1, <2>2, <1>5, <1>6
    <2>3. CASE y \in On
      <3>1. CASE z \in Pending(y)
        <4>1. PICK i \in 1 .. k : calls[i].node = y /\ z \in calls[i].succs \cup calls[i].child
          BY <3>1, <1>5 DEF Pending
        <4>2. z \in calls'[i].succs \cup calls'[i].child
          <5>1. CASE i = k
            BY <4>1, <5>1
          <5>2. CASE i # k
            <6>1. i \in 1 .. k - 1
              BY <5>2
            <6> QED BY <4>1, <6>1
          <5> QED BY <5>1, <5>2
        <4> QED BY <4>1, <4>2, <2>1
      <3>2. CASE z \in Finished
        BY <3>2
      <3>3. CASE z \in On /\ low_link[y] <= index[z]
        BY <3>3, <2>3, <1>1, <1>3, SccShape
      <3> QED BY <2>3, <3>1, <3>2, <3>3, <1>i DEF EdgesSeen
    <2> QED BY <2>2, <2>3, <1>3
  <1>19. Reaching'
    <2> SUFFICES ASSUME NEW x \in On', NEW j \in 1 .. k + 1, index'[calls'[j].node] < index'[x]
                 PROVE  \E p \in On' :
                            /\ index'[p] < index'[x] /\ x \in Edges(p)
                            /\ \A i \in 1 .. k + 1 : index'[calls'[i].node] < index'[x] =>
                                                     index'[calls'[i].node] <= index'[p]
      BY <1>4, <1>5 DEF Reaching
    <2>1. CASE x = s
      <3>1. k > 0
        BY <2>1, <1>1, <1>2, <1>10
      <3> DEFINE p == calls[k].node
      <3>2. p \in On /\ k \in DOMAIN calls
        BY <3>1, <1>5, SccShape
      <3>3. index'[p] < index'[x]
        BY <2>1, <3>2, <1>1, <1>7, SccShape
      <3>4. x \in Edges(p)
        BY <2>1, <3>1, <3>2, <1>t DEF CallsWait
      <3>5. \A i \in 1 .. k : index'[calls'[i].node] <= index'[p]
        <4> SUFFICES ASSUME NEW i \in 1 .. k PROVE index'[calls'[i].node] <= index'[p]
          OBVIOUS
        <4>1. index'[calls'[i].node] = index[calls[i].node] /\ index'[p] = index[p]
          BY <3>1, <3>2, <1>1, <1>9, SccShape
        <4>2. i < k => index[calls[i].node] < index[p]
          <5>1. i \in DOMAIN calls
            BY <1>5
          <5> QED BY <3>2, <5>1, <1>t DEF CallsOrdered
        <4>3. index[p] \in Nat /\ index[calls[i].node] \in Nat
          BY <3>2, <1>5, SccShape
        <4> QED BY <4>1, <4>2, <4>3
      <3>6. ~(index'[calls'[k + 1].node] < index'[x])
        BY <2>1, <1>1, <1>2, <1>10
      <3>7. p \in On'
        BY <3>2, <1>3
      <3> HIDE DEF p
      <3> QED BY <3>3, <3>4, <3>5, <3>6, <3>7
    <2>2. CASE x \in On
      <3>1. index'[x] = index[x] /\ index[x] < m /\ index[x] \in Nat
        BY <2>2, <1>1, <1>7, SccShape
      <3>2. j \in 1 .. k
        BY <3>1, <1>2, <1>10
      <3>3. PICK p \in On :
                /\ index[p] < index[x] /\ x \in Edges(p)
                /\ \A i \in DOMAIN calls :
                        index[calls[i].node] < index[x] => index[calls[i].node] <= index[p]
        BY <2>2, <3>1, <3>2, <1>5, <1>9, <1>i DEF Reaching
      <3>4. index'[p] = index[p] /\ p \in On'
        BY <1>1, <1>3, SccShape
      <3>5. \A i \in 1 .. k + 1 : index'[calls'[i].node] < index'[x] => i \in 1 .. k
        BY <3>1, <1>2, <1>10
      <3> QED BY <3>1, <3>3, <3>4, <3>5, <1>5, <1>9
    <2> QED BY <2>1, <2>2, <1>3
  <1>20. LowReached'
    <2> SUFFICES ASSUME NEW x \in On'
                 PROVE  /\ low_link'[x] <= index'[x]
                        /\ \A S \in SUBSET On' :
                            x \in S /\ (\A y \in S : index'[x] <= index'[y] =>
                                                     Edges(y) \cap On' \subseteq S)
                            => \E w \in S : index'[w] = low_link'[x]
      BY <1>4 DEF LowReached
    <2>1. CASE x = s
      BY <2>1, <1>1, <1>2
    <2>2. CASE x \in On
      <3>1. x \in DOMAIN index /\ x \in DOMAIN low_link
        BY <2>2, SccShape
      <3>2. low_link'[x] <= index'[x]
        BY <2>2, <3>1, <1>1, <1>i DEF LowReached
      <3>3. ASSUME NEW S \in SUBSET On', x \in S,
                   \A y \in S : index'[x] <= index'[y] => Edges(y) \cap On' \subseteq S
            PROVE  \E w \in S : index'[w] = low_link'[x]
        <4>1. S \cap On \in SUBSET On /\ x \in S \cap On
          BY <2>2, <3>3
        <4>2. \A y \in S \cap On : index[x] <= index[y] => Edges(y) \cap On \subseteq S \cap On
          BY <3>1, <3>3, <1>1, <1>3, SccShape
        <4>3. PICK w \in S \cap On : index[w] = low_link[x]
          BY <2>2, <4>1, <4>2, <1>i DEF LowReached
        <4> QED BY <3>1, <4>3, <1>1, SccShape
      <3> QED BY <3>2, <3>3
    <2> QED BY <2>1, <2>2, <1>3
  <1>21. LowFell'
    <2> SUFFICES ASSUME NEW x \in On', ~Calling(x)' PROVE low_link'[x] < index'[x]
      BY DEF LowFell
    <2>1. \A i \in 1 .. k + 1 : calls'[i].node # x
      BY <1>5 DEF Calling
    <2>2. x \in On /\ ~Calling(x)
      BY <2>1, <1>3, <1>5, <1>6 DEF Calling
    <2> QED BY <2>2, <1>1, <1>i, SccShape DEF LowFell
  <1>22. LowBounded'
    <2> SUFFICES ASSUME NEW x \in On', NEW i \in 1 .. k + 1, index'[calls'[i].node] <= index'[x],
                        i < k + 1 => index'[x] < index'[calls'[i + 1].node]
                 PROVE  low_link'[calls'[i].node] <= low_link'[x]
      BY <1>5 DEF LowBounded
    <2>1. CASE x = s
      <3>1. i = k + 1
        <4> SUFFICES ASSUME i \in 1 .. k PROVE FALSE
          OBVIOUS
        <4>1. m < index'[calls'[i + 1].node]
          BY <2>1, <1>1
        <4>2. CASE i = k
          BY <4>1, <4>2, <1>2, <1>10
        <4>3. CASE i \in 1 .. k - 1
          <5>1. i + 1 \in 1 .. k
            BY <4>3
          <5>2. index'[calls'[i + 1].node] = index[calls[i + 1].node]
                /\ calls[i + 1].node \in DOMAIN index
            BY <5>1, <1>5, <1>9, SccShape
          <5> QED BY <4>1, <5>2, <1>2, <1>7
        <4> QED BY <4>2, <4>3
      <3> QED BY <2>1, <3>1, <1>1, <1>2, <1>6
    <2>2. CASE x \in On
      <3>1. index'[x] = index[x] /\ index[x] < m /\ index[x] \in Nat /\ low_link'[x] = low_link[x]
        BY <2>2, <1>1, <1>7, SccShape
      <3>2. i \in 1 .. k
        BY <3>1, <1>2, <1>10
      <3>3. low_link'[calls'[i].node] = low_link[calls[i].node]
        BY <3>2, <1>1, <1>5, SccShape
      <3>4. index[calls[i].node] <= index[x] /\ (i < k => index[x] < index[calls[i + 1].node])
        BY <3>1, <3>2, <1>9
      <3>5. i = k => calls[i].child = {}
        BY <3>2
      <3> QED BY <2>2, <3>1, <3>2, <3>3, <3>4, <3>5, <1>5, <1>i DEF LowBounded
    <2> QED BY <2>1, <2>2, <1>3
  <1>23. Components'
    <2>1. \A D : Component(D)' <=> Component(D)
      BY <1>4 DEF Component, Closed
    <2> QED BY <2>1, <1>i DEF Components
  <1> QED BY <1>11, <1>12, <1>13, <1>14, <1>15, <1>16, <1>17, <1>18, <1>19, <1>20, <1>21, <1>22,
             <1>23 DEF SccInv

LEMMA RootKeeps ==
  ASSUME IsFiniteSet(Nodes), SccInv, NEW n \in Nodes, Root(n)
  PROVE  SccInv'
  <1>1. /\ calls = <<>> /\ n \in nodeGraph.nodes \ DOMAIN index
        /\ nodeGraph' = nodeGraph /\ result' = result
        /\ index' = Numbered(index, n) /\ low_link' = Numbered(low_link, n)
        /\ nodeStack' = Append(nodeStack, n) /\ calls' = Append(<<>>, Call(n))
    BY DEF Root, Enter
  <1>2. Call(n) \in Activation
    BY <1>1 DEF Call, Activation
  <1>3. calls' \in Seq(Activation) /\ Len(calls) = 0 /\ Len(calls') = 0 + 1
        /\ calls'[0 + 1] = Call(n)
    BY <1>1, <1>2
  <1>4. \A i \in 1 .. 0 : calls'[i].node = calls[i].node
    OBVIOUS
  <1>5. \A i \in 1 .. 0 - 1 : calls'[i] = calls[i]
    OBVIOUS
  <1> HIDE DEF SccInv
  <1> QED BY <1>1, <1>3, <1>4, <1>5, EnterKeeps

(* The innermost call goes on: it is what changes. *)
LEMMA InnermostCall ==
  ASSUME SccInv, calls # <<>>
  PROVE  LET k == Len(calls)
         IN  /\ k \in Nat \ {0} /\ k \in DOMAIN calls /\ TopCall = calls[k]
             /\ calls[k] \in Activation
             /\ calls[k] = [node |-> calls[k].node, succs |-> calls[k].succs, child |-> calls[k].child]
             /\ calls[k].node \in On
             /\ calls[k].succs \subseteq Edges(calls[k].node)
  <1>1. calls \in Seq(Activation)
    BY DEF SccInv, SccType
  <1>2. Len(calls) \in Nat \ {0}
    BY <1>1, LenProperties, EmptySeq
  <1>3. Len(calls) \in DOMAIN calls
    BY <1>1, <1>2, LenProperties
  <1>4. calls[Len(calls)] \in Activation /\ calls[Len(calls)].node \in On
    BY <1>3, SccShape
  <1> QED BY <1>2, <1>3, <1>4 DEF TopCall, Last, Activation, SccInv, CallsWait

LEMMA DescendKeeps ==
  ASSUME IsFiniteSet(Nodes), SccInv, NEW s \in Nodes, Descend(s)
  PROVE  SccInv'
  <1> DEFINE k == Len(calls)
             top == Awaiting(TopCall, s)
             callers == [calls EXCEPT ![k] = top]
  <1>1. /\ calls # <<>> /\ TopCall.child = {} /\ s \in TopCall.succs \ DOMAIN index
        /\ nodeGraph' = nodeGraph /\ result' = result
        /\ index' = Numbered(index, s) /\ low_link' = Numbered(low_link, s)
        /\ nodeStack' = Append(nodeStack, s) /\ calls' = Append(callers, Call(s))
    BY DEF Descend, Enter
  <1>2. /\ k \in Nat \ {0} /\ k \in DOMAIN calls /\ calls[k].child = {} /\ calls[k] \in Activation
        /\ s \in calls[k].succs
        /\ calls[k] = [node |-> calls[k].node, succs |-> calls[k].succs, child |-> calls[k].child]
        /\ TopCall = calls[k]
    BY <1>1, InnermostCall
  <1>3. s \in nodeGraph.nodes \ DOMAIN index
    BY <1>1, <1>2 DEF Activation
  <1>4. top \in Activation /\ top.node = calls[k].node /\ top.child = {s} /\ top.succs = calls[k].succs \ {s}
    BY <1>2, <1>3 DEF Activation, Awaiting
  <1> HIDE DEF top
  <1>5. calls \in Seq(Activation)
    BY DEF SccInv, SccType
  <1>6. callers \in Seq(Activation) /\ Len(callers) = k /\ callers[k] = top
        /\ \A i \in 1 .. k : i # k => callers[i] = calls[i]
    BY <1>2, <1>4, <1>5, ExceptSeq
  <1> HIDE DEF callers
  <1>7. Call(s) \in Activation
    BY <1>3 DEF Call, Activation
  <1>8. calls' \in Seq(Activation) /\ Len(calls') = k + 1 /\ calls'[k + 1] = Call(s)
        /\ \A i \in 1 .. k : calls'[i] = callers[i]
    BY <1>1, <1>6, <1>7, AppendProperties
  <1>9. \A i \in 1 .. k : calls'[i].node = calls[i].node
    BY <1>4, <1>6, <1>8
  <1>10. \A i \in 1 .. k - 1 : calls'[i] = calls[i]
    BY <1>2, <1>6, <1>8
  <1>11. calls'[k] = top
    BY <1>2, <1>6, <1>8
  <1>12. k \in Nat /\ k = Len(calls)
    BY <1>2
  <1> HIDE DEF k
  <1> QED BY <1>1, <1>2, <1>3, <1>4, <1>8, <1>9, <1>10, <1>11, <1>12, EnterKeeps

(* The innermost call, of n, is done with its successor s. *)
LEMMA LowerKeeps ==
  ASSUME SccInv, nodeGraph' = nodeGraph, index' = index, nodeStack' = nodeStack,
         result' = result, calls' \in Seq(Activation),
         NEW k \in Nat \ {0}, k = Len(calls), Len(calls') = k,
         \A i \in 1 .. k - 1 : calls'[i] = calls[i],
         NEW n, n = calls[k].node, calls'[k].node = n, calls'[k].child = {},
         calls'[k].succs \subseteq calls[k].succs,
         NEW s \in DOMAIN index, s \in Edges(n),
         calls[k].succs \cup calls[k].child \subseteq calls'[k].succs \cup {s},
         low_link' \in [DOMAIN index -> Nat], low_link'[n] <= low_link[n],
         \A x \in DOMAIN index : x # n => low_link'[x] = low_link[x],
         \/ low_link'[n] = low_link[n]
         \/ s \in On /\ low_link'[n] = index[s]
         \/ s \in On /\ low_link'[n] = low_link[s] /\ index[n] < index[s],
         s \in Finished \/ low_link'[n] <= index[s],
         \A c \in calls[k].child : low_link'[n] <= low_link[c]
  PROVE  SccInv'
  <1>t. SccType /\ IndexBelow /\ Indexed /\ StackOrdered /\ CallsOrdered /\ CallsWait
    BY DEF SccInv
  <1>i. FinishedClosed /\ EdgesSeen /\ Reaching /\ LowReached /\ LowFell /\ LowBounded
        /\ Components
    BY DEF SccInv
  <1>1. On' = On /\ Finished' = Finished /\ \A x : Edges(x)' = Edges(x)
    BY DEF On, Finished, Edges
  <1>2. DOMAIN calls' = 1 .. k /\ DOMAIN calls = 1 .. k
    BY LenProperties, SccShape
  <1>3. \A i \in 1 .. k : calls'[i].node = calls[i].node
    <2> SUFFICES ASSUME NEW i \in 1 .. k PROVE calls'[i].node = calls[i].node
      OBVIOUS
    <2>1. i = k \/ i \in 1 .. k - 1
      OBVIOUS
    <2> QED BY <2>1
  <1>4. n \in On /\ n \in DOMAIN index /\ k \in DOMAIN calls
    BY <1>2, SccShape
  <1>5. \A x \in DOMAIN index : index[x] \in Nat /\ low_link[x] \in Nat /\ low_link'[x] \in Nat
    BY SccShape
  <1>6. On \subseteq DOMAIN index
    BY SccShape
  <1>11. SccType'
    <2>1. calls' \in Seq(Activation)'
      BY DEF Activation
    <2> QED BY <1>t, <2>1 DEF SccType
  <1>12. IndexBelow'
    BY <1>t DEF IndexBelow
  <1>13. Indexed'
    BY <1>t, <1>1 DEF Indexed
  <1>14. StackOrdered'
    BY <1>t DEF StackOrdered
  <1>15. CallsOrdered'
    BY <1>t, <1>1, <1>2, <1>3 DEF CallsOrdered
  <1>16. CallsWait'
    <2>0. \A i \in 1 .. k : /\ calls[i].succs \subseteq Edges(calls[i].node)
                            /\ calls[i].child \subseteq Edges(calls[i].node)
                            /\ i < k => calls[i].child = {calls[i + 1].node}
      <3>1. CallsWait
        BY <1>t
      <3>2. DOMAIN calls = 1 .. k
        BY <1>2
      <3> QED BY <3>1, <3>2 DEF CallsWait
    <2>1. \A i \in 1 .. k : /\ calls'[i].succs \subseteq Edges(calls'[i].node)
                            /\ calls'[i].child \subseteq Edges(calls'[i].node)
      <3> SUFFICES ASSUME NEW i \in 1 .. k
                   PROVE  /\ calls'[i].succs \subseteq Edges(calls'[i].node)
                          /\ calls'[i].child \subseteq Edges(calls'[i].node)
        OBVIOUS
      <3>1. CASE i = k
        BY <3>1, <2>0
      <3>2. CASE i \in 1 .. k - 1
        BY <3>2, <2>0
      <3> QED BY <3>1, <3>2
    <2>2. \A i \in 1 .. k - 1 : calls'[i].child = {calls'[i + 1].node}
      <3> SUFFICES ASSUME NEW i \in 1 .. k - 1
                   PROVE  calls'[i].child = {calls'[i + 1].node}
        OBVIOUS
      <3>1. i + 1 \in 1 .. k
        OBVIOUS
      <3> QED BY <3>1, <2>0, <1>3
    <2>3. TopCall'.child = {}
      BY DEF TopCall, Last
    <2> QED BY <2>1, <2>2, <2>3, <1>2 DEF CallsWait, Edges
  <1>17. FinishedClosed'
    BY <1>i, <1>1 DEF FinishedClosed, Closed
  <1>18. EdgesSeen'
    <2> SUFFICES ASSUME NEW y \in On, NEW z \in Edges(y)
                 PROVE  \/ z \in Pending(y)' \/ z \in Finished
                        \/ (z \in On /\ low_link'[y] <= index[z])
      BY <1>1 DEF EdgesSeen
    <2>1. CASE y = n /\ z = s
      BY <2>1, <1>t DEF Indexed
    <2>2. CASE y # n \/ z # s
      <3>1. CASE z \in Pending(y)
        <4>1. PICK i \in 1 .. k : calls[i].node = y /\ z \in calls[i].succs \cup calls[i].child
          BY <3>1, <1>2 DEF Pending
        <4>2. z \in calls'[i].succs \cup calls'[i].child
          <5>1. CASE i = k
            BY <4>1, <5>1, <2>2
          <5>2. CASE i \in 1 .. k - 1
            BY <4>1, <5>2
          <5> QED BY <5>1, <5>2
        <4>3. calls'[i].node = y
          BY <4>1, <1>3
        <4> QED BY <4>1, <4>2, <4>3, <1>2 DEF Pending
      <3>2. CASE z \in Finished
        BY <3>2
      <3>3. CASE z \in On /\ low_link[y] <= index[z]
        <4>1. low_link'[y] <= low_link[y]
          BY <1>5, <1>6
        <4> QED BY <3>3, <4>1, <1>5, <1>6
      <3> QED BY <3>1, <3>2, <3>3, <1>i DEF EdgesSeen
    <2> QED BY <2>1, <2>2
  <1>19. Reaching'
    <2>1. \A i \in 1 .. k : index'[calls'[i].node] = index[calls[i].node]
      BY <1>3
    <2>2. ASSUME NEW x \in On', NEW j \in 1 .. k, index'[calls'[j].node] < index'[x]
          PROVE  \E p \in On' :
                    /\ index'[p] < index'[x] /\ x \in Edges(p)'
                    /\ \A i \in 1 .. k : index'[calls'[i].node] < index'[x] =>
                                            index'[calls'[i].node] <= index'[p]
      <3>1. PICK p \in On :
                /\ index[p] < index[x] /\ x \in Edges(p)
                /\ \A i \in 1 .. k : index[calls[i].node] < index[x] =>
                                        index[calls[i].node] <= index[p]
        BY <2>1, <2>2, <1>1, <1>2, <1>i DEF Reaching
      <3> QED BY <3>1, <2>1, <1>1
    <2> QED BY <2>2, <1>2 DEF Reaching
  <1>20. LowReached'
    <2> SUFFICES ASSUME NEW x \in On
                 PROVE  /\ low_link'[x] <= index[x]
                        /\ \A S \in SUBSET On :
                            x \in S /\ (\A y \in S : index[x] <= index[y] =>
                                                     Edges(y) \cap On \subseteq S)
                            => \E w \in S : index[w] = low_link'[x]
      BY <1>1 DEF LowReached
    <2>0. \A v \in On :
            /\ low_link[v] <= index[v]
            /\ \A S \in SUBSET On :
                v \in S /\ (\A y \in S : index[v] <= index[y] => Edges(y) \cap On \subseteq S)
                => \E w \in S : index[w] = low_link[v]
      BY <1>i DEF LowReached
    <2>1. CASE low_link'[x] = low_link[x]
      BY <2>0, <2>1
    <2>2. CASE x = n /\ s \in On /\ low_link'[x] # low_link[x]
      <3>1. low_link'[n] <= index[n]
        BY <2>0, <1>4, <1>5
      <3>2. ASSUME NEW S \in SUBSET On, n \in S,
                   \A y \in S : index[n] <= index[y] => Edges(y) \cap On \subseteq S
            PROVE  \E w \in S : index[w] = low_link'[n]
        <4>1. s \in S
          BY <3>2, <2>2, <1>4, <1>5
        <4>2. CASE low_link'[n] = index[s]
          BY <4>1, <4>2
        <4>3. CASE low_link'[n] = low_link[s] /\ index[n] < index[s]
          <5>1. \A y \in S : index[s] <= index[y] => Edges(y) \cap On \subseteq S
            <6> SUFFICES ASSUME NEW y \in S, index[s] <= index[y]
                         PROVE  Edges(y) \cap On \subseteq S
              OBVIOUS
            <6>1. index[n] \in Nat /\ index[s] \in Nat /\ index[y] \in Nat
              BY <1>4, <1>5, <1>6
            <6>2. index[n] <= index[y]
              BY <4>3, <6>1
            <6> QED BY <3>2, <6>2
          <5> QED BY <2>0, <4>1, <4>3, <5>1
        <4> QED BY <4>2, <4>3, <2>2
      <3> QED BY <2>2, <3>1, <3>2
    <2>3. (x = n /\ s \in On) \/ low_link'[x] = low_link[x]
      BY <1>6
    <2> QED BY <2>1, <2>2, <2>3
  <1>21. LowFell'
    <2> SUFFICES ASSUME NEW x \in On, ~Calling(x)' PROVE low_link'[x] < index[x]
      BY <1>1 DEF LowFell
    <2>1. ~Calling(x) /\ x # n
      BY <1>2, <1>3 DEF Calling
    <2> QED BY <2>1, <1>6, <1>i DEF LowFell
  <1>22. LowBounded'
    <2> SUFFICES ASSUME NEW x \in On, NEW i \in 1 .. k, index[calls[i].node] <= index[x],
                        i < k => index[x] < index[calls[i + 1].node]
                 PROVE  low_link'[calls[i].node] <= low_link'[x]
      <3>1. \A j \in 1 .. k : j < k => calls'[j + 1].node = calls[j + 1].node
        BY <1>3
      <3> QED BY <3>1, <1>1, <1>2, <1>3 DEF LowBounded
    <2>0. calls[i].node \in On /\ calls[i].node \in DOMAIN index /\ x \in DOMAIN index
      BY <1>2, <1>6, SccShape
    <2>1. CASE x = n
      <3>1. i = k
        <4> SUFFICES ASSUME i < k PROVE FALSE
          OBVIOUS
        <4>1. i + 1 \in 1 .. k /\ (i + 1 = k \/ i + 1 < k)
          OBVIOUS
        <4>2. index[calls[i + 1].node] <= index[n]
          <5>1. i + 1 \in DOMAIN calls
            BY <1>2
          <5>2. i + 1 < k => index[calls[i + 1].node] < index[calls[k].node]
            BY <1>4, <5>1, <1>t DEF CallsOrdered
          <5>3. index[calls[i + 1].node] \in Nat
            BY <5>1, SccShape
          <5> QED BY <4>1, <5>2, <5>3, <1>4, <1>5
        <4>3. index[calls[i + 1].node] \in Nat
          BY <4>1, <1>2, SccShape
        <4> QED BY <4>2, <4>3, <2>1, <1>4, <1>5
      <3> QED BY <2>1, <3>1, <1>4, <1>5
    <2>2. CASE x # n
      <3>1. low_link'[x] = low_link[x]
        BY <2>0, <2>2
      <3>2. low_link'[calls[i].node] <= low_link[calls[i].node]
        BY <2>0, <1>5
      <3>3. CASE low_link[calls[i].node] <= low_link[x]
        BY <3>1, <3>2, <3>3, <2>0, <1>5
      <3>4. CASE i = k /\ \E c \in calls[k].child : index[c] <= index[x] /\ low_link[c] <= low_link[x]
        <4>1. PICK c \in calls[k].child : index[c] <= index[x] /\ low_link[c] <= low_link[x]
          BY <3>4
        <4>2. c \in DOMAIN index
          <5>1. calls # <<>> /\ TopCall = calls[k]
            BY DEF TopCall, Last
          <5> QED BY <4>1, <5>1, <1>t DEF CallsWait
        <4> QED BY <3>1, <3>4, <4>1, <4>2, <2>0, <1>5
      <3>5. i \in DOMAIN calls /\ k = Len(calls)
        BY <1>2
      <3>6. \/ low_link[calls[i].node] <= low_link[x]
            \/ /\ i = Len(calls)
               /\ \E c \in calls[i].child : index[c] <= index[x] /\ low_link[c] <= low_link[x]
        BY <3>5, <1>i DEF LowBounded
      <3> QED BY <3>3, <3>4, <3>5, <3>6
    <2> QED BY <2>1, <2>2
  <1>23. Components'
    <2>1. \A D : Component(D)' <=> Component(D)
      BY <1>1 DEF Component, Closed
    <2> QED BY <2>1, <1>1, <1>i DEF Components
  <1> QED BY <1>11, <1>12, <1>13, <1>14, <1>15, <1>16, <1>17, <1>18, <1>19, <1>20, <1>21, <1>22,
             <1>23 DEF SccInv

(* The calls, when a field of the innermost one changes. *)
LEMMA TopChanged ==
  ASSUME SccInv, calls # <<>>, NEW top \in Activation,
         calls' = [calls EXCEPT ![Len(calls)] = top]
  PROVE  /\ calls' \in Seq(Activation) /\ Len(calls') = Len(calls)
         /\ \A i \in 1 .. Len(calls) - 1 : calls'[i] = calls[i]
         /\ calls'[Len(calls)] = top
  <1>1. calls \in Seq(Activation)
    BY DEF SccInv, SccType
  <1>2. Len(calls) \in 1 .. Len(calls)
    BY InnermostCall
  <1>3. Len(calls) \in Nat
    BY <1>1, LenProperties
  <1> QED BY <1>1, <1>2, <1>3, ExceptSeq

LEMMA LowerValue ==
  ASSUME SccType, NEW n \in DOMAIN index, NEW l \in Nat, Lower(n, l)
  PROVE  /\ low_link' \in [DOMAIN index -> Nat]
         /\ low_link'[n] = (IF l < low_link[n] THEN l ELSE low_link[n])
         /\ \A x \in DOMAIN index : x # n => low_link'[x] = low_link[x]
  BY DEF SccType, Lower

LEMMA AscendKeeps ==
  ASSUME SccInv, NEW s \in Nodes, Ascend(s)
  PROVE  SccInv'
  <1> DEFINE k == Len(calls)
             n == calls[k].node
             top == [calls[k] EXCEPT !.child = {}]
  <1>1. /\ calls # <<>> /\ s \in TopCall.child /\ Lower(TopCall.node, low_link[s])
        /\ nodeGraph' = nodeGraph /\ result' = result /\ index' = index /\ nodeStack' = nodeStack
        /\ calls' = [calls EXCEPT ![k] = top]
    BY DEF Ascend
  <1>2. /\ k \in Nat \ {0} /\ k \in DOMAIN calls /\ calls[k] \in Activation /\ TopCall = calls[k]
        /\ calls[k] = [node |-> calls[k].node, succs |-> calls[k].succs, child |-> calls[k].child]
        /\ n \in On
    BY <1>1, InnermostCall
  <1>3. top \in Activation /\ top.node = n /\ top.child = {} /\ top.succs = calls[k].succs
    BY <1>2 DEF Activation
  <1> HIDE DEF top
  <1>4. /\ calls' \in Seq(Activation) /\ Len(calls') = k
        /\ \A i \in 1 .. k - 1 : calls'[i] = calls[i]
        /\ calls'[k] = top
    BY <1>1, <1>3, TopChanged
  <1>t. SccType /\ Indexed /\ CallsWait /\ LowReached
    BY DEF SccInv
  <1>5. /\ calls[k].child = {s} /\ s \in DOMAIN index /\ index[n] < index[s]
        /\ (s \in Finished => low_link[s] = index[s])
    BY <1>1, <1>2, <1>t DEF CallsWait
  <1>6. s \in Edges(n)
    BY <1>2, <1>5, <1>t DEF CallsWait
  <1>7. n \in DOMAIN index /\ index[n] \in Nat /\ low_link[n] \in Nat /\ index[s] \in Nat
        /\ low_link[s] \in Nat
    BY <1>2, <1>5, SccShape
  <1>8. low_link[n] <= index[n]
    BY <1>2, <1>t DEF LowReached
  <1>9. /\ low_link' \in [DOMAIN index -> Nat]
        /\ low_link'[n] = (IF low_link[s] < low_link[n] THEN low_link[s] ELSE low_link[n])
        /\ \A x \in DOMAIN index : x # n => low_link'[x] = low_link[x]
    BY <1>1, <1>2, <1>7, <1>t, LowerValue
  <1>10. low_link'[n] <= low_link[n] /\ low_link'[n] <= low_link[s]
    BY <1>7, <1>9
  <1>11. s \in On \/ low_link'[n] = low_link[n]
    BY <1>5, <1>7, <1>8, <1>9, <1>t DEF Indexed
  <1>12. s \in On => low_link[s] <= index[s]
    BY <1>t DEF LowReached
  <1>13. s \in Finished \/ low_link'[n] <= index[s]
    <2>1. s \in On \/ s \in Finished
      BY <1>5, <1>t DEF Indexed
    <2>2. low_link'[n] \in Nat
      BY <1>7, <1>9
    <2> QED BY <2>1, <2>2, <1>7, <1>10, <1>12
  <1>14. \/ low_link'[n] = low_link[n]
         \/ s \in On /\ low_link'[n] = index[s]
         \/ s \in On /\ low_link'[n] = low_link[s] /\ index[n] < index[s]
    BY <1>5, <1>9, <1>11
  <1>15. calls[k].succs \cup calls[k].child \subseteq calls'[k].succs \cup {s}
    BY <1>3, <1>4, <1>5
  <1>16. calls'[k].node = n /\ calls'[k].child = {} /\ calls'[k].succs \subseteq calls[k].succs
    BY <1>3, <1>4
  <1>17. \A c \in calls[k].child : low_link'[n] <= low_link[c]
    BY <1>5, <1>10
  <1> HIDE DEF k, n
  <1>18. k = Len(calls) /\ n = calls[k].node
    BY DEF k, n
  <1> QED BY <1>1, <1>2, <1>4, <1>5, <1>6, <1>9, <1>10, <1>13, <1>14, <1>15, <1>16, <1>17, <1>18,
             LowerKeeps

LEMMA MeetKeeps ==
  ASSUME SccInv, NEW s \in Nodes, Meet(s)
  PROVE  SccInv'
  <1> DEFINE k == Len(calls)
             n == calls[k].node
             top == [calls[k] EXCEPT !.succs = @ \ {s}]
  <1>1. /\ calls # <<>> /\ TopCall.child = {} /\ s \in TopCall.succs \cap DOMAIN index
        /\ nodeGraph' = nodeGraph /\ result' = result /\ index' = index /\ nodeStack' = nodeStack
        /\ calls' = [calls EXCEPT ![k] = top]
    BY DEF Meet
  <1>2. /\ k \in Nat \ {0} /\ k \in DOMAIN calls /\ calls[k] \in Activation /\ TopCall = calls[k]
        /\ calls[k] = [node |-> calls[k].node, succs |-> calls[k].succs, child |-> calls[k].child]
        /\ n \in On /\ calls[k].succs \subseteq Edges(calls[k].node)
    BY <1>1, InnermostCall
  <1>3. top \in Activation /\ top.node = n /\ top.child = {} /\ top.succs = calls[k].succs \ {s}
    BY <1>1, <1>2 DEF Activation
  <1> HIDE DEF top
  <1>4. /\ calls' \in Seq(Activation) /\ Len(calls') = k
        /\ \A i \in 1 .. k - 1 : calls'[i] = calls[i]
        /\ calls'[k] = top
    BY <1>1, <1>3, TopChanged
  <1>t. SccType /\ Indexed
    BY DEF SccInv
  <1>5. s \in DOMAIN index /\ s \in Edges(n)
    BY <1>1, <1>2
  <1>7. n \in DOMAIN index /\ index[n] \in Nat /\ low_link[n] \in Nat /\ index[s] \in Nat
    BY <1>2, <1>5, SccShape
  <1>8. s \in On \/ s \in Finished
    BY <1>5, <1>t DEF Indexed
  <1>9. /\ low_link' \in [DOMAIN index -> Nat] /\ low_link'[n] <= low_link[n]
        /\ \A x \in DOMAIN index : x # n => low_link'[x] = low_link[x]
        /\ low_link'[n] = low_link[n] \/ (s \in On /\ low_link'[n] = index[s])
        /\ s \in Finished \/ low_link'[n] <= index[s]
    <2>1. CASE s \in On
      <3>1. Lower(n, index[s])
        BY <2>1, <1>2 DEF Meet, On
      <3>2. /\ low_link' \in [DOMAIN index -> Nat]
            /\ low_link'[n] = (IF index[s] < low_link[n] THEN index[s] ELSE low_link[n])
            /\ \A x \in DOMAIN index : x # n => low_link'[x] = low_link[x]
        BY <3>1, <1>7, <1>t, LowerValue
      <3> QED BY <2>1, <3>2, <1>7
    <2>2. CASE s \notin On
      <3>1. low_link' = low_link
        BY <2>2 DEF Meet, On
      <3> QED BY <2>2, <3>1, <1>7, <1>8, <1>t DEF SccType
    <2> QED BY <2>1, <2>2
  <1>15. calls[k].succs \cup calls[k].child \subseteq calls'[k].succs \cup {s}
    BY <1>1, <1>2, <1>3, <1>4
  <1>16. calls'[k].node = n /\ calls'[k].child = {} /\ calls'[k].succs \subseteq calls[k].succs
    BY <1>3, <1>4
  <1>17. \A c \in calls[k].child : low_link'[n] <= low_link[c]
    BY <1>1, <1>2
  <1> HIDE DEF k, n
  <1>18. k = Len(calls) /\ n = calls[k].node
    BY DEF k, n
  <1>14. \/ low_link'[n] = low_link[n]
         \/ s \in On /\ low_link'[n] = index[s]
         \/ s \in On /\ low_link'[n] = low_link[s] /\ index[n] < index[s]
    BY <1>9
  <1>10. low_link' \in [DOMAIN index -> Nat] /\ low_link'[n] <= low_link[n]
         /\ \A x \in DOMAIN index : x # n => low_link'[x] = low_link[x]
    BY <1>9
  <1>13. s \in Finished \/ low_link'[n] <= index[s]
    BY <1>9
  <1>19. /\ nodeGraph' = nodeGraph /\ index' = index /\ nodeStack' = nodeStack /\ result' = result
         /\ calls' \in Seq(Activation) /\ k \in Nat \ {0} /\ Len(calls') = k
         /\ \A i \in 1 .. k - 1 : calls'[i] = calls[i]
    BY <1>1, <1>2, <1>4
  <1> QED BY <1>5, <1>10, <1>13, <1>14, <1>15, <1>16, <1>17, <1>18, <1>19, LowerKeeps


(* What holds of the innermost call when it returns, of n. *)
LEMMA LeaveFacts ==
  ASSUME SccInv, Leave
  PROVE  LET k == Len(calls)
             n == calls[k].node
         IN  /\ k \in Nat \ {0} /\ k \in DOMAIN calls /\ n \in On
             /\ calls[k].succs = {} /\ calls[k].child = {} /\ TopCall = calls[k]
             /\ nodeGraph' = nodeGraph /\ index' = index /\ low_link' = low_link
             /\ calls' \in Seq(Activation) /\ Len(calls') = k - 1
             /\ \A i \in 1 .. k - 1 : calls'[i] = calls[i]
             /\ \A i \in 1 .. k - 1 : index[calls[i].node] < index[n]
             /\ \A i \in 1 .. k - 1 : calls[i].child = {calls[i + 1].node}
  <1>1. /\ calls # <<>> /\ TopCall.child = {} /\ TopCall.succs = {} /\ calls' = Front(calls)
        /\ nodeGraph' = nodeGraph /\ index' = index /\ low_link' = low_link
    BY DEF Leave
  <1>2. calls \in Seq(Activation) /\ CallsOrdered /\ CallsWait
    BY DEF SccInv, SccType
  <1>3. /\ Len(calls) \in Nat \ {0} /\ Len(calls) \in DOMAIN calls /\ TopCall = calls[Len(calls)]
        /\ calls[Len(calls)].node \in On
    BY <1>1, InnermostCall
  <1>4. calls' \in Seq(Activation) /\ Len(calls') = Len(calls) - 1
        /\ \A i \in 1 .. Len(calls) - 1 : calls'[i] = calls[i]
    BY <1>1, <1>2, FrontFacts
  <1>5. \A i \in 1 .. Len(calls) - 1 : i \in DOMAIN calls /\ i < Len(calls)
    BY <1>2, <1>3, LenProperties
  <1>6. \A i \in 1 .. Len(calls) - 1 : index[calls[i].node] < index[calls[Len(calls)].node]
    BY <1>2, <1>3, <1>5 DEF CallsOrdered
  <1>7. \A i \in 1 .. Len(calls) - 1 : calls[i].child = {calls[i + 1].node}
    BY <1>2, <1>5 DEF CallsWait
  <1> QED BY <1>1, <1>3, <1>4, <1>6, <1>7

(* n returns, not the first of its component. *)
LEMMA LeaveStays ==
  ASSUME SccInv, Leave, low_link[calls[Len(calls)].node] # index[calls[Len(calls)].node]
  PROVE  SccInv'
  <1> DEFINE k == Len(calls)
             n == calls[k].node
  <1>1. /\ k \in Nat \ {0} /\ k \in DOMAIN calls /\ n \in On
        /\ calls[k].succs = {} /\ calls[k].child = {} /\ TopCall = calls[k]
        /\ nodeGraph' = nodeGraph /\ index' = index /\ low_link' = low_link
        /\ calls' \in Seq(Activation) /\ Len(calls') = k - 1
        /\ \A i \in 1 .. k - 1 : calls'[i] = calls[i]
        /\ \A i \in 1 .. k - 1 : index[calls[i].node] < index[n]
        /\ \A i \in 1 .. k - 1 : calls[i].child = {calls[i + 1].node}
    BY LeaveFacts
  <1>2. nodeStack' = nodeStack /\ result' = result
    BY <1>1 DEF Leave
  <1>t. SccType /\ IndexBelow /\ Indexed /\ StackOrdered /\ CallsOrdered /\ CallsWait
    BY DEF SccInv
  <1>i. FinishedClosed /\ EdgesSeen /\ Reaching /\ LowReached /\ LowFell /\ LowBounded
        /\ Components
    BY DEF SccInv
  <1>3. On' = On /\ Finished' = Finished /\ \A x : Edges(x)' = Edges(x)
    BY <1>1, <1>2 DEF On, Finished, Edges
  <1>4. DOMAIN calls' = 1 .. k - 1 /\ DOMAIN calls = 1 .. k
    BY <1>1, LenProperties, SccShape
  <1>5. \A x \in On : index[x] \in Nat /\ low_link[x] \in Nat
    BY SccShape
  <1>6. \A i \in 1 .. k : calls[i].node \in On
    BY <1>4, SccShape
  <1>7. low_link[n] < index[n]
    <2>1. low_link[n] <= index[n]
      BY <1>1, <1>i DEF LowReached
    <2> QED BY <2>1, <1>1, <1>5
  <1>8. \A i \in 1 .. k : i = k \/ i \in 1 .. k - 1
    BY <1>1
  <1> HIDE DEF k, n
  <1>11. SccType'
    <2>1. calls' \in Seq(Activation)'
      BY <1>1 DEF Activation
    <2> QED BY <1>t, <1>1, <1>2, <2>1 DEF SccType
  <1>12. IndexBelow'
    BY <1>t, <1>1 DEF IndexBelow
  <1>13. Indexed'
    BY <1>t, <1>1, <1>3 DEF Indexed
  <1>14. StackOrdered'
    BY <1>t, <1>1, <1>2 DEF StackOrdered
  <1>15. CallsOrdered'
    <2>1. \A i \in 1 .. k - 1 : calls'[i].node \in On
      BY <1>1, <1>6
    <2>2. \A i, j \in 1 .. k - 1 : i < j => index[calls'[i].node] < index[calls'[j].node]
      <3> SUFFICES ASSUME NEW i \in 1 .. k - 1, NEW j \in 1 .. k - 1, i < j
                   PROVE  index[calls'[i].node] < index[calls'[j].node]
        OBVIOUS
      <3>1. i \in DOMAIN calls /\ j \in DOMAIN calls
        BY <1>1, <1>4
      <3> QED BY <3>1, <1>1, <1>t DEF CallsOrdered
    <2>3. ASSUME NEW x \in On PROVE \E i \in 1 .. k - 1 : index[calls'[i].node] <= index[x]
      <3>1. PICK i \in 1 .. k : index[calls[i].node] <= index[x]
        BY <1>4, <1>t DEF CallsOrdered
      <3>2. CASE i \in 1 .. k - 1
        BY <3>1, <3>2, <1>1
      <3>3. CASE i = k
        <4>1. CASE k > 1
          <5>1. k - 1 \in 1 .. k - 1 /\ k - 1 \in 1 .. k
            BY <4>1, <1>1
          <5>2. index[calls[k - 1].node] < index[n]
            BY <5>1, <1>1
          <5>3. index[calls'[k - 1].node] <= index[x]
            <6>1. index[calls[k - 1].node] \in Nat /\ index[x] \in Nat /\ index[n] \in Nat
              BY <5>1, <1>1, <1>5, <1>6
            <6>2. index[n] <= index[x]
              BY <3>1, <3>3 DEF n
            <6> QED BY <5>1, <5>2, <6>1, <6>2, <1>1
          <5> QED BY <5>1, <5>3
        <4>2. CASE k = 1
          <5>1. On \in SUBSET On /\ n \in On
                /\ \A y \in On : index[n] <= index[y] => Edges(y) \cap On \subseteq On
            BY <1>1
          <5>2. PICK w \in On : index[w] = low_link[n]
            BY <5>1, <1>i DEF LowReached
          <5>3. PICK j \in 1 .. k : index[calls[j].node] <= index[w]
            BY <1>4, <1>t DEF CallsOrdered
          <5>4. calls[j].node = n
            BY <4>2 DEF n
          <5> QED BY <5>2, <5>3, <5>4, <1>1, <1>5, <1>7
        <4> QED BY <4>1, <4>2, <1>1
      <3> QED BY <3>2, <3>3, <1>8
    <2> QED BY <2>1, <2>2, <2>3, <1>1, <1>3, <1>4 DEF CallsOrdered
  <1>16. CallsWait'
    <2>1. \A i \in 1 .. k - 1 : /\ calls'[i].succs \subseteq Edges(calls'[i].node)
                                /\ calls'[i].child \subseteq Edges(calls'[i].node)
      BY <1>1, <1>4, <1>8, <1>t DEF CallsWait
    <2>2. \A i \in 1 .. k - 1 : i < k - 1 => calls'[i].child = {calls'[i + 1].node}
      <3> SUFFICES ASSUME NEW i \in 1 .. k - 1, i < k - 1
                   PROVE  calls'[i].child = {calls'[i + 1].node}
        OBVIOUS
      <3>1. i + 1 \in 1 .. k - 1
        BY <1>1
      <3> QED BY <3>1, <1>1
    <2>3. ASSUME calls' # <<>>
          PROVE  \A s \in TopCall'.child : /\ TopCall'.child = {s} /\ s \in DOMAIN index
                                           /\ index[TopCall'.node] < index[s]
                                           /\ (s \in Finished => low_link[s] = index[s])
      <3>1. k - 1 \in 1 .. k - 1
        <4>1. Len(calls') # 0
          BY <2>3, <1>1, EmptySeq
        <4> QED BY <4>1, <1>1
      <3>2. TopCall' = calls[k - 1] /\ calls[k - 1].child = {calls[k - 1 + 1].node}
        BY <3>1, <1>1 DEF TopCall, Last
      <3>3. calls[k - 1 + 1].node = n
        BY <1>1 DEF n
      <3>4. n \in DOMAIN index /\ n \notin Finished
        BY <1>1, <1>t, SccShape DEF Indexed
      <3>5. index[calls[k - 1].node] < index[n]
        BY <3>1, <1>1
      <3> QED BY <3>2, <3>3, <3>4, <3>5
    <2> QED BY <2>1, <2>2, <2>3, <1>1, <1>3, <1>4 DEF CallsWait, Edges
  <1>17. FinishedClosed'
    BY <1>i, <1>3 DEF FinishedClosed, Closed
  <1>18. EdgesSeen'
    <2>1. ASSUME NEW y, NEW z \in Pending(y) PROVE z \in Pending(y)'
      <3>1. PICK i \in 1 .. k : calls[i].node = y /\ z \in calls[i].succs \cup calls[i].child
        BY <2>1, <1>4 DEF Pending
      <3>2. i # k
        BY <3>1, <1>1
      <3>3. i \in 1 .. k - 1
        BY <3>2, <1>8
      <3> QED BY <3>1, <3>3, <1>1, <1>4 DEF Pending
    <2> QED BY <2>1, <1>i, <1>1, <1>3 DEF EdgesSeen
  <1>19. Reaching'
    <2>1. \A i \in 1 .. k - 1 : i \in DOMAIN calls
      BY <1>1, <1>4
    <2> QED BY <2>1, <1>i, <1>1, <1>3, <1>4 DEF Reaching
  <1>20. LowReached'
    BY <1>i, <1>1, <1>3 DEF LowReached
  <1>21. LowFell'
    <2> SUFFICES ASSUME NEW x \in On, ~Calling(x)' PROVE low_link[x] < index[x]
      BY <1>1, <1>3 DEF LowFell
    <2>1. \A i \in 1 .. k - 1 : calls[i].node # x
      BY <1>1, <1>4 DEF Calling
    <2>2. x = n \/ ~Calling(x)
      BY <2>1, <1>4, <1>8 DEF Calling, n
    <2> QED BY <2>2, <1>7, <1>i DEF LowFell
  <1>22. LowBounded'
    <2> SUFFICES ASSUME NEW x \in On, NEW i \in 1 .. k - 1, index[calls[i].node] <= index[x],
                        i < k - 1 => index[x] < index[calls[i + 1].node]
                 PROVE  \/ low_link[calls[i].node] <= low_link[x]
                        \/ i = k - 1 /\ \E s \in calls[i].child :
                                            index[s] <= index[x] /\ low_link[s] <= low_link[x]
      <3>1. \A j \in 1 .. k - 1 : j < k - 1 => calls'[j + 1].node = calls[j + 1].node
        BY <1>1
      <3> QED BY <3>1, <1>1, <1>3, <1>4 DEF LowBounded
    <2>1. i \in DOMAIN calls /\ k \in DOMAIN calls /\ i < k
      BY <1>1, <1>4
    <2>2. CASE index[x] < index[calls[i + 1].node]
      BY <2>1, <2>2, <1>i DEF LowBounded, k
    <2>3. CASE ~(index[x] < index[calls[i + 1].node])
      <3>1. i = k - 1 /\ calls[i + 1].node = n
        BY <2>3, <1>1 DEF n
      <3>2. index[calls[k].node] <= index[x]
        BY <2>3, <3>1, <1>1, <1>5 DEF n
      <3>3. low_link[n] <= low_link[x]
        BY <2>1, <3>2, <1>1, <1>i DEF LowBounded, k, n
      <3>4. calls[i].child = {n} /\ index[n] <= index[x]
        BY <3>1, <3>2, <1>1 DEF n
      <3> QED BY <3>1, <3>3, <3>4
    <2> QED BY <2>2, <2>3
  <1>23. Components'
    <2>1. \A D : Component(D)' <=> Component(D)
      BY <1>1, <1>3 DEF Component, Closed, Edges
    <2> QED BY <2>1, <1>2, <1>i DEF Components
  <1> QED BY <1>11, <1>12, <1>13, <1>14, <1>15, <1>16, <1>17, <1>18, <1>19, <1>20, <1>21, <1>22,
             <1>23 DEF SccInv

(* The part of the stack from the root n. *)
Above(n) == {x \in On : index[n] <= index[x]}

(* A root takes from the stack what is above it. *)
LEMMA RootTakes ==
  ASSUME SccInv, NEW n \in On
  PROVE  LET at == CHOOSE i \in DOMAIN nodeStack : nodeStack[i] = n
         IN  /\ ToSet(SubSeq(nodeStack, at, Len(nodeStack))) = Above(n)
             /\ ToSet(SubSeq(nodeStack, 1, at - 1)) = On \ Above(n)
             /\ SubSeq(nodeStack, 1, at - 1) \in Seq(nodeGraph.nodes)
             /\ DOMAIN SubSeq(nodeStack, 1, at - 1) \subseteq DOMAIN nodeStack
             /\ \A i \in DOMAIN SubSeq(nodeStack, 1, at - 1) :
                    SubSeq(nodeStack, 1, at - 1)[i] = nodeStack[i]
  <1> DEFINE at == CHOOSE i \in DOMAIN nodeStack : nodeStack[i] = n
             N  == Len(nodeStack)
             up == SubSeq(nodeStack, at, N)
             below == SubSeq(nodeStack, 1, at - 1)
  <1>1. at \in DOMAIN nodeStack /\ nodeStack[at] = n
    <2>1. \E i \in DOMAIN nodeStack : nodeStack[i] = n
      BY SccShape
    <2> QED BY <2>1
  <1>2. N \in Nat /\ DOMAIN nodeStack = 1 .. N /\ nodeStack \in Seq(nodeGraph.nodes)
    BY SccShape DEF SccInv, SccType
  <1>3. at \in 1 .. N
    BY <1>1, <1>2
  <1> HIDE DEF at, N
  <1>4. /\ Len(up) = N - at + 1 /\ DOMAIN up = 1 .. N - at + 1
        /\ \A i \in 1 .. N - at + 1 : up[i] = nodeStack[at + i - 1]
    BY <1>2, <1>3
  <1>5. /\ below \in Seq(nodeGraph.nodes) /\ DOMAIN below = 1 .. at - 1
        /\ \A i \in 1 .. at - 1 : below[i] = nodeStack[i]
    <2>1. N = Len(nodeStack) /\ at - 1 \in 0 .. Len(nodeStack)
      BY <1>2, <1>3 DEF N
    <2>2. below \in Seq(nodeGraph.nodes)
      BY <1>2, <2>1, InitialPart
    <2>3. Len(below) = at - 1
      BY <1>2, <2>1
    <2>4. \A i \in 1 .. at - 1 : below[i] = nodeStack[i]
      BY <1>2, <2>1
    <2>5. DOMAIN below = 1 .. at - 1
      BY <2>2, <2>3, LenProperties
    <2> QED BY <2>2, <2>4, <2>5
  <1> HIDE DEF up, below
  <1>6. \A i \in 1 .. N : nodeStack[i] \in On /\ index[nodeStack[i]] \in Nat
    BY <1>2, SccShape
  <1>7. \A i \in 1 .. N : i < at => index[nodeStack[i]] < index[n]
    BY <1>1, <1>2 DEF SccInv, StackOrdered
  <1>8. \A i \in 1 .. N : at < i => index[n] < index[nodeStack[i]]
    BY <1>1, <1>2 DEF SccInv, StackOrdered
  <1>9. index[n] \in Nat
    BY <1>1, <1>3, <1>6
  <1>10. \A i \in 1 .. N : nodeStack[i] \in Above(n) <=> at <= i
    <2> SUFFICES ASSUME NEW i \in 1 .. N PROVE nodeStack[i] \in Above(n) <=> at <= i
      OBVIOUS
    <2>1. i < at \/ i = at \/ at < i
      BY <1>3
    <2>2. CASE i < at
      BY <2>2, <1>3, <1>6, <1>7, <1>9 DEF Above
    <2>3. CASE i = at
      BY <2>3, <1>1, <1>3, <1>6, <1>9 DEF Above
    <2>4. CASE at < i
      BY <2>4, <1>3, <1>6, <1>8, <1>9 DEF Above
    <2> QED BY <2>1, <2>2, <2>3, <2>4
  <1>11. \A x : x \in On <=> \E i \in 1 .. N : nodeStack[i] = x
    BY <1>2 DEF On, ToSet
  <1>12. \A x : x \in ToSet(up) <=> \E i \in 1 .. N : at <= i /\ nodeStack[i] = x
    <2> SUFFICES ASSUME NEW x
                 PROVE  x \in ToSet(up) <=> \E i \in 1 .. N : at <= i /\ nodeStack[i] = x
      OBVIOUS
    <2>1. x \in ToSet(up) <=> \E i \in 1 .. N - at + 1 : nodeStack[at + i - 1] = x
      BY <1>4 DEF ToSet
    <2>2. ASSUME NEW i \in 1 .. N - at + 1
          PROVE  at + i - 1 \in 1 .. N /\ at <= at + i - 1
      BY <1>2, <1>3
    <2>3. ASSUME NEW i \in 1 .. N, at <= i
          PROVE  i - at + 1 \in 1 .. N - at + 1 /\ at + (i - at + 1) - 1 = i
      BY <2>3, <1>2, <1>3
    <2>4. ASSUME NEW i \in 1 .. N - at + 1, nodeStack[at + i - 1] = x
          PROVE  \E j \in 1 .. N : at <= j /\ nodeStack[j] = x
      BY <2>2, <2>4
    <2>5. ASSUME NEW i \in 1 .. N, at <= i, nodeStack[i] = x
          PROVE  \E j \in 1 .. N - at + 1 : nodeStack[at + j - 1] = x
      BY <2>3, <2>5
    <2> QED BY <2>1, <2>4, <2>5
  <1>13. \A x : x \in ToSet(below) <=> \E i \in 1 .. N : i < at /\ nodeStack[i] = x
    <2>1. \A i \in 1 .. at - 1 : i \in 1 .. N /\ i < at
      BY <1>2, <1>3
    <2>2. \A i \in 1 .. N : i < at => i \in 1 .. at - 1
      BY <1>2, <1>3
    <2> QED BY <2>1, <2>2, <1>5 DEF ToSet
  <1>14. ToSet(up) = Above(n)
    BY <1>10, <1>11, <1>12 DEF Above
  <1>15. \A i \in 1 .. N : i < at <=> ~(at <= i)
    BY <1>3
  <1>16. ToSet(below) = On \ Above(n)
    BY <1>10, <1>11, <1>13, <1>15
  <1>17. DOMAIN below \subseteq DOMAIN nodeStack /\ \A i \in DOMAIN below : below[i] = nodeStack[i]
    BY <1>2, <1>3, <1>5
  <1> QED BY <1>5, <1>14, <1>16, <1>17 DEF at, N, up, below

(* The edges of what is above a root that returns. *)
LEMMA RootFacts ==
  ASSUME SccInv, NEW k \in Nat \ {0}, k = Len(calls), NEW n \in On, n = calls[k].node,
         calls[k].succs = {}, calls[k].child = {}, low_link[n] = index[n],
         \A i \in 1 .. k - 1 : index[calls[i].node] < index[n]
  PROVE  /\ \A x \in Above(n) : index[n] <= low_link[x]
         /\ \A x \in Above(n) : Edges(x) \subseteq Finished \cup Above(n)
         /\ \A x \in Above(n) : x # n => ~Calling(x)
  <1>t. SccType /\ IndexBelow /\ Indexed /\ StackOrdered /\ CallsOrdered /\ CallsWait
    BY DEF SccInv
  <1>i. FinishedClosed /\ EdgesSeen /\ Reaching /\ LowReached /\ LowFell /\ LowBounded
        /\ Components
    BY DEF SccInv
  <1>1. DOMAIN calls = 1 .. k
    BY SccShape
  <1>2. \A x \in On : index[x] \in Nat /\ low_link[x] \in Nat
    BY SccShape
  <1>3. \A i \in 1 .. k : i = k \/ i \in 1 .. k - 1
    OBVIOUS
  <1>4. ASSUME NEW x \in Above(n) PROVE index[n] <= low_link[x]
    <2>1. k \in DOMAIN calls /\ x \in On /\ index[n] <= index[x]
      BY <1>1 DEF Above
    <2> QED BY <2>1, <1>i DEF LowBounded
  <1>5. ASSUME NEW x \in Above(n), NEW i \in 1 .. k, calls[i].node = x PROVE i = k
    BY <1>2, <1>3, <1>5 DEF Above
  <1>6. ASSUME NEW x \in Above(n), NEW z \in Edges(x) PROVE z \in Finished \cup Above(n)
    <2>1. z \notin Pending(x)
      BY <1>1, <1>5 DEF Pending
    <2>2. z \in Finished \/ (z \in On /\ low_link[x] <= index[z])
      BY <2>1, <1>i DEF EdgesSeen, Above
    <2>3. x \in On
      BY DEF Above
    <2> QED BY <2>2, <2>3, <1>2, <1>4 DEF Above
  <1>7. ASSUME NEW x \in Above(n), x # n PROVE ~Calling(x)
    BY <1>1, <1>5, <1>7 DEF Calling
  <1> QED BY <1>4, <1>6, <1>7

LEMMA RootComponent ==
  ASSUME SccInv, NEW k \in Nat \ {0}, k = Len(calls), NEW n \in On, n = calls[k].node,
         calls[k].succs = {}, calls[k].child = {}, low_link[n] = index[n],
         \A i \in 1 .. k - 1 : index[calls[i].node] < index[n]
  PROVE  Component(Above(n))
  <1> DEFINE C == Above(n)
  <1>t. SccType /\ IndexBelow /\ Indexed /\ StackOrdered /\ CallsOrdered /\ CallsWait
    BY DEF SccInv
  <1>i. FinishedClosed /\ EdgesSeen /\ Reaching /\ LowReached /\ LowFell /\ LowBounded
        /\ Components
    BY DEF SccInv
  <1>1. /\ \A x \in C : index[n] <= low_link[x]
        /\ \A x \in C : Edges(x) \subseteq Finished \cup C
        /\ \A x \in C : x # n => ~Calling(x)
    BY RootFacts
  <1>2. \A x \in On : index[x] \in Nat /\ low_link[x] \in Nat
    BY SccShape
  <1>3. n \in C /\ C \subseteq On
    BY <1>2 DEF Above
  <1>4. \A x \in On : x \in C <=> index[n] <= index[x]
    BY DEF Above
  <1>5. C # {} /\ C \subseteq nodeGraph.nodes /\ Finished \subseteq nodeGraph.nodes
    BY <1>3, <1>t, SccShape DEF SccType
  <1> HIDE DEF C
  <1>6. ASSUME NEW S \in SUBSET C, S # {}, \A x \in S : Edges(x) \cap C \subseteq S
        PROVE  S = C
    <2>1. n \in S
      <3>1. PICK m \in {index[x] : x \in S} : \A l \in {index[x] : x \in S} : m <= l
        <4>1. {index[x] : x \in S} \in SUBSET Nat /\ {index[x] : x \in S} # {}
          BY <1>2, <1>3, <1>6
        <4> QED BY <4>1, SmallestNat
      <3>2. PICK x \in S : \A y \in S : index[x] <= index[y]
        BY <3>1
      <3> SUFFICES ASSUME x # n PROVE FALSE
        BY <3>2
      <3>3. x \in C /\ x \in On
        BY <1>3
      <3>4. low_link[x] < index[x] /\ index[n] <= low_link[x]
        BY <3>3, <1>1, <1>i DEF LowFell
      <3> DEFINE T == S \cup (On \ C)
      <3>5. T \in SUBSET On /\ x \in T
        BY <1>3
      <3>6. \A y \in T : index[x] <= index[y] => Edges(y) \cap On \subseteq T
        <4> SUFFICES ASSUME NEW y \in T, index[x] <= index[y], NEW z \in Edges(y) \cap On
                     PROVE  z \in T
          OBVIOUS
        <4>1. y \in On /\ index[n] <= index[y]
          BY <3>3, <1>2, <1>3, <1>4
        <4>2. y \in S
          BY <4>1, <1>4
        <4> QED BY <4>2, <1>6
      <3>7. PICK w \in T : index[w] = low_link[x]
        BY <3>3, <3>5, <3>6, <1>i DEF LowReached
      <3>8. w \in On /\ w \in C
        BY <3>4, <3>5, <3>7, <1>4
      <3>9. w \in S
        BY <3>8
      <3> QED BY <3>2, <3>3, <3>4, <3>7, <3>8, <3>9, <1>2
    <2> SUFFICES ASSUME C \ S # {} PROVE FALSE
      OBVIOUS
    <2>2. PICK m \in {index[x] : x \in C \ S} : \A l \in {index[x] : x \in C \ S} : m <= l
      <3>1. {index[x] : x \in C \ S} \in SUBSET Nat /\ {index[x] : x \in C \ S} # {}
        BY <1>2, <1>3
      <3> QED BY <3>1, SmallestNat
    <2>3. PICK x \in C \ S : \A y \in C \ S : index[x] <= index[y]
      BY <2>2
    <2>4. x \in On /\ x # n /\ index[n] <= index[x]
      BY <2>1, <1>3, <1>4
    <2>5. index[n] < index[x]
      <3>1. PICK i \in DOMAIN nodeStack : nodeStack[i] = x
        BY <2>4, SccShape
      <3>2. PICK j \in DOMAIN nodeStack : nodeStack[j] = n
        BY SccShape
      <3>3. i < j \/ j < i
        BY <2>4, <3>1, <3>2, SccShape
      <3> QED BY <2>4, <3>1, <3>2, <3>3, <1>2, <1>t DEF StackOrdered
    <2>6. k \in DOMAIN calls
      BY SccShape
    <2>7. PICK p \in On :
            /\ index[p] < index[x] /\ x \in Edges(p)
            /\ \A i \in DOMAIN calls :
                    index[calls[i].node] < index[x] => index[calls[i].node] <= index[p]
      BY <2>4, <2>5, <2>6, <1>i DEF Reaching
    <2>8. p \in C
      BY <2>5, <2>6, <2>7, <1>4
    <2>9. p \in S
      BY <2>3, <2>4, <2>7, <2>8, <1>2
    <2> QED BY <2>7, <2>9, <1>6
  <1>7. /\ Finished \cap C = {} /\ Closed(Finished) /\ Closed(Finished \cup C)
    BY <1>1, <1>3, <1>i, <1>t DEF Closed, FinishedClosed, Indexed
  <1> QED BY <1>5, <1>6, <1>7 DEF Component, C

(* n returns, the first of its component. *)
LEMMA LeaveTakes ==
  ASSUME SccInv, Leave, low_link[calls[Len(calls)].node] = index[calls[Len(calls)].node]
  PROVE  SccInv'
  <1> DEFINE k == Len(calls)
             n == calls[k].node
             C == Above(n)
             at == CHOOSE i \in DOMAIN nodeStack : nodeStack[i] = n
  <1>1. /\ k \in Nat \ {0} /\ k \in DOMAIN calls /\ n \in On
        /\ calls[k].succs = {} /\ calls[k].child = {} /\ TopCall = calls[k]
        /\ nodeGraph' = nodeGraph /\ index' = index /\ low_link' = low_link
        /\ calls' \in Seq(Activation) /\ Len(calls') = k - 1
        /\ \A i \in 1 .. k - 1 : calls'[i] = calls[i]
        /\ \A i \in 1 .. k - 1 : index[calls[i].node] < index[n]
        /\ \A i \in 1 .. k - 1 : calls[i].child = {calls[i + 1].node}
    BY LeaveFacts
  <1>2. /\ result' = result \cup {C}
        /\ nodeStack' \in Seq(nodeGraph.nodes) /\ DOMAIN nodeStack' \subseteq DOMAIN nodeStack
        /\ \A i \in DOMAIN nodeStack' : nodeStack'[i] = nodeStack[i]
        /\ ToSet(nodeStack') = On \ C
    <2>1. /\ ToSet(SubSeq(nodeStack, at, Len(nodeStack))) = Above(n)
          /\ ToSet(SubSeq(nodeStack, 1, at - 1)) = On \ Above(n)
          /\ SubSeq(nodeStack, 1, at - 1) \in Seq(nodeGraph.nodes)
          /\ DOMAIN SubSeq(nodeStack, 1, at - 1) \subseteq DOMAIN nodeStack
          /\ \A i \in DOMAIN SubSeq(nodeStack, 1, at - 1) :
                SubSeq(nodeStack, 1, at - 1)[i] = nodeStack[i]
      BY <1>1, RootTakes
    <2>2. /\ result' = result \cup {ToSet(SubSeq(nodeStack, at, Len(nodeStack)))}
          /\ nodeStack' = SubSeq(nodeStack, 1, at - 1)
      BY <1>1 DEF Leave
    <2> HIDE DEF at
    <2> QED BY <2>1, <2>2
  <1>t. SccType /\ IndexBelow /\ Indexed /\ StackOrdered /\ CallsOrdered /\ CallsWait
    BY DEF SccInv
  <1>i. FinishedClosed /\ EdgesSeen /\ Reaching /\ LowReached /\ LowFell /\ LowBounded
        /\ Components
    BY DEF SccInv
  <1>0. k = Len(calls) /\ n = calls[k].node /\ low_link[n] = index[n]
    OBVIOUS
  <1> HIDE DEF k, n, at
  <1>3. On' = On \ C /\ Finished' = Finished \cup C /\ \A x : Edges(x)' = Edges(x)
    BY <1>1, <1>2 DEF On, Finished, Edges
  <1>4. DOMAIN calls' = 1 .. k - 1 /\ DOMAIN calls = 1 .. k
    BY <1>0, <1>1, LenProperties, SccShape
  <1>5. \A x \in On : index[x] \in Nat /\ low_link[x] \in Nat
    BY SccShape
  <1>6. \A i \in 1 .. k : calls[i].node \in On
    BY <1>4, SccShape
  <1>7. Component(C)
    BY <1>0, <1>1, RootComponent
  <1>8. \A i \in 1 .. k : i = k \/ i \in 1 .. k - 1
    BY <1>1
  <1>9. /\ \A x \in C : index[n] <= low_link[x]
        /\ \A x \in C : Edges(x) \subseteq Finished \cup C
    BY <1>0, <1>1, RootFacts
  <1>10. /\ n \in C /\ C \subseteq On /\ \A x \in C : index[n] <= index[x]
         /\ \A x \in On \ C : index[x] < index[n]
    BY <1>1, <1>5 DEF Above
  <1> HIDE DEF C
  <1>11. SccType'
    <2>1. calls' \in Seq(Activation)'
      BY <1>1 DEF Activation
    <2>2. C \in SUBSET nodeGraph.nodes
      BY <1>10, SccShape
    <2> QED BY <1>t, <1>1, <1>2, <2>1, <2>2 DEF SccType
  <1>12. IndexBelow'
    BY <1>t, <1>1 DEF IndexBelow
  <1>13. Indexed'
    BY <1>t, <1>1, <1>3, <1>10 DEF Indexed
  <1>14. StackOrdered'
    BY <1>t, <1>1, <1>2 DEF StackOrdered
  <1>15. CallsOrdered'
    <2>1. \A i \in 1 .. k - 1 : calls'[i].node \in On \ C
      <3> SUFFICES ASSUME NEW i \in 1 .. k - 1 PROVE calls'[i].node \in On \ C
        OBVIOUS
      <3>1. calls'[i].node = calls[i].node /\ index[calls[i].node] < index[n] /\ calls[i].node \in On
        BY <1>1, <1>6
      <3> QED BY <3>1, <1>1, <1>5, <1>10
    <2>2. \A i, j \in 1 .. k - 1 : i < j => index[calls'[i].node] < index[calls'[j].node]
      <3> SUFFICES ASSUME NEW i \in 1 .. k - 1, NEW j \in 1 .. k - 1, i < j
                   PROVE  index[calls'[i].node] < index[calls'[j].node]
        OBVIOUS
      <3>1. i \in DOMAIN calls /\ j \in DOMAIN calls
        BY <1>1, <1>4
      <3> QED BY <3>1, <1>1, <1>t DEF CallsOrdered
    <2>3. ASSUME NEW x \in On \ C PROVE \E i \in 1 .. k - 1 : index[calls'[i].node] <= index[x]
      <3>1. PICK i \in 1 .. k : index[calls[i].node] <= index[x]
        BY <1>4, <1>t DEF CallsOrdered
      <3>2. i # k
        BY <3>1, <1>0, <1>1, <1>5, <1>10
      <3>3. i \in 1 .. k - 1
        BY <3>2, <1>8
      <3> QED BY <3>1, <3>3, <1>1
    <2> QED BY <2>1, <2>2, <2>3, <1>1, <1>3, <1>4 DEF CallsOrdered
  <1>16. CallsWait'
    <2>1. \A i \in 1 .. k - 1 : /\ calls'[i].succs \subseteq Edges(calls'[i].node)
                                /\ calls'[i].child \subseteq Edges(calls'[i].node)
      BY <1>1, <1>4, <1>8, <1>t DEF CallsWait
    <2>2. \A i \in 1 .. k - 1 : i < k - 1 => calls'[i].child = {calls'[i + 1].node}
      <3> SUFFICES ASSUME NEW i \in 1 .. k - 1, i < k - 1
                   PROVE  calls'[i].child = {calls'[i + 1].node}
        OBVIOUS
      <3>1. i + 1 \in 1 .. k - 1
        BY <1>1
      <3> QED BY <3>1, <1>1
    <2>3. ASSUME calls' # <<>>
          PROVE  \A s \in TopCall'.child : /\ TopCall'.child = {s} /\ s \in DOMAIN index
                                           /\ index[TopCall'.node] < index[s]
                                           /\ low_link[s] = index[s]
      <3>1. k - 1 \in 1 .. k - 1
        <4>1. Len(calls') # 0
          BY <2>3, <1>1, EmptySeq
        <4> QED BY <4>1, <1>1
      <3>2. TopCall' = calls[k - 1] /\ calls[k - 1].child = {calls[k - 1 + 1].node}
        BY <3>1, <1>1 DEF TopCall, Last
      <3>3. calls[k - 1 + 1].node = n
        BY <1>0, <1>1
      <3>4. n \in DOMAIN index
        BY <1>1, SccShape
      <3>5. index[calls[k - 1].node] < index[n]
        BY <3>1, <1>1
      <3> QED BY <3>2, <3>3, <3>4, <3>5, <1>0
    <2> QED BY <2>1, <2>2, <2>3, <1>1, <1>3, <1>4 DEF CallsWait, Edges
  <1>17. FinishedClosed'
    BY <1>i, <1>3, <1>9 DEF FinishedClosed, Closed
  <1>18. EdgesSeen'
    <2>1. ASSUME NEW y, NEW z \in Pending(y) PROVE z \in Pending(y)'
      <3>1. PICK i \in 1 .. k : calls[i].node = y /\ z \in calls[i].succs \cup calls[i].child
        BY <2>1, <1>4 DEF Pending
      <3>2. i # k
        BY <3>1, <1>1
      <3>3. i \in 1 .. k - 1
        BY <3>2, <1>8
      <3> QED BY <3>1, <3>3, <1>1, <1>4 DEF Pending
    <2> QED BY <2>1, <1>i, <1>1, <1>3 DEF EdgesSeen
  <1>19. Reaching'
    <2> SUFFICES ASSUME NEW x \in On \ C, NEW j \in 1 .. k - 1, index[calls'[j].node] < index[x]
                 PROVE  \E p \in On \ C :
                            /\ index[p] < index[x] /\ x \in Edges(p)
                            /\ \A i \in 1 .. k - 1 :
                                    index[calls'[i].node] < index[x] =>
                                        index[calls'[i].node] <= index[p]
      BY <1>1, <1>3, <1>4 DEF Reaching
    <2>1. \A i \in 1 .. k - 1 : i \in DOMAIN calls
      BY <1>1, <1>4
    <2>2. PICK p \in On :
            /\ index[p] < index[x] /\ x \in Edges(p)
            /\ \A i \in DOMAIN calls :
                    index[calls[i].node] < index[x] => index[calls[i].node] <= index[p]
      BY <2>1, <1>i, <1>1 DEF Reaching
    <2>3. p \notin C
      BY <2>2, <1>1, <1>5, <1>10, SMTT(20)
    <2> QED BY <2>1, <2>2, <2>3, <1>1
  <1>20. LowReached'
    <2> SUFFICES ASSUME NEW x \in On \ C
                 PROVE  /\ low_link[x] <= index[x]
                        /\ \A S \in SUBSET (On \ C) :
                            x \in S /\ (\A y \in S : index[x] <= index[y] =>
                                                     Edges(y) \cap (On \ C) \subseteq S)
                            => \E w \in S : index[w] = low_link[x]
      BY <1>1, <1>3 DEF LowReached
    <2>1. low_link[x] <= index[x]
      BY <1>i DEF LowReached
    <2>2. ASSUME NEW S \in SUBSET (On \ C), x \in S,
                 \A y \in S : index[x] <= index[y] => Edges(y) \cap (On \ C) \subseteq S
          PROVE  \E w \in S : index[w] = low_link[x]
      <3>1. S \cup C \in SUBSET On /\ x \in S \cup C
        BY <2>2, <1>10
      <3>2. \A y \in S \cup C : index[x] <= index[y] => Edges(y) \cap On \subseteq S \cup C
        <4> SUFFICES ASSUME NEW y \in S \cup C, index[x] <= index[y], NEW z \in Edges(y) \cap On
                     PROVE  z \in S \cup C
          OBVIOUS
        <4>1. CASE y \in C
          BY <4>1, <1>9, <1>t DEF Indexed
        <4>2. CASE y \in S
          BY <4>2, <2>2
        <4> QED BY <4>1, <4>2
      <3>3. PICK w \in S \cup C : index[w] = low_link[x]
        BY <3>1, <3>2, <1>i DEF LowReached
      <3>4. w \notin C
        BY <3>3, <2>1, <1>1, <1>5, <1>10
      <3> QED BY <3>3, <3>4
    <2> QED BY <2>1, <2>2
  <1>21. LowFell'
    <2> SUFFICES ASSUME NEW x \in On \ C, ~Calling(x)' PROVE low_link[x] < index[x]
      BY <1>1, <1>3 DEF LowFell
    <2>1. \A i \in 1 .. k - 1 : calls[i].node # x
      BY <1>1, <1>4 DEF Calling
    <2>2. calls[k].node # x
      BY <1>0, <1>10
    <2>3. ~Calling(x)
      BY <2>1, <2>2, <1>4, <1>8 DEF Calling
    <2> QED BY <2>3, <1>i DEF LowFell
  <1>22. LowBounded'
    <2> SUFFICES ASSUME NEW x \in On \ C, NEW i \in 1 .. k - 1, index[calls[i].node] <= index[x],
                        i < k - 1 => index[x] < index[calls[i + 1].node]
                 PROVE  low_link[calls[i].node] <= low_link[x]
      <3>1. \A j \in 1 .. k - 1 : j < k - 1 => calls'[j + 1].node = calls[j + 1].node
        BY <1>1
      <3> QED BY <3>1, <1>1, <1>3, <1>4 DEF LowBounded
    <2>1. i \in DOMAIN calls /\ i < k /\ i # Len(calls)
      BY <1>0, <1>1, <1>4
    <2>2. index[x] < index[calls[i + 1].node]
      <3>1. CASE i = k - 1
        <4>1. calls[i + 1].node = n
          BY <3>1, <1>0, <1>1
        <4> QED BY <4>1, <1>10
      <3>2. CASE i # k - 1
        BY <3>2, <1>1
      <3> QED BY <3>1, <3>2
    <2> QED BY <2>1, <2>2, <1>i DEF LowBounded
  <1>23. Components'
    <2>1. \A D : Component(D)' <=> Component(D)
      BY <1>1, <1>3 DEF Component, Closed, Edges
    <2> QED BY <2>1, <1>i, <1>2, <1>7 DEF Components
  <1> QED BY <1>11, <1>12, <1>13, <1>14, <1>15, <1>16, <1>17, <1>18, <1>19, <1>20, <1>21, <1>22,
             <1>23 DEF SccInv

LEMMA SccKept ==
  ASSUME IsFiniteSet(Nodes), SccInv, SccStep
  PROVE  SccInv'
  BY RootKeeps, DescendKeeps, AscendKeeps, MeetKeeps, LeaveStays, LeaveTakes DEF SccStep

LEMMA SccBegins ==
  ASSUME nodeGraph.nodes \in SUBSET Nodes, nodeGraph.succs \in [Nodes -> SUBSET Nodes],
         nodeGraph = [nodes |-> nodeGraph.nodes, succs |-> nodeGraph.succs],
         index = <<>>, low_link = <<>>, nodeStack = <<>>, calls = <<>>, result = {}
  PROVE  SccInv
  <1>1. DOMAIN index = {} /\ On = {} /\ Finished = {} /\ DOMAIN calls = {} /\ DOMAIN nodeStack = {}
    BY DEF On, Finished, ToSet
  <1>2. SccType
    BY <1>1 DEF SccType
  <1> QED BY <1>1, <1>2 DEF SccInv, IndexBelow, Indexed, StackOrdered, CallsOrdered, CallsWait,
        FinishedClosed, Closed, EdgesSeen, Reaching, LowReached, LowFell, LowBounded, Components

(* The same in the next state: find_scc begins again. *)
LEMMA SccAnew ==
  ASSUME nodeGraph'.nodes \in SUBSET Nodes, nodeGraph'.succs \in [Nodes -> SUBSET Nodes],
         nodeGraph' = [nodes |-> nodeGraph'.nodes, succs |-> nodeGraph'.succs],
         index' = <<>>, low_link' = <<>>, nodeStack' = <<>>, calls' = <<>>, result' = {}
  PROVE  SccInv'
  <1>1. DOMAIN index' = {} /\ On' = {} /\ Finished' = {} /\ DOMAIN calls' = {}
        /\ DOMAIN nodeStack' = {}
    BY DEF On, Finished, ToSet
  <1>2. SccType'
    BY <1>1 DEF SccType
  <1> QED BY <1>1, <1>2 DEF SccInv, IndexBelow, Indexed, StackOrdered, CallsOrdered, CallsWait,
        FinishedClosed, Closed, EdgesSeen, Reaching, LowReached, LowFell, LowBounded, Components

LEMMA SccAgain ==
  ASSUME SccInv, UNCHANGED sccVars
  PROVE  SccInv'
  <1> USE DEF sccVars
  <1>1. On' = On /\ Finished' = Finished /\ (\A x : Edges(x)' = Edges(x))
        /\ Activation' = Activation
    BY DEF On, Finished, Edges, Activation
  <1>2. /\ \A x : Calling(x)' <=> Calling(x)
        /\ \A x : Pending(x)' = Pending(x)
        /\ \A x : Component(x)' <=> Component(x)
    BY DEF Calling, Pending, Component, Closed, Edges
  <1>3. TopCall' = TopCall
    BY DEF TopCall
  <1>4. SccType' /\ IndexBelow' /\ Indexed' /\ StackOrdered' /\ CallsOrdered'
    BY <1>1 DEF SccInv, SccType, IndexBelow, Indexed, StackOrdered, CallsOrdered
  <1>5. CallsWait' /\ FinishedClosed'
    BY <1>1, <1>3 DEF SccInv, CallsWait, FinishedClosed, Closed, Edges
  <1>6. EdgesSeen' /\ Reaching' /\ LowReached'
    BY <1>1, <1>2 DEF SccInv, EdgesSeen, Reaching, LowReached
  <1>7. LowFell' /\ LowBounded' /\ Components'
    BY <1>1, <1>2 DEF SccInv, LowFell, LowBounded, Components
  <1> QED BY <1>4, <1>5, <1>6, <1>7 DEF SccInv

(* find_scc returns: the components are all there are. *)
LEMMA SccEnds ==
  ASSUME SccInv, SccDone
  PROVE  UNION result = nodeGraph.nodes /\ Components
  <1>1. On = {}
    BY SccShape DEF SccDone, SccInv, CallsOrdered
  <1> QED BY <1>1 DEF SccInv, SccDone, Indexed, SccType, Finished

-----------------------------------------------------------------------------
Edge(p, n) == n \in nodeGraph.succs[p]

(* The inputs: no edge to the entry, from which everything is reached. *)
FromEntry ==
    /\ EntryNode \in Nodes
    /\ \A p \in Nodes : ~Edge(p, EntryNode)
    /\ \A S \in SUBSET Nodes :
            EntryNode \in S /\ (\A x \in S : nodeGraph.succs[x] \subseteq S) => S = Nodes

(* h dominates x: a set avoids h, and is not left for x. *)
Over(h, x) ==
    \E T \in SUBSET (Nodes \ {x}) :
        {EntryNode} \ {h} \subseteq T /\ \A y \in T : nodeGraph.succs[y] \ {h} \subseteq T

Sources(h) == {p \in Nodes : Over(h, p) /\ Edge(p, h)}

(* b leads to p by nodes other than h. *)
Leads(b, p, h) ==
    \A T \in SUBSET Nodes :
        b \in T /\ (\A y \in T : nodeGraph.succs[y] \ {h} \subseteq T) => p \in T

Natural(h) ==
    {h} \cup {b \in Nodes \ {h} : \E p \in Sources(h) : Leads(b, p, h)}

LoopAt(h) == [base |-> h, blocks |-> Natural(h)]

(* No loop is cut, but at its header. *)
LoopsWhole == \A h \in nodeGraph.nodes : Natural(h) \subseteq nodeGraph.nodes

LoopsFound == \A l \in loop_set : \E h \in Nodes : Sources(h) # {} /\ l = LoopAt(h)

(* What remains of a component can only be entered from the header taken. *)
Regions ==
    \A x \in nodeGraph.nodes \ {EntryNode} :
        \E D \in SUBSET nodeGraph.nodes, h \in Nodes :
            /\ x \in D /\ h \notin D /\ (h \in nodeGraph.nodes => h = EntryNode)
            /\ \A n \in D, p \in Nodes : Edge(p, n) => p \in D \cup {h}
            /\ \A y \in D : Over(h, y)

(* d has no edge from a node of C but back edges. *)
Entered(d, C) == \A p \in C : Edge(p, d) => Over(d, p)

ReducibleGraph ==
    \A C \in SUBSET Nodes : C # {} => \E d \in C : Entered(d, C)

LoopsTaken ==
    ReducibleGraph =>
        \A h \in Nodes \ nodeGraph.nodes : Sources(h) # {} => LoopAt(h) \in loop_set

LoopInv ==
    FromEntry /\ LoopsWhole /\ LoopsFound /\ Regions /\ LoopsTaken


LoopGraph == SccType /\ FromEntry

LEMMA GraphFacts ==
  ASSUME LoopGraph
  PROVE  /\ EntryNode \in Nodes
         /\ \A p \in Nodes : nodeGraph.succs[p] \in SUBSET Nodes
         /\ \A p, n : Edge(p, n) <=> n \in nodeGraph.succs[p]
         /\ \A p \in Nodes : ~Edge(p, EntryNode)
         /\ nodeGraph.nodes \subseteq Nodes
  BY DEF LoopGraph, SccType, FromEntry, Edge

LEMMA OverEntry ==
  ASSUME NEW h, Over(h, EntryNode)
  PROVE  h = EntryNode
  BY DEF Over

LEMMA OverSelf ==
  ASSUME LoopGraph, NEW h \in Nodes
  PROVE  Over(h, h)
  <1>1. {EntryNode} \ {h} \subseteq Nodes \ {h}
    BY GraphFacts
  <1>2. \A y \in Nodes \ {h} : nodeGraph.succs[y] \ {h} \subseteq Nodes \ {h}
    BY GraphFacts
  <1> QED BY <1>1, <1>2 DEF Over

LEMMA OverPred ==
  ASSUME NEW h, NEW x, x # h, Over(h, x), NEW p \in Nodes, Edge(p, x)
  PROVE  Over(h, p)
  <1>1. PICK T \in SUBSET (Nodes \ {x}) :
            {EntryNode} \ {h} \subseteq T /\ \A y \in T : nodeGraph.succs[y] \ {h} \subseteq T
    BY DEF Over
  <1>2. p \notin T
    BY <1>1 DEF Edge
  <1>3. T \in SUBSET (Nodes \ {p})
    BY <1>1, <1>2
  <1> QED BY <1>1, <1>3 DEF Over

LEMMA OverAntisymmetric ==
  ASSUME LoopGraph, NEW a \in Nodes, NEW b \in Nodes, Over(a, b), Over(b, a)
  PROVE  a = b
  <1> SUFFICES ASSUME a # b PROVE FALSE
    OBVIOUS
  <1>1. a # EntryNode /\ b # EntryNode
    BY OverEntry
  <1>2. PICK S \in SUBSET (Nodes \ {b}) :
            {EntryNode} \ {a} \subseteq S /\ \A y \in S : nodeGraph.succs[y] \ {a} \subseteq S
    BY DEF Over
  <1>3. PICK T \in SUBSET (Nodes \ {a}) :
            {EntryNode} \ {b} \subseteq T /\ \A y \in T : nodeGraph.succs[y] \ {b} \subseteq T
    BY DEF Over
  <1>4. EntryNode \in S \cap T /\ S \cap T \in SUBSET Nodes
    BY <1>1, <1>2, <1>3
  <1>5. \A y \in S \cap T : nodeGraph.succs[y] \subseteq S \cap T
    BY <1>2, <1>3
  <1>6. S \cap T = Nodes
    BY <1>4, <1>5 DEF LoopGraph, FromEntry
  <1> QED BY <1>3, <1>6

LEMMA NaturalPred ==
  ASSUME LoopGraph, NEW h, NEW x \in Natural(h), x # h, NEW p \in Nodes, Edge(p, x)
  PROVE  p \in Natural(h)
  <1> SUFFICES ASSUME p # h PROVE p \in Natural(h)
    BY DEF Natural
  <1>1. PICK q \in Sources(h) : Leads(x, q, h)
    BY DEF Natural
  <1>2. Leads(p, q, h)
    <2> SUFFICES ASSUME NEW T \in SUBSET Nodes, p \in T,
                        \A y \in T : nodeGraph.succs[y] \ {h} \subseteq T
                 PROVE  q \in T
      BY DEF Leads
    <2>1. x \in T
      BY GraphFacts
    <2> QED BY <2>1, <1>1 DEF Leads
  <1> QED BY <1>1, <1>2 DEF Natural

LEMMA SourceInLoop ==
  ASSUME NEW h, NEW p \in Sources(h)
  PROVE  p \in Natural(h)
  <1>1. Leads(p, p, h)
    BY DEF Leads
  <1> QED BY <1>1 DEF Natural, Sources

LEMMA OverNatural ==
  ASSUME LoopGraph, NEW h \in Nodes, NEW x \in Natural(h)
  PROVE  Over(h, x)
  <1>1. CASE x = h
    BY <1>1, OverSelf
  <1>2. CASE x # h
    <2>1. PICK p \in Sources(h) : Leads(x, p, h)
      BY <1>2 DEF Natural
    <2>2. PICK T \in SUBSET (Nodes \ {p}) :
            {EntryNode} \ {h} \subseteq T /\ \A y \in T : nodeGraph.succs[y] \ {h} \subseteq T
      BY DEF Sources, Over
    <2>3. x \notin T
      BY <2>1, <2>2 DEF Leads
    <2>4. T \in SUBSET (Nodes \ {x})
      BY <2>2, <2>3
    <2> QED BY <2>2, <2>4 DEF Over
  <1> QED BY <1>1, <1>2

(* Whatever C reaches and does not lead back is closed. *)
LEMMA LoopInComponent ==
  ASSUME LoopGraph, NEW C, Component(C), NEW h \in C, Natural(h) \subseteq nodeGraph.nodes
  PROVE  Natural(h) \subseteq C
  <1> DEFINE L == Natural(h)
  <1>1. PICK P \in SUBSET nodeGraph.nodes : P \cap C = {} /\ Closed(P) /\ Closed(P \cup C)
    BY DEF Component
  <1>2. h \in Nodes /\ C \subseteq nodeGraph.nodes /\ h \in L /\ h \in nodeGraph.nodes
    BY GraphFacts DEF Component, Natural
  <1>3. \A x \in L, p \in Nodes : x # h /\ Edge(p, x) => p \in L
    BY NaturalPred
  <1>4. \A x \in L : Over(h, x)
    BY <1>2, OverNatural
  <1>5. L \subseteq nodeGraph.nodes /\ L \subseteq Nodes
    BY GraphFacts
  <1> HIDE DEF L
  <1>6. L \subseteq P \cup C
    <2> DEFINE Kept == Nodes \ (L \ (P \cup C))
    <2>1. EntryNode \in Kept
      <3>1. EntryNode \in L => h = EntryNode
        BY <1>4, OverEntry
      <3> QED BY <3>1, GraphFacts
    <2>2. \A y \in Kept : nodeGraph.succs[y] \subseteq Kept
      <3> SUFFICES ASSUME NEW y \in Kept, NEW z \in nodeGraph.succs[y], z \in L, z \notin P \cup C
                   PROVE  FALSE
        BY GraphFacts
      <3>1. y \in Nodes /\ Edge(y, z) /\ z # h
        BY GraphFacts
      <3>2. y \in L
        BY <3>1, <1>3
      <3>3. y \in P \cup C
        BY <3>2
      <3>4. z \in Edges(y)
        BY <1>5 DEF Edges
      <3> QED BY <3>3, <3>4, <1>1 DEF Closed
    <2>3. Kept = Nodes
      BY <2>1, <2>2 DEF LoopGraph, FromEntry
    <2> QED BY <2>3, <1>5
  <1>7. ASSUME NEW x \in L, x \in P PROVE FALSE
    <2>1. x # h
      BY <1>1, <1>7
    <2>2. PICK p \in Sources(h) : Leads(x, p, h)
      BY <2>1 DEF L, Natural
    <2> DEFINE T == P \cup (Nodes \ L)
    <2>3. T \in SUBSET Nodes /\ x \in T
      BY <1>7, GraphFacts
    <2>4. \A y \in T : nodeGraph.succs[y] \ {h} \subseteq T
      <3> SUFFICES ASSUME NEW y \in T, NEW z \in nodeGraph.succs[y], z # h, z \in L
                   PROVE  z \in P
        BY <2>3, GraphFacts
      <3>1. y \in L
        BY <1>3, <2>3, GraphFacts
      <3>2. y \in P /\ z \in Edges(y)
        BY <3>1, <1>5 DEF Edges
      <3> QED BY <3>2, <1>1 DEF Closed
    <2>5. p \in T
      BY <2>2, <2>3, <2>4 DEF Leads
    <2>6. p \in L
      BY SourceInLoop DEF L
    <2>7. p \in P /\ h \in Edges(p)
      BY <2>5, <2>6, <1>2 DEF Sources, Edge, Edges
    <2> QED BY <2>7, <1>1 DEF Closed
  <1> QED BY <1>6, <1>7 DEF L

LEMMA HeadersFacts ==
  ASSUME NEW C, EntryNode \notin C
  PROVE  \A n : n \in Headers(C) <=> n \in C /\ \E p \in Nodes \ C : Edge(p, n)
  BY DEF Headers, Prevs, Edge

(* A component is entered through its headers. *)
LEMMA HeaderOver ==
  ASSUME LoopGraph, NEW C \in SUBSET Nodes, EntryNode \notin C, NEW h, Headers(C) = {h},
         NEW x \in C
  PROVE  Over(h, x)
  <1> DEFINE T == Nodes \ C
  <1>1. T \in SUBSET (Nodes \ {x}) /\ {EntryNode} \ {h} \subseteq T
    BY GraphFacts
  <1>2. \A y \in T : nodeGraph.succs[y] \ {h} \subseteq T
    BY HeadersFacts, GraphFacts
  <1> QED BY <1>1, <1>2 DEF Over

LEMMA HeaderExists ==
  ASSUME LoopGraph, NEW C \in SUBSET Nodes, C # {}, EntryNode \notin C
  PROVE  Headers(C) # {}
  <1> SUFFICES ASSUME Headers(C) = {} PROVE FALSE
    OBVIOUS
  <1>1. \A y \in Nodes \ C : nodeGraph.succs[y] \subseteq Nodes \ C
    BY HeadersFacts, GraphFacts
  <1>2. EntryNode \in Nodes \ C
    BY GraphFacts
  <1>3. Nodes \ C = Nodes
    BY <1>1, <1>2 DEF LoopGraph, FromEntry
  <1> QED BY <1>3

(* More than a node, or a node with an edge to itself. *)
LEMMA LoopShape ==
  ASSUME IsFiniteSet(Nodes), LoopGraph, NEW C \in SUBSET Nodes, C # {}
  PROVE  IsLoop(C) <=> (\E x, y \in C : x # y) \/ \E n \in C : Edge(n, n)
  <1>1. IsFiniteSet(C) /\ Cardinality(C) \in Nat
    BY FS_Subset, FS_CardinalityType
  <1>2. Cardinality(C) # 0
    BY <1>1, FS_EmptySet
  <1>3. Cardinality(C) = 1 <=> \E x : C = {x}
    BY <1>1, FS_Singleton
  <1>4. Cardinality(C) > 1 <=> \E x, y \in C : x # y
    BY <1>1, <1>2, <1>3
  <1> QED BY <1>4 DEF IsLoop, Edge

LEMMA EntryAlone ==
  ASSUME IsFiniteSet(Nodes), LoopGraph, NEW C, Component(C), IsLoop(C)
  PROVE  EntryNode \notin C
  <1> SUFFICES ASSUME EntryNode \in C PROVE FALSE
    OBVIOUS
  <1>1. C \in SUBSET Nodes /\ C # {}
    BY GraphFacts DEF Component
  <1> DEFINE S == C \ {EntryNode}
  <1>2. \A x \in S : Edges(x) \cap C \subseteq S
    BY <1>1, GraphFacts DEF Edges
  <1> HIDE DEF S
  <1>3. S \in SUBSET C /\ (S # {} => S = C)
    BY <1>2 DEF Component, S
  <1>4. C = {EntryNode}
    BY <1>3 DEF S
  <1> QED BY <1>1, <1>4, LoopShape, GraphFacts

(* A component that is a loop with one header is its natural loop. *)
LEMMA ComponentIsNatural ==
  ASSUME IsFiniteSet(Nodes), LoopGraph, NEW C, Component(C), IsLoop(C),
         NEW h, Headers(C) = {h}, Natural(h) \subseteq nodeGraph.nodes
  PROVE  Sources(h) # {} /\ Natural(h) = C
  <1>1. C \in SUBSET Nodes /\ C # {} /\ C \subseteq nodeGraph.nodes
    BY GraphFacts DEF Component
  <1>2. EntryNode \notin C
    BY EntryAlone
  <1>3. h \in C
    BY <1>2, HeadersFacts
  <1>4. \A x \in C : Over(h, x)
    BY <1>1, <1>2, HeaderOver
  <1>5. \A p \in C : Edge(p, h) => p \in Sources(h)
    BY <1>1, <1>4 DEF Sources
  <1>6. \E p \in C : Edge(p, h)
    <2>1. CASE C = {h}
      BY <2>1, <1>1, LoopShape
    <2>2. CASE C # {h}
      <3> SUFFICES ASSUME \A p \in C : ~Edge(p, h) PROVE FALSE
        OBVIOUS
      <3> DEFINE S == C \ {h}
      <3>1. S # {}
        BY <2>2, <1>3
      <3>2. \A x \in S : Edges(x) \cap C \subseteq S
        BY DEF Edges, Edge
      <3>3. S \in SUBSET C /\ h \notin S
        OBVIOUS
      <3> HIDE DEF S
      <3>4. S = C
        BY <3>1, <3>2, <3>3 DEF Component
      <3> QED BY <3>3, <3>4, <1>3
    <2> QED BY <2>1, <2>2
  <1>7. C \subseteq Natural(h)
    <2> DEFINE S == C \ Natural(h)
    <2>1. h \in Natural(h)
      BY DEF Natural
    <2>2. \A x \in S : Edges(x) \cap C \subseteq S
      <3> SUFFICES ASSUME NEW x \in S, NEW z \in Edges(x) \cap C, z \in Natural(h) PROVE FALSE
        OBVIOUS
      <3>1. x \in Nodes /\ Edge(x, z)
        BY <1>1 DEF Edges, Edge
      <3>2. CASE z = h
        BY <3>1, <3>2, <1>5, SourceInLoop
      <3>3. CASE z # h
        BY <3>1, <3>3, NaturalPred
      <3> QED BY <3>2, <3>3
    <2>3. S = {}
      BY <2>1, <2>2, <1>3 DEF Component
    <2> QED BY <2>3
  <1>8. Natural(h) \subseteq C
    BY <1>3, LoopInComponent
  <1> QED BY <1>5, <1>6, <1>7, <1>8

(* What enters a component of a reducible graph enters it at one node. *)
LEMMA OneHeader ==
  ASSUME IsFiniteSet(Nodes), LoopGraph, Regions, ReducibleGraph,
         NEW C, Component(C), IsLoop(C)
  PROVE  \E h : Headers(C) = {h}
  <1>1. C \in SUBSET Nodes /\ C # {} /\ C \subseteq nodeGraph.nodes
    BY GraphFacts DEF Component
  <1>2. EntryNode \notin C
    BY EntryAlone
  <1>3. PICK d \in C : Entered(d, C)
    BY <1>1 DEF ReducibleGraph
  <1>4. \A x \in C : Over(d, x)
    <2> DEFINE S == {x \in C : ~Over(d, x)}
    <2>1. d \notin S
      BY <1>1, OverSelf
    <2>2. \A x \in S : Edges(x) \cap C \subseteq S
      <3> SUFFICES ASSUME NEW x \in S, NEW z \in Edges(x) \cap C, Over(d, z) PROVE FALSE
        OBVIOUS
      <3>1. x \in Nodes /\ Edge(x, z)
        BY <1>1 DEF Edges, Edge
      <3>2. z # d
        BY <3>1, <1>3 DEF Entered
      <3> QED BY <3>1, <3>2, OverPred
    <2>3. S = {}
      BY <2>1, <2>2 DEF Component
    <2> QED BY <2>3
  <1>5. ASSUME NEW n \in Headers(C), n # d PROVE FALSE
    <2>1. n \in C
      BY <1>2, HeadersFacts
    <2>2. PICK p \in Nodes \ C : Edge(p, n)
      BY <1>2, <1>5, HeadersFacts
    <2>3. Over(d, p)
      BY <2>1, <2>2, <1>4, <1>5, OverPred
    <2>4. d \in nodeGraph.nodes \ {EntryNode}
      BY <1>1, <1>2
    <2>5. PICK D \in SUBSET nodeGraph.nodes, h \in Nodes :
            /\ d \in D /\ h \notin D /\ (h \in nodeGraph.nodes => h = EntryNode)
            /\ \A m \in D, q \in Nodes : Edge(q, m) => q \in D \cup {h}
            /\ \A y \in D : Over(h, y)
      BY <2>4 DEF Regions
    <2>6. h \notin C
      BY <2>5, <1>1, <1>2
    <2>7. C \subseteq D
      <3>1. \A x \in C \ D : Edges(x) \cap C \subseteq C \ D
        <4> SUFFICES ASSUME NEW x \in C \ D, NEW z \in Edges(x) \cap C, z \in D PROVE FALSE
          OBVIOUS
        <4>1. x \in Nodes /\ Edge(x, z)
          BY <1>1 DEF Edges, Edge
        <4> QED BY <4>1, <2>5, <2>6
      <3> DEFINE S == C \ D
      <3>2. S \in SUBSET C /\ d \notin S
        BY <2>5
      <3> HIDE DEF S
      <3>3. S # {} => S = C
        BY <3>1, <3>2 DEF Component, S
      <3> QED BY <3>2, <3>3 DEF S
    <2>8. d # h /\ d \in Nodes
      BY <2>5, <1>1
    <2>9. ~Over(d, h)
      BY <2>5, <2>8, OverAntisymmetric
    <2>10. p \in D
      BY <2>1, <2>2, <2>3, <2>5, <2>7, <2>9
    <2>11. PICK P \in SUBSET nodeGraph.nodes : P \cap C = {} /\ Closed(P) /\ Closed(P \cup C)
      BY DEF Component
    <2> DEFINE Bad == {q \in D : Over(d, q) /\ q \notin P \cup C}
    <2>12. \A q \in Bad, r \in Nodes : Edge(r, q) => r \in Bad
      <3> SUFFICES ASSUME NEW q \in Bad, NEW r \in Nodes, Edge(r, q) PROVE r \in Bad
        OBVIOUS
      <3>1. q # d
        OBVIOUS
      <3>2. Over(d, r)
        BY <3>1, OverPred
      <3>3. r \in D
        BY <3>2, <2>5, <2>9
      <3>4. r \notin P \cup C
        <4>1. q \in Edges(r)
          BY DEF Edges, Edge
        <4> QED BY <4>1, <2>11 DEF Closed
      <3> QED BY <3>2, <3>3, <3>4
    <2>13. EntryNode \notin Bad
      BY <1>2, OverEntry
    <2>14. Bad = {}
      <3>1. \A y \in Nodes \ Bad : nodeGraph.succs[y] \subseteq Nodes \ Bad
        BY <2>12, GraphFacts
      <3>2. EntryNode \in Nodes \ Bad
        BY <2>13, GraphFacts
      <3>3. Nodes \ Bad = Nodes
        BY <3>1, <3>2 DEF LoopGraph, FromEntry
      <3> QED BY <3>3, GraphFacts
    <2>15. p \in P
      BY <2>2, <2>3, <2>10, <2>14
    <2>16. n \in Edges(p)
      BY <2>1, <2>2, <1>1 DEF Edges, Edge
    <2> QED BY <2>1, <2>11, <2>15, <2>16 DEF Closed
  <1>6. Headers(C) # {}
    BY <1>1, <1>2, HeaderExists
  <1> QED BY <1>5, <1>6

LEMMA SameEdges ==
  ASSUME nodeGraph'.succs = nodeGraph.succs
  PROVE  /\ FromEntry' <=> FromEntry
         /\ \A h, x : Over(h, x)' <=> Over(h, x)
         /\ \A p, n : Edge(p, n)' <=> Edge(p, n)
         /\ \A h : /\ Sources(h)' = Sources(h) /\ Natural(h)' = Natural(h)
                   /\ LoopAt(h)' = LoopAt(h)
         /\ ReducibleGraph' <=> ReducibleGraph
  <1>1. \A p, n : Edge(p, n)' <=> Edge(p, n)
    BY DEF Edge
  <1>2. \A h, x : Over(h, x)' <=> Over(h, x)
    BY DEF Over
  <1>3. \A h : Sources(h)' = Sources(h)
    BY <1>1, <1>2 DEF Sources
  <1>4. \A b, p, h : Leads(b, p, h)' <=> Leads(b, p, h)
    BY DEF Leads
  <1>5. \A h : Natural(h)' = Natural(h)
    BY <1>3, <1>4 DEF Natural
  <1>6. \A h : LoopAt(h)' = LoopAt(h)
    BY <1>5 DEF LoopAt
  <1>7. ReducibleGraph' <=> ReducibleGraph
    BY <1>1, <1>2 DEF ReducibleGraph, Entered
  <1>8. FromEntry' <=> FromEntry
    BY <1>1 DEF FromEntry
  <1> QED BY <1>1, <1>2, <1>3, <1>5, <1>6, <1>7, <1>8

LEMMA LoopAgain ==
  ASSUME LoopInv, nodeGraph' = nodeGraph, loop_set' = loop_set
  PROVE  LoopInv'
  BY SameEdges DEF LoopInv, LoopsWhole, LoopsFound, Regions, LoopsTaken

LEMMA ComponentsApart ==
  ASSUME NEW C, NEW D, Component(C), Component(D), NEW x \in C \cap D
  PROVE  C = D
  <1>1. ASSUME NEW A, NEW B, Component(A), Component(B), NEW y \in A \cap B
        PROVE  A \subseteq B
    <2>1. PICK P \in SUBSET nodeGraph.nodes : P \cap B = {} /\ Closed(P) /\ Closed(P \cup B)
      BY <1>1 DEF Component
    <2> DEFINE S == A \cap (P \cup B)
               T == A \cap P
    <2>2. \A z \in S : Edges(z) \cap A \subseteq S
      BY <2>1 DEF Closed
    <2>3. \A z \in T : Edges(z) \cap A \subseteq T
      BY <2>1 DEF Closed
    <2>4. S \in SUBSET A /\ y \in S /\ T \in SUBSET A /\ y \notin T
      BY <1>1, <2>1
    <2> HIDE DEF S, T
    <2>5. S = A
      BY <1>1, <2>2, <2>4 DEF Component
    <2>6. T = {}
      BY <1>1, <2>3, <2>4 DEF Component
    <2> QED BY <2>5, <2>6 DEF S, T
  <1> QED BY <1>1

(* What a round leaves of a component is all but its header. *)
LEMMA TakenFacts ==
  ASSUME SccInv, SccDone
  PROVE  /\ \A x \in nodeGraph.nodes \ Taken(result) :
                \E C \in result : /\ x \in C /\ HasHeader(C) /\ x \notin Headers(C)
                                  /\ C \ Headers(C) \subseteq nodeGraph.nodes \ Taken(result)
         /\ \A x \in Taken(result) :
                \E C \in result : x \in C /\ (HasHeader(C) => x \in Headers(C))
         /\ \A C \in result : HasHeader(C) => Headers(C) \subseteq Taken(result)
  <1>1. UNION result = nodeGraph.nodes /\ \A C \in result : Component(C)
    BY SccEnds DEF Components
  <1>2. \A x : x \in Taken(result) <=>
                \E C \in result : x \in IF HasHeader(C) THEN Headers(C) ELSE C
    BY DEF Taken
  <1>3. \A C : Headers(C) \subseteq C
    BY DEF Headers
  <1>4. ASSUME NEW x \in nodeGraph.nodes \ Taken(result)
        PROVE  \E C \in result : /\ x \in C /\ HasHeader(C) /\ x \notin Headers(C)
                                 /\ C \ Headers(C) \subseteq nodeGraph.nodes \ Taken(result)
    <2>1. PICK C \in result : x \in C
      BY <1>1
    <2>2. HasHeader(C) /\ x \notin Headers(C)
      BY <2>1, <1>2
    <2>3. ASSUME NEW y \in C \ Headers(C), y \in Taken(result) PROVE FALSE
      <3>1. PICK D \in result : y \in IF HasHeader(D) THEN Headers(D) ELSE D
        BY <2>3, <1>2
      <3>2. y \in D
        BY <3>1, <1>3
      <3>3. D = C
        BY <3>2, <1>1, ComponentsApart
      <3> QED BY <3>1, <3>3, <2>2
    <2> QED BY <2>1, <2>2, <2>3, <1>1
  <1>5. ASSUME NEW x \in Taken(result)
        PROVE  \E C \in result : x \in C /\ (HasHeader(C) => x \in Headers(C))
    <2>1. PICK C \in result : x \in IF HasHeader(C) THEN Headers(C) ELSE C
      BY <1>2
    <2> QED BY <2>1, <1>3
  <1>6. ASSUME NEW C \in result, HasHeader(C) PROVE Headers(C) \subseteq Taken(result)
    BY <1>2, <1>6
  <1> QED BY <1>4, <1>5, <1>6

LEMMA OnlyHeader ==
  ASSUME IsFiniteSet(Nodes), LoopGraph, NEW C, Component(C), HasHeader(C)
  PROVE  IsLoop(C) /\ EntryNode \notin C /\ Headers(C) = {HeaderOf(C)} /\ HeaderOf(C) \in C
  <1>1. IsLoop(C) /\ Cardinality(Headers(C)) = 1
    BY DEF HasHeader
  <1>2. C \in SUBSET Nodes
    BY GraphFacts DEF Component
  <1>3. Headers(C) \in SUBSET Nodes /\ Headers(C) \subseteq C
    BY <1>2 DEF Headers
  <1>4. IsFiniteSet(Headers(C))
    BY <1>3, FS_Subset
  <1>5. PICK h : Headers(C) = {h}
    BY <1>1, <1>4, FS_Singleton
  <1>6. HeaderOf(C) = h
    BY <1>5 DEF HeaderOf
  <1> QED BY <1>1, <1>3, <1>5, <1>6, EntryAlone

LEMMA CollectKeeps ==
  ASSUME IsFiniteSet(Nodes), SccInv, LoopInv, Collect
  PROVE  SccInv' /\ LoopInv'
  <1> DEFINE left == nodeGraph.nodes \ Taken(result)
             found == {[base |-> HeaderOf(scc), blocks |-> scc] :
                            scc \in {c \in result : HasHeader(c)}}
  <1>1. /\ SccDone /\ loop_set' = loop_set \cup found
        /\ nodeGraph' = [nodeGraph EXCEPT !.nodes = left]
        /\ index' = <<>> /\ low_link' = <<>> /\ nodeStack' = <<>> /\ calls' = <<>> /\ result' = {}
    BY DEF Collect
  <1>2. LoopGraph /\ LoopsWhole /\ LoopsFound /\ Regions /\ LoopsTaken
    BY DEF LoopInv, LoopGraph, SccInv
  <1>3. /\ nodeGraph.nodes \in SUBSET Nodes /\ nodeGraph.succs \in [Nodes -> SUBSET Nodes]
        /\ nodeGraph = [nodes |-> nodeGraph.nodes, succs |-> nodeGraph.succs]
    BY <1>2 DEF LoopGraph, SccType
  <1>4. nodeGraph'.nodes = left /\ nodeGraph'.succs = nodeGraph.succs
        /\ nodeGraph' = [nodes |-> nodeGraph'.nodes, succs |-> nodeGraph'.succs]
    BY <1>1, <1>3
  <1>5. \A C \in result : Component(C) /\ C \subseteq nodeGraph.nodes
    BY <1>1, SccEnds DEF Components, Component
  <1>6. /\ \A x \in left :
                \E C \in result : /\ x \in C /\ HasHeader(C) /\ x \notin Headers(C)
                                  /\ C \ Headers(C) \subseteq left
        /\ \A x \in Taken(result) :
                \E C \in result : x \in C /\ (HasHeader(C) => x \in Headers(C))
        /\ \A C \in result : HasHeader(C) => Headers(C) \subseteq Taken(result)
    BY <1>1, TakenFacts
  <1>7. left \subseteq nodeGraph.nodes
    OBVIOUS
  <1>8. \A C \in result : HasHeader(C) =>
            IsLoop(C) /\ EntryNode \notin C /\ Headers(C) = {HeaderOf(C)} /\ HeaderOf(C) \in C
    BY <1>2, <1>5, OnlyHeader
  <1>9. \A C \in result : HasHeader(C) => \A x \in C : Over(HeaderOf(C), x)
    <2> SUFFICES ASSUME NEW C \in result, HasHeader(C), NEW x \in C PROVE Over(HeaderOf(C), x)
      OBVIOUS
    <2>1. C \in SUBSET Nodes
      BY <1>3, <1>5
    <2> QED BY <2>1, <1>2, <1>8, HeaderOver
  <1>10. \A C \in result : \A h \in C : Natural(h) \subseteq C
    BY <1>2, <1>5, LoopInComponent DEF LoopsWhole
  <1>11. \A C \in result : HasHeader(C) =>
            Sources(HeaderOf(C)) # {} /\ Natural(HeaderOf(C)) = C
    BY <1>2, <1>5, <1>8, ComponentIsNatural DEF LoopsWhole
  <1>12. \A l : l \in found <=>
            \E C \in result : HasHeader(C) /\ l = [base |-> HeaderOf(C), blocks |-> C]
    OBVIOUS
  <1> HIDE DEF left, found
  <1>13. SccInv'
    <2>1. /\ nodeGraph'.nodes \in SUBSET Nodes /\ nodeGraph'.succs \in [Nodes -> SUBSET Nodes]
      BY <1>3, <1>4, <1>7
    <2> QED BY <2>1, <1>1, <1>4, SccAnew
  <1>14. /\ FromEntry' <=> FromEntry
         /\ \A h, x : Over(h, x)' <=> Over(h, x)
         /\ \A p, n : Edge(p, n)' <=> Edge(p, n)
         /\ \A h : /\ Sources(h)' = Sources(h) /\ Natural(h)' = Natural(h)
                   /\ LoopAt(h)' = LoopAt(h)
         /\ ReducibleGraph' <=> ReducibleGraph
    BY <1>4, SameEdges
  <1>15. LoopsWhole'
    <2> SUFFICES ASSUME NEW h \in left, NEW y \in Natural(h) PROVE y \in left
      BY <1>4, <1>14 DEF LoopsWhole
    <2>1. PICK C \in result : /\ h \in C /\ HasHeader(C) /\ h \notin Headers(C)
                              /\ C \ Headers(C) \subseteq left
      BY <1>6
    <2>2. y \in C
      BY <2>1, <1>10
    <2>3. ASSUME y \in Headers(C) PROVE FALSE
      <3>1. y = HeaderOf(C)
        BY <2>1, <2>3, <1>8
      <3>2. Over(h, y) /\ Over(y, h)
        <4>1. h \in Nodes
          BY <2>1, <1>3, <1>5
        <4> QED BY <4>1, <3>1, <2>1, <1>2, <1>9, OverNatural
      <3>3. y = h
        BY <3>2, <2>1, <2>2, <1>2, <1>3, <1>5, OverAntisymmetric
      <3> QED BY <3>3, <2>1, <2>3
    <2> QED BY <2>1, <2>2, <2>3
  <1>16. LoopsFound'
    <2> SUFFICES ASSUME NEW l \in loop_set'
                 PROVE  \E h \in Nodes : Sources(h) # {} /\ l = LoopAt(h)
      BY <1>14 DEF LoopsFound
    <2>1. CASE l \in loop_set
      BY <2>1, <1>2 DEF LoopsFound
    <2>2. CASE l \in found
      <3>1. PICK C \in result : HasHeader(C) /\ l = [base |-> HeaderOf(C), blocks |-> C]
        BY <2>2, <1>12
      <3>2. HeaderOf(C) \in Nodes
        BY <3>1, <1>3, <1>5, <1>8
      <3> QED BY <3>1, <3>2, <1>11 DEF LoopAt
    <2> QED BY <2>1, <2>2, <1>1
  <1>17. Regions'
    <2>1. ASSUME NEW x \in left
          PROVE  \E D \in SUBSET left, h \in Nodes :
                    /\ x \in D /\ h \notin D /\ (h \in left => h = EntryNode)
                    /\ \A n \in D, p \in Nodes : Edge(p, n) => p \in D \cup {h}
                    /\ \A y \in D : Over(h, y)
      <3>1. PICK C \in result : /\ x \in C /\ HasHeader(C) /\ x \notin Headers(C)
                                /\ C \ Headers(C) \subseteq left
        BY <1>6
      <3> DEFINE h == HeaderOf(C)
                 D == C \ {h}
      <3>2. Headers(C) = {h} /\ h \in C /\ EntryNode \notin C
        BY <3>1, <1>8
      <3>3. D \in SUBSET left /\ h \in Nodes /\ x \in D /\ h \notin D
        BY <3>1, <3>2, <1>3, <1>5
      <3>4. h \notin left
        BY <3>1, <3>2, <1>6 DEF left
      <3>5. \A n \in D, p \in Nodes : Edge(p, n) => p \in D \cup {h}
        <4> SUFFICES ASSUME NEW n \in D, NEW p \in Nodes, Edge(p, n), p \notin C PROVE FALSE
          OBVIOUS
        <4>1. n \in Headers(C)
          BY <3>2, HeadersFacts
        <4> QED BY <4>1, <3>2
      <3>6. \A y \in D : Over(h, y)
        BY <3>1, <1>9
      <3> HIDE DEF h, D
      <3> QED BY <3>3, <3>4, <3>5, <3>6
    <2> SUFFICES ASSUME NEW x \in nodeGraph'.nodes \ {EntryNode}
                 PROVE  \E D \in SUBSET nodeGraph'.nodes, h \in Nodes :
                            /\ x \in D /\ h \notin D /\ (h \in nodeGraph'.nodes => h = EntryNode)
                            /\ \A n \in D, p \in Nodes : Edge(p, n)' => p \in D \cup {h}
                            /\ \A y \in D : Over(h, y)'
      BY DEF Regions
    <2>2. left = nodeGraph'.nodes /\ x \in left
      BY <1>4
    <2> HIDE DEF left
    <2>3. PICK D \in SUBSET left, h \in Nodes :
            /\ x \in D /\ h \notin D /\ (h \in left => h = EntryNode)
            /\ \A n \in D, p \in Nodes : Edge(p, n) => p \in D \cup {h}
            /\ \A y \in D : Over(h, y)
      BY <2>1, <2>2
    <2>4. \A n \in D, p \in Nodes : Edge(p, n)' => p \in D \cup {h}
      BY <1>14, <2>3, Zenon
    <2>5. \A y \in D : Over(h, y)'
      BY <1>14, <2>3, Zenon
    <2>6. D \in SUBSET nodeGraph'.nodes /\ (h \in nodeGraph'.nodes => h = EntryNode)
      BY <2>2, <2>3
    <2> QED BY <2>3, <2>4, <2>5, <2>6, Zenon
  <1>18. LoopsTaken'
    <2> SUFFICES ASSUME ReducibleGraph, NEW h \in Nodes \ left, Sources(h) # {}
                 PROVE  LoopAt(h) \in loop_set'
      BY <1>4, <1>14 DEF LoopsTaken
    <2>1. CASE h \notin nodeGraph.nodes
      BY <2>1, <1>1, <1>2 DEF LoopsTaken
    <2>2. CASE h \in nodeGraph.nodes
      <3>1. h \in Taken(result)
        BY <2>2 DEF left
      <3>2. PICK C \in result : h \in C /\ (HasHeader(C) => h \in Headers(C))
        BY <3>1, <1>6
      <3>3. PICK p \in Sources(h) : TRUE
        OBVIOUS
      <3>4. p \in C /\ Edge(p, h)
        BY <3>2, <3>3, <1>10, SourceInLoop DEF Sources
      <3>5. IsLoop(C)
        <4>1. C \in SUBSET Nodes /\ C # {}
          BY <3>2, <1>3, <1>5
        <4> QED BY <4>1, <3>2, <3>4, <1>2, LoopShape
      <3>6. PICK e : Headers(C) = {e}
        BY <3>5, <1>2, <1>5, OneHeader
      <3>7. HasHeader(C)
        BY <3>5, <3>6, FS_Singleton DEF HasHeader
      <3>8. h = HeaderOf(C)
        BY <3>2, <3>7, <1>8
      <3>9. LoopAt(h) \in found
        BY <3>7, <3>8, <1>11, <1>12 DEF LoopAt
      <3> QED BY <3>9, <1>1
    <2> QED BY <2>1, <2>2
  <1> QED BY <1>2, <1>13, <1>14, <1>15, <1>16, <1>17, <1>18 DEF LoopInv, LoopGraph

LEMMA LoopKept ==
  ASSUME IsFiniteSet(Nodes), SccInv, LoopInv, [LoopStep]_loopVars
  PROVE  SccInv' /\ LoopInv'
  <1>1. CASE Collect
    BY <1>1, CollectKeeps
  <1>2. CASE SccStep /\ UNCHANGED <<loop_set, bb2base>>
    <2>1. SccInv'
      BY <1>2, SccKept
    <2>2. nodeGraph' = nodeGraph /\ loop_set' = loop_set
      BY <1>2 DEF SccStep, Root, Descend, Ascend, Meet, Leave
    <2> QED BY <2>1, <2>2, LoopAgain
  <1>3. CASE UNCHANGED loopVars
    <2>1. nodeGraph' = nodeGraph /\ loop_set' = loop_set
      BY <1>3 DEF loopVars
    <2>2. SccInv'
      BY <1>3, SccAgain DEF loopVars, sccVars
    <2> QED BY <2>1, <2>2, LoopAgain
  <1> QED BY <1>1, <1>2, <1>3 DEF LoopStep

-----------------------------------------------------------------------------
(* The definitions of Dominance in these terms. *)

LEMMA SetToSeqFacts ==
  ASSUME NEW S, IsFiniteSet(S)
  PROVE  SetToSeq(S) \in Seq(S) /\ ToSet(SetToSeq(S)) = S
  <1> DEFINE n == Cardinality(S)
             Q == [1 .. n -> S]
  <1>1. n \in Nat /\ ExistsBijection(1 .. n, S)
    BY FS_CardinalityType
  <1>2. PICK b \in Bijection(1 .. n, S) : TRUE
    BY <1>1 DEF ExistsBijection
  <1>3. b \in Q /\ IsInjective(b)
    BY <1>2 DEF Bijection, Injection, IsInjective
  <1>4. SetToSeq(S) \in Q /\ IsInjective(SetToSeq(S))
    BY <1>3 DEF SetToSeq
  <1> DEFINE s == SetToSeq(S)
  <1>5. s \in Q /\ IsInjective(s)
    BY <1>4
  <1> HIDE DEF s
  <1>6. s \in Injection(1 .. n, S)
    BY <1>5 DEF Injection, IsInjective
  <1>7. IsFiniteSet(1 .. n) /\ Cardinality(1 .. n) = n
    BY <1>1, FS_Interval
  <1>8. s \in Surjection(1 .. n, S)
    BY <1>6, <1>7, FS_Injection
  <1>9. \A x \in S : \E i \in 1 .. n : s[i] = x
    BY <1>8 DEF Surjection
  <1>10. s \in Seq(S)
    BY <1>1, <1>5
  <1>11. DOMAIN s = 1 .. n
    BY <1>5
  <1> QED BY <1>5, <1>9, <1>10, <1>11 DEF ToSet, s

LEMMA SuccessorsFacts ==
  ASSUME IsFiniteSet(Nodes), LoopGraph
  PROVE  /\ DOMAIN Successors = Nodes /\ Successors \in [Nodes -> Seq(Nodes)]
         /\ \A n \in Nodes : ToSet(Successors[n]) = nodeGraph.succs[n]
  <1>1. \A n \in Nodes : /\ SetToSeq(nodeGraph.succs[n]) \in Seq(Nodes)
                         /\ ToSet(SetToSeq(nodeGraph.succs[n])) = nodeGraph.succs[n]
    <2> SUFFICES ASSUME NEW n \in Nodes
                 PROVE  /\ SetToSeq(nodeGraph.succs[n]) \in Seq(Nodes)
                        /\ ToSet(SetToSeq(nodeGraph.succs[n])) = nodeGraph.succs[n]
      OBVIOUS
    <2>1. nodeGraph.succs[n] \in SUBSET Nodes
      BY GraphFacts
    <2>2. IsFiniteSet(nodeGraph.succs[n])
      BY <2>1, FS_Subset
    <2>3. /\ SetToSeq(nodeGraph.succs[n]) \in Seq(nodeGraph.succs[n])
          /\ ToSet(SetToSeq(nodeGraph.succs[n])) = nodeGraph.succs[n]
      BY <2>2, SetToSeqFacts
    <2> HIDE DEF SetToSeq
    <2>4. SetToSeq(nodeGraph.succs[n]) \in Seq(Nodes)
      BY <2>1, <2>3
    <2> QED BY <2>3, <2>4
  <1> QED BY <1>1 DEF Successors

LEMMA BeyondFacts ==
  ASSUME IsFiniteSet(Nodes), LoopGraph, NEW T \in SUBSET Nodes, NEW avoid
  PROVE  Beyond(Successors, T, avoid) \subseteq T
            <=> \A y \in T : nodeGraph.succs[y] \ avoid \subseteq T
  <1>1. \A y \in T : ToSet(Successors[y]) = nodeGraph.succs[y]
    BY SuccessorsFacts
  <1> QED BY <1>1 DEF Beyond

LEMMA SuccessorsReach ==
  ASSUME IsFiniteSet(Nodes), LoopGraph, NEW start \in SUBSET Nodes, NEW avoid
  PROVE  Reached(Successors, start, avoid) = Least(Successors, start \ avoid, avoid)
  <1>1. Successors \in [Nodes -> Seq(Nodes)]
    BY SuccessorsFacts
  <1> DEFINE g == Successors
  <1>2. g \in [Nodes -> Seq(Nodes)]
    BY <1>1
  <1> HIDE DEF g
  <1>3. Reached(g, start, avoid) = Least(g, start \ avoid, avoid)
    BY <1>2, ReachedIsLeast
  <1> QED BY <1>3 DEF g

LEMMA DominatedOver ==
  ASSUME IsFiniteSet(Nodes), LoopGraph, NEW d \in Nodes, NEW x \in Nodes
  PROVE  x \in Dominated(Successors, EntryNode)[d] <=> Over(d, x)
  <1>1. /\ DOMAIN Successors = Nodes /\ Successors \in [Nodes -> Seq(Nodes)]
        /\ {EntryNode} \in SUBSET Nodes
    BY SuccessorsFacts, GraphFacts
  <1>2. Reached(Successors, {EntryNode}, {d}) = Least(Successors, {EntryNode} \ {d}, {d})
    BY <1>1, SuccessorsReach
  <1>3. Dominated(Successors, EntryNode)[d] = Nodes \ Reached(Successors, {EntryNode}, {d})
    BY <1>1 DEF Dominated
  <1>4. x \in Least(Successors, {EntryNode} \ {d}, {d}) <=>
            \A T \in SUBSET Nodes :
                {EntryNode} \ {d} \subseteq T /\ Beyond(Successors, T, {d}) \subseteq T => x \in T
    BY <1>1 DEF Least
  <1>5. \A T \in SUBSET Nodes : Beyond(Successors, T, {d}) \subseteq T
                                    <=> \A y \in T : nodeGraph.succs[y] \ {d} \subseteq T
    BY BeyondFacts
  <1>6. x \in Dominated(Successors, EntryNode)[d] <=>
            \E T \in SUBSET Nodes :
                /\ {EntryNode} \ {d} \subseteq T
                /\ \A y \in T : nodeGraph.succs[y] \ {d} \subseteq T
                /\ x \notin T
    BY <1>2, <1>3, <1>4, <1>5
  <1>7. \A T : T \in SUBSET (Nodes \ {x}) <=> T \in SUBSET Nodes /\ x \notin T
    OBVIOUS
  <1> QED BY <1>6, <1>7 DEF Over

LEMMA AllLive ==
  ASSUME IsFiniteSet(Nodes), LoopGraph
  PROVE  Reached(Successors, {EntryNode}, {}) = Nodes
  <1>1. /\ DOMAIN Successors = Nodes /\ Successors \in [Nodes -> Seq(Nodes)]
        /\ {EntryNode} \in SUBSET Nodes /\ {EntryNode} \ {} = {EntryNode}
    BY SuccessorsFacts, GraphFacts
  <1>2. Reached(Successors, {EntryNode}, {}) = Least(Successors, {EntryNode}, {})
    BY <1>1, ReachedIsLeast
  <1>3. \A T \in SUBSET Nodes : Beyond(Successors, T, {}) \subseteq T
                                    <=> \A y \in T : nodeGraph.succs[y] \ {} \subseteq T
    BY BeyondFacts
  <1>4. \A T \in SUBSET Nodes :
            {EntryNode} \subseteq T /\ Beyond(Successors, T, {}) \subseteq T => T = Nodes
    BY <1>3 DEF LoopGraph, FromEntry
  <1>5. \A x : x \in Least(Successors, {EntryNode}, {}) <=>
            x \in Nodes /\ \A T \in SUBSET Nodes :
                {EntryNode} \subseteq T /\ Beyond(Successors, T, {}) \subseteq T => x \in T
    BY <1>1 DEF Least
  <1>6. Least(Successors, {EntryNode}, {}) = Nodes
    BY <1>4, <1>5
  <1> QED BY <1>2, <1>6

LEMMA LeadsReached ==
  ASSUME IsFiniteSet(Nodes), LoopGraph, NEW h \in Nodes, NEW b \in Nodes \ {h}, NEW p \in Nodes
  PROVE  p \in Reached(Successors, {b}, {h}) <=> Leads(b, p, h)
  <1>1. /\ DOMAIN Successors = Nodes /\ Successors \in [Nodes -> Seq(Nodes)]
        /\ {b} \in SUBSET Nodes /\ {b} \ {h} = {b}
    BY SuccessorsFacts
  <1>2. Reached(Successors, {b}, {h}) = Least(Successors, {b}, {h})
    BY <1>1, SuccessorsReach
  <1>3. \A T \in SUBSET Nodes : Beyond(Successors, T, {h}) \subseteq T
                                    <=> \A y \in T : nodeGraph.succs[y] \ {h} \subseteq T
    BY BeyondFacts
  <1>4. p \in Least(Successors, {b}, {h}) <=>
            \A T \in SUBSET Nodes :
                b \in T /\ Beyond(Successors, T, {h}) \subseteq T => p \in T
    BY <1>1 DEF Least
  <1> QED BY <1>2, <1>3, <1>4 DEF Leads

LEMMA NaturalLoopsAre ==
  ASSUME IsFiniteSet(Nodes), LoopGraph
  PROVE  \A l : l \in NaturalLoops(Successors, EntryNode) <=>
                    \E h \in Nodes : Sources(h) # {} /\ l = LoopAt(h)
  <1> DEFINE dom == Dominated(Successors, EntryNode)
             live == Reached(Successors, {EntryNode}, {})
             sources(h) == {p \in dom[h] \cap live : h \in ToSet(Successors[p])}
             body(h) == {b \in live \ {h} : Reached(Successors, {b}, {h}) \cap sources(h) # {}}
  <1>1. live = Nodes
    BY AllLive
  <1>2. \A h, p \in Nodes : p \in dom[h] <=> Over(h, p)
    BY DominatedOver
  <1>3. \A p \in Nodes : ToSet(Successors[p]) = nodeGraph.succs[p]
    BY SuccessorsFacts
  <1>4. \A l : l \in NaturalLoops(Successors, EntryNode) <=>
            \E h \in live : sources(h) # {} /\ l = [base |-> h, blocks |-> {h} \cup body(h)]
    BY DEF NaturalLoops
  <1> HIDE DEF dom, live
  <1>5. \A h \in Nodes : sources(h) = Sources(h)
    BY <1>1, <1>2, <1>3 DEF Sources, Edge
  <1>6. \A h \in Nodes : {h} \cup body(h) = Natural(h)
    <2> SUFFICES ASSUME NEW h \in Nodes, NEW b \in Nodes \ {h}
                 PROVE  b \in body(h) <=> \E p \in Sources(h) : Leads(b, p, h)
      BY <1>1 DEF Natural
    <2>1. \A p \in Nodes : p \in Reached(Successors, {b}, {h}) <=> Leads(b, p, h)
      BY LeadsReached
    <2>2. Sources(h) \subseteq Nodes
      BY DEF Sources
    <2> HIDE DEF sources
    <2>3. b \in body(h) <=> Reached(Successors, {b}, {h}) \cap Sources(h) # {}
      BY <1>1, <1>5
    <2> QED BY <2>1, <2>2, <2>3
  <1> HIDE DEF sources, body
  <1>7. \A h \in Nodes : \A l : (sources(h) # {} /\ l = [base |-> h, blocks |-> {h} \cup body(h)])
                                <=> (Sources(h) # {} /\ l = LoopAt(h))
    BY <1>5, <1>6 DEF LoopAt
  <1> QED BY <1>1, <1>4, <1>7

LEMMA ReducibleMeans ==
  ASSUME IsFiniteSet(Nodes), LoopGraph, Reducible(Successors, EntryNode)
  PROVE  ReducibleGraph
  <1> DEFINE dom == Dominated(Successors, EntryNode)
             Ahead(b) == {s \in ToSet(Successors[b]) : b \notin dom[s]}
             forward == [b \in DOMAIN Successors |-> SetToSeq(Ahead(b))]
             F(b) == Least(forward, ToSet(forward[b]), {})
  <1>1. DOMAIN Successors = Nodes /\ \A n \in Nodes : ToSet(Successors[n]) = nodeGraph.succs[n]
    BY SuccessorsFacts
  <1>2. \A b \in Nodes : Ahead(b) = {s \in nodeGraph.succs[b] : ~Over(s, b)}
    <2> SUFFICES ASSUME NEW b \in Nodes, NEW s \in nodeGraph.succs[b]
                 PROVE  b \in dom[s] <=> Over(s, b)
      BY <1>1
    <2>1. s \in Nodes
      BY GraphFacts
    <2> QED BY <2>1, DominatedOver
  <1> HIDE DEF dom
  <1>3. \A b \in Nodes : Ahead(b) \in SUBSET Nodes
    BY <1>2, GraphFacts
  <1>4. \A b \in DOMAIN Successors : b \notin Reached(forward, ToSet(forward[b]), {})
    BY DEF Reducible, dom
  <1> HIDE DEF Ahead
  <1>5. \A b \in Nodes : SetToSeq(Ahead(b)) \in Seq(Nodes) /\ ToSet(SetToSeq(Ahead(b))) = Ahead(b)
    <2> SUFFICES ASSUME NEW b \in Nodes
                 PROVE  SetToSeq(Ahead(b)) \in Seq(Nodes) /\ ToSet(SetToSeq(Ahead(b))) = Ahead(b)
      OBVIOUS
    <2>1. Ahead(b) \in SUBSET Nodes /\ IsFiniteSet(Ahead(b))
      BY <1>3, FS_Subset
    <2>2. SetToSeq(Ahead(b)) \in Seq(Ahead(b)) /\ ToSet(SetToSeq(Ahead(b))) = Ahead(b)
      BY <2>1, SetToSeqFacts
    <2>3. SetToSeq(Ahead(b)) \in Seq(Nodes)
      BY <2>1, <2>2
    <2> QED BY <2>2, <2>3
  <1>6. /\ DOMAIN forward = Nodes /\ forward \in [Nodes -> Seq(Nodes)]
        /\ \A b \in Nodes : ToSet(forward[b]) = Ahead(b)
    BY <1>1, <1>5
  <1> HIDE DEF forward
  <1>7. \A b \in Nodes : Reached(forward, ToSet(forward[b]), {}) = F(b)
    <2> SUFFICES ASSUME NEW b \in Nodes PROVE Reached(forward, ToSet(forward[b]), {}) = F(b)
      OBVIOUS
    <2>1. ToSet(forward[b]) \in SUBSET Nodes /\ ToSet(forward[b]) \ {} = ToSet(forward[b])
      BY <1>3, <1>6
    <2> QED BY <2>1, <1>6, ReachedIsLeast
  <1>8. \A b \in Nodes : b \notin F(b)
    BY <1>1, <1>4, <1>7
  <1>9. ASSUME NEW b \in Nodes, NEW p \in Nodes, b \in Ahead(p)
        PROVE  b \in F(p) /\ F(b) \subseteq F(p)
    <2>1. \A T \in SUBSET Nodes : Beyond(forward, T, {}) \subseteq T =>
                                    \A y \in T : Ahead(y) \subseteq T
      BY <1>6 DEF Beyond
    <2>2. b \in F(p)
      BY <1>6, <1>9 DEF Least
    <2>3. \A T \in SUBSET Nodes : Ahead(p) \subseteq T /\ Beyond(forward, T, {}) \subseteq T =>
                                    Ahead(b) \subseteq T
      BY <2>1, <1>9
    <2>4. F(b) \subseteq F(p)
      BY <2>3, <1>6 DEF Least
    <2> QED BY <2>2, <2>4
  <1>10. \A b \in Nodes : F(b) \in SUBSET Nodes
    BY <1>6 DEF Least
  <1> HIDE DEF F
  <1> SUFFICES ASSUME NEW C \in SUBSET Nodes, C # {}, \A d \in C : ~Entered(d, C)
               PROVE  FALSE
    BY DEF ReducibleGraph
  <1>11. \A d \in C : \E p \in C : d \in Ahead(p)
    <2> SUFFICES ASSUME NEW d \in C PROVE \E p \in C : d \in Ahead(p)
      OBVIOUS
    <2>1. PICK p \in C : Edge(p, d) /\ ~Over(d, p)
      BY DEF Entered
    <2> QED BY <2>1, <1>2 DEF Edge
  <1> DEFINE Fs == {F(b) : b \in C}
  <1>12. Fs \in SUBSET SUBSET Nodes /\ Fs # {}
    BY <1>10
  <1>13. PICK S \in Fs : \A T \in Fs : S \subseteq T => T = S
    <2> HIDE DEF Fs
    <2> QED BY <1>12, LargestSubset
  <1>14. PICK b \in C : S = F(b)
    BY <1>13
  <1>15. PICK p \in C : b \in Ahead(p)
    BY <1>11
  <1>16. F(p) = F(b) /\ b \in F(p)
    BY <1>9, <1>13, <1>14, <1>15
  <1> QED BY <1>8, <1>16

LEMMA LoopBegins ==
  ASSUME IsFiniteSet(Nodes), EntryNode \in Nodes, \A g \in Graphs : WholeFunction(g), LoopInit
  PROVE  SccInv /\ LoopInv
  <1>1. /\ nodeGraph.nodes = Nodes /\ nodeGraph.succs \in [Nodes -> SUBSET Nodes]
        /\ nodeGraph = [nodes |-> nodeGraph.nodes, succs |-> nodeGraph.succs]
        /\ index = <<>> /\ low_link = <<>> /\ nodeStack = <<>> /\ calls = <<>> /\ result = {}
        /\ loop_set = {}
    BY LoopInfoAssumption DEF WholeFunction, LoopInit, SccInit
  <1>2. SccInv
    BY <1>1, SccBegins
  <1>3. FromEntry
    BY DEF WholeFunction, LoopInit, SccInit, FromEntry, Edge
  <1>4. LoopGraph
    BY <1>2, <1>3 DEF LoopGraph, SccInv
  <1>5. LoopsWhole
    BY <1>1 DEF LoopsWhole, Natural
  <1>6. LoopsFound /\ LoopsTaken
    BY <1>1 DEF LoopsFound, LoopsTaken
  <1>7. Regions
    <2> DEFINE D == Nodes \ {EntryNode}
    <2>1. \A y \in D : Over(EntryNode, y)
      <3> SUFFICES ASSUME NEW y \in D
                   PROVE  \E T \in SUBSET (Nodes \ {y}) :
                              /\ {EntryNode} \ {EntryNode} \subseteq T
                              /\ \A z \in T : nodeGraph.succs[z] \ {EntryNode} \subseteq T
        BY DEF Over
      <3> WITNESS {} \in SUBSET (Nodes \ {y})
      <3> QED OBVIOUS
    <2>2. \A n \in D, p \in Nodes : p \in D \cup {EntryNode}
      OBVIOUS
    <2> QED BY <1>1, <2>1, <2>2 DEF Regions
  <1> QED BY <1>2, <1>3, <1>5, <1>6, <1>7 DEF LoopInv

(* LoopInfo::run finds the natural loops of every function, whose blocks are *)
(* all reached from the entry and none branches to it: what find_scc splits, *)
(* in whatever order it goes over the sets of pointers, are the strongly     *)
(* connected components, and to leave the headers out and search again does  *)
(* not lose a loop within a loop.                                           *)
THEOREM LoopsAreNatural ==
  ASSUME IsFiniteSet(Nodes), EntryNode \in Nodes, \A g \in Graphs : WholeFunction(g)
  PROVE  LoopInit /\ [][LoopStep]_loopVars => []LoopsNatural
  <1>1. LoopInit => SccInv /\ LoopInv
    BY LoopBegins
  <1>2. SccInv /\ LoopInv /\ [LoopStep]_loopVars => SccInv' /\ LoopInv'
    BY LoopKept
  <1>3. SccInv /\ LoopInv => LoopsNatural
    <2> SUFFICES ASSUME SccInv, LoopInv, LoopsDone PROVE LoopsNatural
      BY DEF LoopsNatural
    <2>1. LoopGraph
      BY DEF LoopInv, LoopGraph, SccInv
    <2>2. nodeGraph.nodes = {}
      BY SccEnds DEF LoopsDone
    <2>3. \A l : l \in NaturalLoops(Successors, EntryNode) <=>
                    \E h \in Nodes : Sources(h) # {} /\ l = LoopAt(h)
      BY <2>1, NaturalLoopsAre
    <2>4. loop_set \subseteq NaturalLoops(Successors, EntryNode)
      BY <2>3 DEF LoopInv, LoopsFound
    <2>5. ASSUME Reducible(Successors, EntryNode)
          PROVE  NaturalLoops(Successors, EntryNode) \subseteq loop_set
      <3>1. ReducibleGraph
        BY <2>1, <2>5, ReducibleMeans
      <3> QED BY <2>2, <2>3, <3>1 DEF LoopInv, LoopsTaken
    <2> QED BY <2>4, <2>5 DEF LoopsNatural
  <1> QED BY <1>1, <1>2, <1>3, PTL

-----------------------------------------------------------------------------
(* The loops are nested or apart, and bb2base has the innermost of a block.  *)

BasesTaken == \A l \in loop_set : l.base \notin nodeGraph.nodes

Nested ==
    \A l, m \in loop_set :
        l.blocks \cap m.blocks = {} \/ l.blocks \subseteq m.blocks \/ m.blocks \subseteq l.blocks

InnermostKnown ==
    /\ DOMAIN bb2base = BlocksOf(loop_set)
    /\ \A b \in DOMAIN bb2base :
            \E l \in loop_set :
                /\ l.base = bb2base[b] /\ b \in l.blocks
                /\ \A m \in loop_set : b \in m.blocks => l.blocks \subseteq m.blocks

NestInv == BasesTaken /\ Nested /\ InnermostKnown

(* What is found later lies in the loops that it meets. *)
LEMMA FoundWithin ==
  ASSUME LoopGraph, NEW h \in Nodes, h \notin nodeGraph.nodes, NEW C, Component(C),
         C \cap Natural(h) # {}
  PROVE  C \subseteq Natural(h)
  <1> DEFINE S == C \ Natural(h)
  <1>1. C \subseteq nodeGraph.nodes
    BY DEF Component
  <1>2. \A x \in S : Edges(x) \cap C \subseteq S
    <2> SUFFICES ASSUME NEW x \in S, NEW z \in Edges(x) \cap C, z \in Natural(h) PROVE FALSE
      OBVIOUS
    <2>1. x \in Nodes /\ Edge(x, z) /\ z # h
      BY <1>1, GraphFacts DEF Edges, Edge
    <2> QED BY <2>1, NaturalPred
  <1>3. S \in SUBSET C /\ S # C
    OBVIOUS
  <1> HIDE DEF S
  <1>4. S = {}
    BY <1>2, <1>3 DEF Component
  <1> QED BY <1>4 DEF S

LEMMA CollectNests ==
  ASSUME IsFiniteSet(Nodes), SccInv, LoopInv, NestInv, Collect
  PROVE  NestInv'
  <1> DEFINE left == nodeGraph.nodes \ Taken(result)
             found == {[base |-> HeaderOf(scc), blocks |-> scc] :
                            scc \in {c \in result : HasHeader(c)}}
  <1>1. /\ SccDone /\ loop_set' = loop_set \cup found /\ bb2base' = Innermost(found)
        /\ nodeGraph' = [nodeGraph EXCEPT !.nodes = left]
    BY DEF Collect
  <1>2. LoopGraph /\ LoopsFound /\ BasesTaken /\ Nested /\ InnermostKnown
    BY DEF LoopInv, LoopGraph, SccInv, NestInv
  <1>3. nodeGraph'.nodes = left
    <2>1. nodeGraph = [nodes |-> nodeGraph.nodes, succs |-> nodeGraph.succs]
      BY <1>2 DEF LoopGraph, SccType
    <2> QED BY <1>1, <2>1
  <1>4. \A C \in result : Component(C) /\ C # {}
    BY <1>1, SccEnds DEF Components, Component
  <1>5. \A l : l \in found <=>
            \E C \in result : HasHeader(C) /\ l = [base |-> HeaderOf(C), blocks |-> C]
    OBVIOUS
  <1>6. \A C \in result : HasHeader(C) => HeaderOf(C) \notin left
    <2> SUFFICES ASSUME NEW C \in result, HasHeader(C) PROVE HeaderOf(C) \in Taken(result)
      OBVIOUS
    <2>1. Headers(C) = {HeaderOf(C)}
      BY <1>2, <1>4, OnlyHeader
    <2> QED BY <2>1, <1>1, TakenFacts
  <1>7. left \subseteq nodeGraph.nodes
    OBVIOUS
  <1> HIDE DEF left, found
  <1>8. \A l \in found, m \in loop_set :
            l.blocks \cap m.blocks # {} => l.blocks \subseteq m.blocks
    <2> SUFFICES ASSUME NEW l \in found, NEW m \in loop_set, l.blocks \cap m.blocks # {}
                 PROVE  l.blocks \subseteq m.blocks
      OBVIOUS
    <2>1. PICK C \in result : HasHeader(C) /\ l = [base |-> HeaderOf(C), blocks |-> C]
      BY <1>5
    <2>2. PICK h \in Nodes : m = LoopAt(h)
      BY <1>2 DEF LoopsFound
    <2>3. m.base = h /\ m.blocks = Natural(h) /\ l.blocks = C
      BY <2>1, <2>2 DEF LoopAt
    <2>4. h \notin nodeGraph.nodes
      BY <2>3, <1>2 DEF BasesTaken
    <2> QED BY <2>3, <2>4, <1>2, <1>4, FoundWithin
  <1>9. \A l, m \in found : l.blocks \cap m.blocks # {} => l = m
    <2> SUFFICES ASSUME NEW l \in found, NEW m \in found, l.blocks \cap m.blocks # {}
                 PROVE  l = m
      OBVIOUS
    <2>1. PICK C \in result : HasHeader(C) /\ l = [base |-> HeaderOf(C), blocks |-> C]
      BY <1>5
    <2>2. PICK D \in result : HasHeader(D) /\ m = [base |-> HeaderOf(D), blocks |-> D]
      BY <1>5
    <2>3. C \cap D # {}
      BY <2>1, <2>2
    <2>4. C = D
      BY <2>3, <1>4, ComponentsApart
    <2> QED BY <2>1, <2>2, <2>4
  <1>10. BasesTaken'
    <2> SUFFICES ASSUME NEW l \in loop_set' PROVE l.base \notin left
      BY <1>3 DEF BasesTaken
    <2>1. CASE l \in loop_set
      BY <2>1, <1>2, <1>7 DEF BasesTaken
    <2>2. CASE l \in found
      BY <2>2, <1>5, <1>6
    <2> QED BY <2>1, <2>2, <1>1
  <1>11. Nested'
    <2> SUFFICES ASSUME NEW l \in loop_set', NEW m \in loop_set'
                 PROVE  \/ l.blocks \cap m.blocks = {}
                        \/ l.blocks \subseteq m.blocks \/ m.blocks \subseteq l.blocks
      BY DEF Nested
    <2>1. CASE l \in loop_set /\ m \in loop_set
      BY <2>1, <1>2 DEF Nested
    <2>2. CASE l \in found /\ m \in loop_set
      BY <2>2, <1>8
    <2>3. CASE l \in loop_set /\ m \in found
      <3>1. m.blocks \cap l.blocks # {} => m.blocks \subseteq l.blocks
        BY <2>3, <1>8
      <3> QED BY <3>1
    <2>4. CASE l \in found /\ m \in found
      BY <2>4, <1>9
    <2> QED BY <2>1, <2>2, <2>3, <2>4, <1>1
  <1>12. InnermostKnown'
    <2>1. \A L : \A b : b \in BlocksOf(L) <=> \E l \in L : b \in l.blocks
      BY DEF BlocksOf
    <2>2. DOMAIN bb2base' = BlocksOf(found) \cup DOMAIN bb2base
      BY <1>1 DEF Innermost
    <2>3. DOMAIN bb2base = BlocksOf(loop_set)
      BY <1>2 DEF InnermostKnown
    <2>4. DOMAIN bb2base' = BlocksOf(loop_set')
      BY <2>1, <2>2, <2>3, <1>1
    <2> SUFFICES ASSUME NEW b \in DOMAIN bb2base'
                 PROVE  \E l \in loop_set' :
                            /\ l.base = bb2base'[b] /\ b \in l.blocks
                            /\ \A m \in loop_set' : b \in m.blocks => l.blocks \subseteq m.blocks
      BY <2>4 DEF InnermostKnown, BlocksOf
    <2>5. CASE b \in BlocksOf(found)
      <3> DEFINE l == CHOOSE l \in found : b \in l.blocks
      <3>1. l \in found /\ b \in l.blocks
        BY <2>1, <2>5
      <3>2. bb2base'[b] = l.base
        BY <2>5, <1>1 DEF Innermost, BaseIn
      <3> HIDE DEF l
      <3>3. \A m \in loop_set' : b \in m.blocks => l.blocks \subseteq m.blocks
        <4> SUFFICES ASSUME NEW m \in loop_set', b \in m.blocks PROVE l.blocks \subseteq m.blocks
          OBVIOUS
        <4>1. CASE m \in loop_set
          BY <4>1, <3>1, <1>8
        <4>2. CASE m \in found
          BY <4>2, <3>1, <1>9
        <4> QED BY <4>1, <4>2, <1>1
      <3> QED BY <3>1, <3>2, <3>3, <1>1
    <2>6. CASE b \notin BlocksOf(found)
      <3>1. b \in DOMAIN bb2base /\ bb2base'[b] = bb2base[b]
        BY <2>2, <2>6, <1>1 DEF Innermost
      <3>2. PICK l \in loop_set :
                /\ l.base = bb2base[b] /\ b \in l.blocks
                /\ \A m \in loop_set : b \in m.blocks => l.blocks \subseteq m.blocks
        BY <3>1, <1>2 DEF InnermostKnown
      <3>3. \A m \in found : b \notin m.blocks
        BY <2>1, <2>6
      <3> QED BY <3>1, <3>2, <3>3, <1>1
    <2> QED BY <2>5, <2>6
  <1> QED BY <1>10, <1>11, <1>12 DEF NestInv

LEMMA NestKept ==
  ASSUME IsFiniteSet(Nodes), SccInv, LoopInv, NestInv, [LoopStep]_loopVars
  PROVE  NestInv'
  <1>1. CASE Collect
    BY <1>1, CollectNests
  <1>2. CASE nodeGraph' = nodeGraph /\ loop_set' = loop_set /\ bb2base' = bb2base
    <2>1. BlocksOf(loop_set)' = BlocksOf(loop_set)
      BY <1>2 DEF BlocksOf
    <2> QED BY <1>2, <2>1 DEF NestInv, BasesTaken, Nested, InnermostKnown
  <1>3. Collect \/ (nodeGraph' = nodeGraph /\ loop_set' = loop_set /\ bb2base' = bb2base)
    BY DEF LoopStep, loopVars, SccStep, Root, Descend, Ascend, Meet, Leave
  <1> QED BY <1>1, <1>2, <1>3

(* Of two loops with the same blocks each header dominates the other. *)
LEMMA LoopByBlocks ==
  ASSUME LoopGraph, LoopsFound, NEW l \in loop_set, NEW m \in loop_set
  PROVE  /\ l.base \in Nodes /\ l = LoopAt(l.base) /\ l.blocks = Natural(l.base)
         /\ Sources(l.base) # {}
         /\ l.blocks = m.blocks => l = m
         /\ l.base = m.base => l = m
  <1>1. PICK g \in Nodes : Sources(g) # {} /\ l = LoopAt(g)
    BY DEF LoopsFound
  <1>2. PICK h \in Nodes : m = LoopAt(h)
    BY DEF LoopsFound
  <1>3. l.base = g /\ l.blocks = Natural(g) /\ m.base = h /\ m.blocks = Natural(h)
    BY <1>1, <1>2 DEF LoopAt
  <1>4. ASSUME Natural(g) = Natural(h) PROVE g = h
    <2>1. g \in Natural(h) /\ h \in Natural(g)
      BY <1>4 DEF Natural
    <2>2. Over(g, h) /\ Over(h, g)
      BY <2>1, OverNatural
    <2> QED BY <2>2, OverAntisymmetric
  <1> QED BY <1>1, <1>2, <1>3, <1>4

(* From a block of a loop an edge stays in the loop. *)
LEMMA LoopGoesOn ==
  ASSUME LoopGraph, NEW h \in Nodes, Sources(h) # {}, NEW x \in Natural(h) \cap Nodes
  PROVE  \E z \in Natural(h) : Edge(x, z)
  <1> DEFINE L == Natural(h)
  <1> SUFFICES ASSUME \A z \in L : ~Edge(x, z) PROVE FALSE
    OBVIOUS
  <1>1. PICK p \in Sources(h) : TRUE
    OBVIOUS
  <1>2. p \in L /\ Edge(p, h) /\ h \in L /\ p \in Nodes
    BY SourceInLoop DEF Sources, Natural
  <1>3. \A y \in L, q \in Nodes : y # h /\ Edge(q, y) => q \in L
    BY NaturalPred
  <1>4. \A y \in L : Over(h, y)
    BY OverNatural
  <1>5. CASE x # h
    <2>1. PICK q \in Sources(h) : Leads(x, q, h)
      BY <1>5 DEF Natural
    <2> DEFINE T == {x} \cup (Nodes \ L)
    <2>2. q \in L /\ Edge(q, h)
      BY SourceInLoop DEF Sources
    <2> HIDE DEF L
    <2>3. T \in SUBSET Nodes /\ x \in T
      BY DEF L
    <2>4. \A y \in T : nodeGraph.succs[y] \ {h} \subseteq T
      <3> SUFFICES ASSUME NEW y \in T, NEW z \in nodeGraph.succs[y], z # h, z \in L PROVE FALSE
        BY <2>3, GraphFacts
      <3>1. y \in Nodes /\ Edge(y, z)
        BY <2>3, GraphFacts
      <3> QED BY <3>1, <1>3
    <2>5. q \in T
      BY <2>1, <2>3, <2>4 DEF Leads
    <2>6. q = x
      BY <2>2, <2>5
    <2> QED BY <2>2, <2>6, <1>2
  <1>6. CASE x = h
    <2> DEFINE Bad == L \ {h}
    <2> HIDE DEF L
    <2>1. \A y \in Bad, q \in Nodes : Edge(q, y) => q \in Bad
      BY <1>3, <1>6
    <2>2. EntryNode \notin Bad
      BY <1>4, OverEntry
    <2>3. Nodes \ Bad = Nodes
      <3>1. \A y \in Nodes \ Bad : nodeGraph.succs[y] \subseteq Nodes \ Bad
        BY <2>1, GraphFacts
      <3>2. EntryNode \in Nodes \ Bad
        BY <2>2, GraphFacts
      <3> QED BY <3>1, <3>2 DEF LoopGraph, FromEntry
    <2>4. p \notin Bad
      BY <2>3, <1>2
    <2> QED BY <2>4, <1>2, <1>6
  <1> QED BY <1>5, <1>6

LEMMA ParentFound ==
  ASSUME IsFiniteSet(Nodes), LoopGraph, LoopsFound, NestInv,
         NEW loop \in loop_set, NEW prev \in Prevs(loop.base) \ loop.blocks
  PROVE  \/ Parent(loop, prev) = ParentOf(loop_set, loop)
         \/ Parent(loop, prev) = {} /\ Cardinality(nodeGraph.succs[prev]) > 1
  <1> DEFINE b == loop.base
             around == {l \in loop_set \ {loop} : loop.blocks \subseteq l.blocks}
  <1>1. prev \in Nodes /\ Edge(prev, b) /\ prev \notin loop.blocks
    BY DEF Prevs, Edge
  <1>2. b \in Nodes /\ loop.blocks = Natural(b) /\ b \in loop.blocks
    BY LoopByBlocks DEF Natural
  <1>3. /\ DOMAIN bb2base = BlocksOf(loop_set)
        /\ \A x \in DOMAIN bb2base :
            \E l \in loop_set :
                /\ l.base = bb2base[x] /\ x \in l.blocks
                /\ \A m \in loop_set : x \in m.blocks => l.blocks \subseteq m.blocks
    BY DEF NestInv, InnermostKnown
  <1>4. ParentOf(loop_set, loop) = {l \in around : \A m \in around : l.blocks \subseteq m.blocks}
    BY DEF ParentOf
  <1>5. \A m \in around : prev \in m.blocks
    <2> SUFFICES ASSUME NEW m \in around PROVE prev \in m.blocks
      OBVIOUS
    <2>1. m.blocks = Natural(m.base) /\ (m.base = b => m = loop)
      BY LoopByBlocks
    <2>2. b \in Natural(m.base) /\ b # m.base
      BY <2>1, <1>2
    <2> QED BY <2>1, <2>2, <1>1, NaturalPred
  <1>6. \A m \in loop_set : prev \in m.blocks => prev \in DOMAIN bb2base
    BY <1>3 DEF BlocksOf
  <1> HIDE DEF around, b
  <1>7. CASE prev \notin DOMAIN bb2base
    <2>1. Parent(loop, prev) = {}
      BY <1>7 DEF Parent, LoopOf
    <2>2. around = {}
      BY <1>5, <1>6, <1>7 DEF around
    <2> QED BY <2>1, <2>2, <1>4
  <1>8. CASE prev \in DOMAIN bb2base
    <2>1. PICK l \in loop_set :
            /\ l.base = bb2base[prev] /\ prev \in l.blocks
            /\ \A m \in loop_set : prev \in m.blocks => l.blocks \subseteq m.blocks
      BY <1>3, <1>8
    <2>2. LoopOf(prev) = {l}
      <3>1. \A m \in loop_set : m.base = l.base => m = l
        BY LoopByBlocks
      <3> QED BY <3>1, <2>1, <1>8 DEF LoopOf
    <2>3. CASE b \in l.blocks
      <3>1. Parent(loop, prev) = {l}
        BY <2>2, <2>3 DEF Parent, b
      <3>2. loop.blocks \subseteq l.blocks
        BY <2>1, <2>3, <1>1, <1>2 DEF NestInv, Nested
      <3>3. l \in around
        BY <3>2, <2>1, <1>1 DEF around
      <3>4. \A m \in around : l.blocks \subseteq m.blocks
        BY <2>1, <1>5 DEF around
      <3>5. \A m \in around : m.blocks \subseteq l.blocks => m = l
        <4> SUFFICES ASSUME NEW m \in around, m.blocks \subseteq l.blocks PROVE m = l
          OBVIOUS
        <4>1. m \in loop_set /\ m.blocks = l.blocks
          BY <3>4 DEF around
        <4> QED BY <4>1, LoopByBlocks
      <3> QED BY <3>1, <3>3, <3>4, <3>5, <1>4
    <2>4. CASE b \notin l.blocks
      <3>1. Parent(loop, prev) = {}
        BY <2>2, <2>4 DEF Parent, b
      <3>2. l.base \in Nodes /\ Sources(l.base) # {} /\ l.blocks = Natural(l.base)
        BY LoopByBlocks
      <3>3. PICK z \in l.blocks : Edge(prev, z)
        BY <3>2, <2>1, <1>1, LoopGoesOn
      <3>4. z \in nodeGraph.succs[prev] /\ b \in nodeGraph.succs[prev] /\ z # b
        BY <3>3, <2>4, <1>1 DEF Edge
      <3>5. IsFiniteSet(nodeGraph.succs[prev])
        <4>1. nodeGraph.succs[prev] \in SUBSET Nodes
          BY <1>1, GraphFacts
        <4> QED BY <4>1, FS_Subset
      <3>6. Cardinality(nodeGraph.succs[prev]) > 1
        <4>1. Cardinality(nodeGraph.succs[prev]) \in Nat
          BY <3>5, FS_CardinalityType
        <4>2. Cardinality(nodeGraph.succs[prev]) # 0
          BY <3>4, <3>5, FS_EmptySet
        <4>3. Cardinality(nodeGraph.succs[prev]) # 1
          BY <3>4, <3>5, FS_Singleton
        <4> QED BY <4>1, <4>2, <4>3
      <3> QED BY <3>1, <3>6
    <2> QED BY <2>3, <2>4
  <1> QED BY <1>7, <1>8

(* get_parent, which reads bb2base where run left it, finds the smallest   *)
(* loop around a loop, or none: after any round the innermost loop that a  *)
(* block has is the smallest found around it, and a loop found later lies  *)
(* within the earlier ones it meets.                                       *)
THEOREM ParentsEnclose ==
  ASSUME IsFiniteSet(Nodes), EntryNode \in Nodes, \A g \in Graphs : WholeFunction(g)
  PROVE  LoopInit /\ [][LoopStep]_loopVars => []ParentEncloses
  <1> DEFINE Inv == SccInv /\ LoopInv /\ NestInv
  <1>1. LoopInit => Inv
    <2> SUFFICES ASSUME LoopInit PROVE Inv
      OBVIOUS
    <2>1. loop_set = {} /\ bb2base = <<>>
      BY DEF LoopInit
    <2>2. BlocksOf(loop_set) = {} /\ DOMAIN bb2base = {}
      BY <2>1 DEF BlocksOf
    <2>3. NestInv
      BY <2>1, <2>2 DEF NestInv, BasesTaken, Nested, InnermostKnown
    <2> QED BY <2>3, LoopBegins
  <1>2. Inv /\ [LoopStep]_loopVars => Inv'
    BY LoopKept, NestKept
  <1>3. Inv => ParentEncloses
    BY ParentFound DEF ParentEncloses, LoopInv, LoopGraph, SccInv
  <1> QED BY <1>1, <1>2, <1>3, PTL

=============================================================================
