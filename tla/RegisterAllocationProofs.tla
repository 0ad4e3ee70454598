------------------------ MODULE RegisterAllocationProofs ------------------------
(***************************************************************************)
(* For every set of well-formed functions, the live range analysis ends    *)
(* with the live sets of the definition (LivenessExact), and values that   *)
(* are live at a common point get intervals that meet (InterferenceKept).  *)
(* Together with the scan, whose proofs are taken from LinearScanProofs,    *)
(* no two of them share a register (RefinesAllocation).                    *)
(*                                                                         *)
(* The argument has four parts.  Live, defined by paths, is the least      *)
(* solution of the equations of liveness (LiveIsLeast).  The numbering of  *)
(* make_id lets the sets be read by instruction and copy, whatever their   *)
(* numbers (Numbering).  SweepInv is the invariant of the sweeps: no set   *)
(* exceeds any solution of the equations; a block that has been visited    *)
(* keeps satisfying its own equations; and while no set has grown, what    *)
(* enters a block is seen by the predecessors already visited.  So a sweep *)
(* without growth has reached a fixed point (SweepEnds), which is within   *)
(* every solution and is one itself (FixedIsExact).  DfsInv, the invariant *)
(* of get_dfs_order, says that the sweeps visit every block once.          *)
(***************************************************************************)
EXTENDS RegisterAllocation, Lemmas

-----------------------------------------------------------------------------
(* Live is the least solution of the equations of liveness. *)

(* What is live one step before the pairs of S. *)
Back(flow, S) == UNION {{<<l[1], e[1]>> : e \in {g \in flow : g[2] = l[2]}} : l \in S}

Further(flow, defined, far) ==
    LET fresh == Back(flow, far.last) \ (defined \cup far.all)
    IN  [last |-> fresh, all |-> far.all \cup fresh]

IsBack(V, P, flow, S) ==
    \A v \in V, p \in P : <<v, p>> \in Back(flow, S) <=> \E s \in P : <<p, s>> \in flow /\ <<v, s>> \in S

(* Back steps against the flow. *)
LEMMA BackIs ==
  ASSUME NEW V, NEW P, NEW flow \in SUBSET (P \X P), NEW S \in SUBSET (V \X P)
  PROVE  /\ Back(flow, S) \in SUBSET (V \X P)
         /\ IsBack(V, P, flow, S)
  <1>1. \A x : x \in Back(flow, S) <=> \E l \in S : \E e \in flow : e[2] = l[2] /\ x = <<l[1], e[1]>>
    BY DEF Back
  <1>2. ASSUME NEW l \in S, NEW e \in flow, e[2] = l[2]
        PROVE  /\ l[1] \in V /\ e[1] \in P /\ l[2] \in P
               /\ l = <<l[1], l[2]>> /\ e = <<e[1], l[2]>>
    BY <1>2
  <1>3. Back(flow, S) \in SUBSET (V \X P)
    BY <1>1, <1>2
  <1>4. ASSUME NEW v \in V, NEW p \in P, <<v, p>> \in Back(flow, S)
        PROVE  \E s \in P : <<p, s>> \in flow /\ <<v, s>> \in S
    <2>1. PICK l \in S : \E e \in flow : e[2] = l[2] /\ <<v, p>> = <<l[1], e[1]>>
      BY <1>1, <1>4
    <2>2. PICK e \in flow : e[2] = l[2] /\ <<v, p>> = <<l[1], e[1]>>
      BY <2>1
    <2>3. v = l[1] /\ p = e[1]
      BY <2>2
    <2> QED BY <1>2, <2>2, <2>3
  <1>5. ASSUME NEW v \in V, NEW p \in P, NEW s \in P, <<p, s>> \in flow, <<v, s>> \in S
        PROVE  <<v, p>> \in Back(flow, S)
    <2> DEFINE l == <<v, s>>
               e == <<p, s>>
    <2>1. l \in S /\ e \in flow /\ e[2] = l[2] /\ l[1] = v /\ e[1] = p
      BY <1>5
    <2> HIDE DEF l, e
    <2> QED BY <1>1, <2>1
  <1> QED BY <1>3, <1>4, <1>5 DEF IsBack

(* far[k].last are the pairs that are k steps and no fewer before a use.     *)
IsFar(far, N, flow, uses, defined) ==
    /\ far[0] = [last |-> uses, all |-> uses]
    /\ \A k \in 1 .. N : far[k] = Further(flow, defined, far[k - 1])

IsLeastPairs(V, P, flow, uses, defined, A) ==
    /\ A \in SUBSET (V \X P) /\ uses \subseteq A
    /\ Back(flow, A) \subseteq A \cup defined
    /\ \A C \in SUBSET (V \X P) :
            uses \subseteq C /\ Back(flow, C) \subseteq C \cup defined => A \subseteq C

(* Nothing is left after as many steps as there are points: a value is live  *)
(* at one point more after each.                                            *)
LEMMA FarEnds ==
  ASSUME NEW V, NEW P, IsFiniteSet(P), NEW N \in Nat, N = Cardinality(P),
         NEW flow \in SUBSET (P \X P), NEW uses \in SUBSET (V \X P), NEW defined,
         NEW far, IsFar(far, N, flow, uses, defined)
  PROVE  IsLeastPairs(V, P, flow, uses, defined, far[N].all)
  <1> DEFINE at(S, v) == {p \in P : <<v, p>> \in S}
             Old(k) == far[k].all \ far[k].last
             Good(k) ==
                /\ far[k].last \in SUBSET (V \X P) /\ far[k].all \in SUBSET (V \X P)
                /\ uses \subseteq far[k].all /\ far[k].last \subseteq far[k].all
                /\ Back(flow, Old(k)) \subseteq far[k].all \cup defined
                /\ \A v \in V : at(far[k].last, v) # {} => Cardinality(at(far[k].all, v)) >= k + 1
                /\ \A C \in SUBSET (V \X P) :
                    uses \subseteq C /\ Back(flow, C) \subseteq C \cup defined => far[k].all \subseteq C
             T == {k \in 0 .. N : Good(k)}
  <1>0. \A S, v : IsFiniteSet(at(S, v)) /\ Cardinality(at(S, v)) \in Nat /\ Cardinality(at(S, v)) <= N
    <2> SUFFICES ASSUME NEW S, NEW v
                 PROVE  IsFiniteSet(at(S, v)) /\ Cardinality(at(S, v)) \in Nat /\ Cardinality(at(S, v)) <= N
      OBVIOUS
    <2>1. at(S, v) \subseteq P
      OBVIOUS
    <2> QED BY <2>1, FS_Subset, FS_CardinalityType
  <1>1. 0 \in T
    <2>1. far[0] = [last |-> uses, all |-> uses]
      BY DEF IsFar
    <2>2. far[0].last = uses /\ far[0].all = uses
      BY <2>1
    <2>3. Back(flow, Old(0)) = {}
      BY <2>2 DEF Back
    <2>4. ASSUME NEW v \in V, at(uses, v) # {} PROVE Cardinality(at(uses, v)) >= 1
      <3>1. Cardinality(at(uses, v)) # 0
        BY <1>0, <2>4, FS_EmptySet
      <3>2. Cardinality(at(uses, v)) \in Nat
        BY <1>0
      <3> QED BY <3>1, <3>2
    <2>5. \A v \in V : at(far[0].last, v) # {} => Cardinality(at(far[0].all, v)) >= 0 + 1
      <3> HIDE DEF at
      <3> QED BY <2>2, <2>4
    <2>6. Good(0)
      <3> HIDE DEF at
      <3> QED BY <2>2, <2>3, <2>5
    <2> HIDE DEF Good
    <2> QED BY <2>6
  <1>2. ASSUME NEW k \in 1 .. N, k - 1 \in T PROVE k \in T
    <2> DEFINE r == far[k - 1]
               t == far[k]
    <2>1. Good(k - 1) /\ k \in Nat /\ k \in 0 .. N
      <3> HIDE DEF Good
      <3> QED BY <1>2
    <2>2. t = Further(flow, defined, r)
      BY DEF IsFar
    <2> HIDE DEF r, t
    <2>3. r.last \in SUBSET (V \X P) /\ r.all \in SUBSET (V \X P) /\ uses \subseteq r.all /\ r.last \subseteq r.all
      BY <2>1 DEF r
    <2>4. /\ t.last \in SUBSET (V \X P) /\ t.all \in SUBSET (V \X P)
          /\ t.last = Back(flow, r.last) \ (defined \cup r.all)
          /\ t.all = r.all \cup t.last
      <3> DEFINE S == r.last
      <3>1. S \in SUBSET (V \X P)
        BY <2>3
      <3> HIDE DEF S, Good, at
      <3>2. Back(flow, S) \in SUBSET (V \X P)
        BY <3>1, BackIs
      <3>3. t.last = Back(flow, r.last) \ (defined \cup r.all) /\ t.all = r.all \cup t.last
        BY <2>2 DEF Further
      <3> QED BY <2>3, <3>2, <3>3 DEF S
    <2>5. uses \subseteq t.all /\ t.last \subseteq t.all
      BY <2>3, <2>4
    <2>6. Back(flow, t.all \ t.last) \subseteq t.all \cup defined
      <3>1. Back(flow, r.all \ r.last) \subseteq r.all \cup defined
        BY <2>1 DEF r
      <3>2. Back(flow, r.last) \subseteq t.all \cup defined
        BY <2>4
      <3>3. t.all \ t.last \subseteq (r.all \ r.last) \cup r.last
        BY <2>4
      <3>4. \A A, B, C : A \subseteq B \cup C => Back(flow, A) \subseteq Back(flow, B) \cup Back(flow, C)
        BY DEF Back
      <3>5. Back(flow, t.all \ t.last) \subseteq Back(flow, r.all \ r.last) \cup Back(flow, r.last)
        BY <3>3, <3>4
      <3> QED BY <2>4, <3>1, <3>2, <3>5
    <2>7. ASSUME NEW v \in V, at(t.last, v) # {} PROVE Cardinality(at(t.all, v)) >= k + 1
      <3>1. PICK p \in P : <<v, p>> \in t.last
        BY <2>7
      <3>2. <<v, p>> \in Back(flow, r.last) /\ <<v, p>> \notin r.all
        BY <2>4, <3>1
      <3>3. PICK s \in P : <<v, s>> \in r.last
        <4> DEFINE S == r.last
        <4>1. S \in SUBSET (V \X P) /\ <<v, p>> \in Back(flow, S)
          BY <2>3, <3>2
        <4> HIDE DEF S
        <4>2. IsBack(V, P, flow, S)
          BY <4>1, BackIs
        <4>3. \E s \in P : <<p, s>> \in flow /\ <<v, s>> \in S
          BY <4>1, <4>2, Zenon DEF IsBack
        <4> QED BY <4>3 DEF S
      <3>4. at(r.last, v) # {}
        BY <3>3
      <3>5. Cardinality(at(r.all, v)) >= (k - 1) + 1
        BY <2>1, <3>4 DEF r
      <3>6. p \notin at(r.all, v) /\ at(r.all, v) \cup {p} \subseteq at(t.all, v)
        BY <2>4, <3>1, <3>2
      <3>7. /\ IsFiniteSet(at(r.all, v)) /\ Cardinality(at(r.all, v)) \in Nat
            /\ IsFiniteSet(at(t.all, v)) /\ Cardinality(at(t.all, v)) \in Nat
        BY <1>0
      <3> HIDE DEF at
      <3>8. Cardinality(at(r.all, v) \cup {p}) = Cardinality(at(r.all, v)) + 1
        BY <3>6, <3>7, FS_AddElement
      <3>9. Cardinality(at(r.all, v) \cup {p}) <= Cardinality(at(t.all, v))
        BY <3>6, <3>7, FS_Subset
      <3> QED BY ONLY <2>1, <3>5, <3>7, <3>8, <3>9
    <2>8. ASSUME NEW C \in SUBSET (V \X P), uses \subseteq C, Back(flow, C) \subseteq C \cup defined
          PROVE  t.all \subseteq C
      <3>1. r.all \subseteq C
        BY <2>1, <2>8 DEF r
      <3>2. Back(flow, r.last) \subseteq Back(flow, C)
        BY <2>3, <3>1 DEF Back
      <3> QED BY <2>4, <2>8, <3>1, <3>2
    <2>9. Good(k)
      <3> HIDE DEF at
      <3> QED BY <2>4, <2>5, <2>6, <2>7, <2>8 DEF t
    <2> HIDE DEF Good
    <2> QED BY <2>1, <2>9
  <1> HIDE DEF Good
  <1>3. Good(N)
    <2>1. 0 .. N \subseteq T
      <3> HIDE DEF T
      <3> QED BY <1>1, <1>2, UpTo
    <2> QED BY <2>1
  <1>4. far[N].last = {}
    <2> SUFFICES ASSUME NEW x \in far[N].last PROVE FALSE
      OBVIOUS
    <2>1. PICK v \in V : \E p \in P : x = <<v, p>>
      BY <1>3 DEF Good
    <2>2. at(far[N].last, v) # {}
      BY <2>1
    <2>3. Cardinality(at(far[N].all, v)) >= N + 1
      BY <1>3, <2>2 DEF Good
    <2>4. Cardinality(at(far[N].all, v)) \in Nat /\ Cardinality(at(far[N].all, v)) <= N
      BY <1>0
    <2> QED BY ONLY <2>3, <2>4, N \in Nat
  <1>5. Old(N) = far[N].all
    BY <1>4
  <1> QED BY <1>3, <1>5 DEF Good, IsLeastPairs

-----------------------------------------------------------------------------
(* Functions. *)
BlocksOf(g) == ToSet(g.order)
First(g) == Head(g.order)
Width(g, b) == Len(g.body[b])
InstrsOf(g) == [def : ValuesOf(g) \cup {Null}, uses : SUBSET ValuesOf(g)]
CopiesOf(g) == [dst : ValuesOf(g), src : ValuesOf(g) \cup {Null}]

Shaped(g) ==
    /\ IsFiniteSet(BlocksOf(g)) /\ First(g) \in BlocksOf(g) /\ Null \notin ValuesOf(g)
    /\ \A b \in BlocksOf(g) :
        /\ g.succ[b] \in Seq(BlocksOf(g)) /\ ToSet(g.succ[b]) \subseteq BlocksOf(g) \ {First(g)}
        /\ Width(g, b) \in Nat \ {0} /\ g.body[b] \in Seq(InstrsOf(g))
        /\ \A i \in 1 .. Width(g, b) : g.body[b][i] \in InstrsOf(g)
        /\ g.body[b][Width(g, b)].def = Null
        /\ PhiMapOf(g, b) \in Seq(CopiesOf(g)) /\ ToSet(PhiMapOf(g, b)) \subseteq CopiesOf(g)

(* A sequence and what stands in it. *)
LEMMA InSeq ==
  ASSUME NEW S, NEW s \in Seq(S)
  PROVE  ToSet(s) \subseteq S /\ IsFiniteSet(ToSet(s)) /\ DOMAIN s = 1 .. Len(s) /\ Len(s) \in Nat
  <1>1. Len(s) \in Nat /\ DOMAIN s = 1 .. Len(s) /\ \A i \in 1 .. Len(s) : s[i] \in S
    OBVIOUS
  <1>2. ToSet(s) \subseteq S
    BY <1>1 DEF ToSet
  <1>3. IsFiniteSet(1 .. Len(s))
    BY <1>1, FS_Interval
  <1>4. s \in Surjection(1 .. Len(s), ToSet(s))
    BY <1>1 DEF Surjection, ToSet
  <1>5. IsFiniteSet(ToSet(s))
    BY <1>3, <1>4, FS_Surjection
  <1> QED BY <1>1, <1>2, <1>5

(* get_phi_map makes copies of values of the function. *)
LEMMA PhiMapType ==
  ASSUME NEW g, WellFormed(g), NEW b
  PROVE  PhiMapOf(g, b) \in Seq(CopiesOf(g))
  <1> DEFINE V == ValuesOf(g) \cup {Null}
             Inc == UNION {[P -> V] : P \in SUBSET BlocksOf(g)}
             F == [dst : ValuesOf(g), inc : Inc]
             lists == [i \in DOMAIN g.order |-> g.phis[g.order[i]]]
             phis == FlattenSeq(lists)
             copies == [i \in DOMAIN phis |->
                IF b \in DOMAIN phis[i].inc
                THEN <<[dst |-> phis[i].dst, src |-> phis[i].inc[b]]>> ELSE <<>>]
  <1>1. /\ g.order \in Seq(BlocksOf(g))
        /\ \A c \in BlocksOf(g) : g.phis[c] \in Seq(F)
    BY DEF WellFormed, BlocksOf
  <1> HIDE DEF F
  <1>2. DOMAIN g.order = 1 .. Len(g.order) /\ Len(g.order) \in Nat /\ \A i \in DOMAIN g.order : g.order[i] \in BlocksOf(g)
    BY <1>1, InSeq
  <1>3. lists \in Seq(Seq(F))
    <2>1. \A i \in 1 .. Len(g.order) : g.phis[g.order[i]] \in Seq(F)
      BY <1>1, <1>2
    <2> QED BY <1>2, <2>1
  <1> HIDE DEF lists
  <1>4. phis \in Seq(F)
    BY <1>3, FlattenFacts
  <1> HIDE DEF phis
  <1>5. copies \in Seq(Seq(CopiesOf(g)))
    <2>1. ASSUME NEW i \in DOMAIN phis, b \in DOMAIN phis[i].inc
          PROVE  <<[dst |-> phis[i].dst, src |-> phis[i].inc[b]]>> \in Seq(CopiesOf(g))
      <3>1. phis[i] \in F
        BY <1>4
      <3>2. phis[i].dst \in ValuesOf(g) /\ phis[i].inc \in Inc
        BY <3>1 DEF F
      <3>3. PICK P \in SUBSET BlocksOf(g) : phis[i].inc \in [P -> V]
        BY <3>2
      <3>4. phis[i].inc[b] \in V
        BY <2>1, <3>3
      <3> DEFINE c == [dst |-> phis[i].dst, src |-> phis[i].inc[b]]
      <3>5. c \in CopiesOf(g)
        BY <3>2, <3>4 DEF CopiesOf
      <3> HIDE DEF c
      <3>6. <<c>> \in Seq(CopiesOf(g))
        BY <3>5
      <3> QED BY <3>6 DEF c
    <2>2. <<>> \in Seq(CopiesOf(g))
      OBVIOUS
    <2>3. DOMAIN phis = 1 .. Len(phis) /\ Len(phis) \in Nat
      BY <1>4
    <2>4. \A i \in 1 .. Len(phis) : copies[i] \in Seq(CopiesOf(g))
      BY <2>1, <2>2, <2>3
    <2>5. copies = [i \in 1 .. Len(phis) |-> copies[i]]
      BY <2>3
    <2> HIDE DEF copies
    <2> QED BY <2>3, <2>4, <2>5
  <1>6. FlattenSeq(copies) \in Seq(CopiesOf(g))
    <2> HIDE DEF copies
    <2> QED BY <1>5, FlattenFacts
  <1>7. PhiMapOf(g, b) = FlattenSeq(copies)
    BY DEF PhiMapOf, copies, phis, lists
  <1> QED BY <1>6, <1>7

(* A well-formed function has the shape that the proofs use. *)
LEMMA WellShaped ==
  ASSUME NEW g, WellFormed(g)
  PROVE  Shaped(g)
  <1>1. g.order \in Seq(BlocksOf(g)) /\ g.order # <<>> /\ Null \notin ValuesOf(g)
    BY DEF WellFormed, BlocksOf
  <1>2. IsFiniteSet(BlocksOf(g)) /\ First(g) \in BlocksOf(g)
    BY <1>1, InSeq DEF First, BlocksOf
  <1>3. ASSUME NEW b \in BlocksOf(g)
        PROVE  /\ g.succ[b] \in Seq(BlocksOf(g)) /\ ToSet(g.succ[b]) \subseteq BlocksOf(g) \ {First(g)}
               /\ Width(g, b) \in Nat \ {0} /\ g.body[b] \in Seq(InstrsOf(g))
               /\ \A i \in 1 .. Width(g, b) : g.body[b][i] \in InstrsOf(g)
               /\ g.body[b][Width(g, b)].def = Null
               /\ PhiMapOf(g, b) \in Seq(CopiesOf(g)) /\ ToSet(PhiMapOf(g, b)) \subseteq CopiesOf(g)
    <2> DEFINE B == BlocksOf(g) \ {First(g)}
    <2>1. /\ g.succ[b] \in Seq(B)
          /\ g.body[b] \in Seq(InstrsOf(g)) /\ g.body[b] # <<>> /\ Last(g.body[b]).def = Null
      BY DEF WellFormed, BlocksOf, First, InstrsOf
    <2>2. ToSet(g.succ[b]) \subseteq B
      <3> HIDE DEF B
      <3> QED BY <2>1, InSeq
    <2>3. g.succ[b] \in Seq(BlocksOf(g))
      <3>1. B \subseteq BlocksOf(g)
        OBVIOUS
      <3> HIDE DEF B
      <3> QED BY <2>1, <3>1
    <2>4. Width(g, b) \in Nat \ {0} /\ \A i \in 1 .. Width(g, b) : g.body[b][i] \in InstrsOf(g)
      BY <2>1 DEF Width
    <2>5. g.body[b][Width(g, b)].def = Null
      BY <2>1 DEF Width, Last
    <2>6. PhiMapOf(g, b) \in Seq(CopiesOf(g))
      BY PhiMapType
    <2>7. ToSet(PhiMapOf(g, b)) \subseteq CopiesOf(g)
      BY <2>6, InSeq
    <2> QED BY <2>1, <2>2, <2>3, <2>4, <2>5, <2>6, <2>7
  <1> QED BY <1>1, <1>2, <1>3 DEF Shaped

-----------------------------------------------------------------------------
(* The points of the function and their order. *)
PointAt(b, i) == <<b, i>>

(* There are finitely many points. *)
LEMMA PointsAre ==
  ASSUME Shaped(prog)
  PROVE  /\ Blocks = BlocksOf(prog) /\ Values = ValuesOf(prog)
         /\ IsFiniteSet(Points)
         /\ \A b \in Blocks : \A i \in 0 .. Width(prog, b) : PointAt(b, i) \in Points
         /\ \A p \in Points : \E b \in Blocks : \E i \in 0 .. Width(prog, b) : p = PointAt(b, i)
  <1>1. Blocks = BlocksOf(prog) /\ Values = ValuesOf(prog) /\ IsFiniteSet(Blocks)
    BY DEF Shaped, Blocks, BlocksOf, Values
  <1> DEFINE in == [b \in Blocks |-> {b} \X (0 .. Len(prog.body[b]))]
             parts == {in[b] : b \in Blocks}
  <1>2. \A b \in Blocks : Len(prog.body[b]) \in Nat /\ Len(prog.body[b]) = Width(prog, b)
    BY <1>1 DEF Shaped, Width
  <1>3. IsFiniteSet(parts)
    <2>1. in \in Surjection(Blocks, parts)
      BY DEF Surjection
    <2> HIDE DEF in, parts
    <2> QED BY <1>1, <2>1, FS_Surjection
  <1>4. \A T \in parts : IsFiniteSet(T)
    <2> SUFFICES ASSUME NEW b \in Blocks PROVE IsFiniteSet(in[b])
      OBVIOUS
    <2> DEFINE S == {b}
               I == 0 .. Len(prog.body[b])
    <2>1. IsFiniteSet(S)
      BY FS_Singleton
    <2> DEFINE n == Len(prog.body[b])
    <2>3. 0 \in Int /\ n \in Int
      BY <1>2
    <2>4. IsFiniteSet(I)
      <3> HIDE DEF n
      <3>1. IsFiniteSet(0 .. n)
        BY <2>3, FS_Interval
      <3> QED BY <3>1 DEF n
    <2>2. in[b] = S \X I
      OBVIOUS
    <2> HIDE DEF S, I
    <2> QED BY <2>1, <2>2, <2>4, FS_Product
  <1>5. IsFiniteSet(UNION parts)
    <2> HIDE DEF parts
    <2> QED BY <1>3, <1>4, FS_UNION
  <1>6. Points = UNION parts
    BY DEF Points
  <1>7. \A b \in Blocks : \A i \in 0 .. Width(prog, b) : PointAt(b, i) \in Points
    <2> SUFFICES ASSUME NEW b \in Blocks, NEW i \in 0 .. Width(prog, b) PROVE PointAt(b, i) \in Points
      OBVIOUS
    <2>1. PointAt(b, i) \in in[b]
      BY <1>2 DEF PointAt
    <2>2. in[b] \in parts
      OBVIOUS
    <2> HIDE DEF in, parts
    <2> QED BY <1>6, <2>1, <2>2
  <1>8. ASSUME NEW p \in Points
        PROVE  \E b \in Blocks : \E i \in 0 .. Width(prog, b) : p = PointAt(b, i)
    <2>1. PICK b \in Blocks : p \in in[b]
      BY <1>6
    <2>2. PICK i \in 0 .. Width(prog, b) : p = <<b, i>>
      BY <1>2, <2>1
    <2> QED BY <2>2 DEF PointAt
  <1> QED BY <1>1, <1>5, <1>6, <1>7, <1>8

(* Where the code goes on after point i of block b. *)
After(b, i) ==
    LET n == Width(prog, b)
    IN  IF i = n THEN {Entry(s) : s \in ToSet(prog.succ[b])}
        ELSE {PointAt(b, IF i = 0 THEN n ELSE IF i = n - 1 THEN 0 ELSE i + 1)}

(* A block is entered at its first instruction or at its copies. *)
LEMMA EntryIs ==
  ASSUME Shaped(prog), NEW s \in Blocks
  PROVE  /\ Entry(s) = PointAt(s, IF Width(prog, s) = 1 THEN 0 ELSE 1)
         /\ Entry(s) \in Points
  <1>1. Entry(s) = PointAt(s, IF Width(prog, s) = 1 THEN 0 ELSE 1)
    BY DEF Entry, PointAt, Width
  <1>2. Width(prog, s) \in Nat \ {0}
    BY PointsAre DEF Shaped
  <1>3. (IF Width(prog, s) = 1 THEN 0 ELSE 1) \in 0 .. Width(prog, s)
    BY <1>2
  <1> QED BY <1>1, <1>3, PointsAre

(* What the model says of a point, by block and place. *)
LEMMA SuccPointsAre ==
  ASSUME Shaped(prog), NEW b \in Blocks, NEW i \in 0 .. Width(prog, b)
  PROVE  /\ SuccPoints(PointAt(b, i)) = After(b, i)
         /\ After(b, i) \subseteq Points
         /\ UsedAt(PointAt(b, i)) = IF i = 0 THEN {c.src : c \in ToSet(PhiMapOf(prog, b))}
                                    ELSE prog.body[b][i].uses
         /\ DefinedAt(PointAt(b, i)) = IF i = 0 THEN {c.dst : c \in ToSet(PhiMapOf(prog, b))}
                                    ELSE {prog.body[b][i].def}
  <1> DEFINE p == PointAt(b, i)
             n == Width(prog, b)
  <1>1. p[1] = b /\ p[2] = i /\ n = Len(prog.body[p[1]])
    BY DEF PointAt, Width
  <1>2. n \in Nat \ {0} /\ i \in 0 .. n
    BY PointsAre DEF Shaped
  <1>3. SuccPoints(p) =
            CASE i = n     -> {Entry(s) : s \in ToSet(prog.succ[b])}
              [] i = 0     -> {PointAt(b, n)}
              [] i > 0 /\ i = n - 1 -> {PointAt(b, 0)}
              [] OTHER     -> {PointAt(b, i + 1)}
    <2> HIDE DEF p, n
    <2> QED BY <1>1 DEF SuccPoints, PointAt
  <1>4. SuccPoints(p) = After(b, i)
    <2>1. CASE i = n
      BY <1>2, <1>3, <2>1 DEF After
    <2>2. CASE i = 0
      BY <1>2, <1>3, <2>2 DEF After
    <2>3. CASE i > 0 /\ i = n - 1
      BY <1>2, <1>3, <2>3 DEF After
    <2>4. CASE i > 0 /\ i # n - 1 /\ i # n
      BY <1>2, <1>3, <2>4 DEF After
    <2> QED BY <1>2, <2>1, <2>2, <2>3, <2>4
  <1>5. After(b, i) \subseteq Points
    <2>1. CASE i = n
      <3>1. After(b, i) = {Entry(s) : s \in ToSet(prog.succ[b])}
        BY <2>1 DEF After
      <3>2. ToSet(prog.succ[b]) \subseteq Blocks
        BY PointsAre DEF Shaped
      <3> QED BY <3>1, <3>2, EntryIs
    <2>2. CASE i # n
      <3> DEFINE k == IF i = 0 THEN n ELSE IF i = n - 1 THEN 0 ELSE i + 1
      <3>1. k \in 0 .. n
        BY <1>2, <2>2
      <3>2. After(b, i) = {PointAt(b, k)}
        BY <2>2 DEF After
      <3> HIDE DEF k
      <3> QED BY <3>1, <3>2, PointsAre
    <2> QED BY <2>1, <2>2
  <1>6. UsedAt(p) = IF i = 0 THEN {c.src : c \in ToSet(PhiMapOf(prog, b))} ELSE prog.body[b][i].uses
    BY <1>1 DEF UsedAt, PhiMap
  <1>7. DefinedAt(p) = IF i = 0 THEN {c.dst : c \in ToSet(PhiMapOf(prog, b))} ELSE {prog.body[b][i].def}
    BY <1>1 DEF DefinedAt, PhiMap
  <1> QED BY <1>4, <1>5, <1>6, <1>7

-----------------------------------------------------------------------------
(* What the equations of liveness say of a value at a point, if S are the    *)
(* pairs of values and points.                                              *)
Demands(S, v, p) == v \in UsedAt(p) \/ (v \notin DefinedAt(p) /\ \E s \in SuccPoints(p) : <<v, s>> \in S)

Solution(S) == \A v \in Values, p \in Points : <<v, p>> \in S <=> Demands(S, v, p)

ClosedPairs(S) == \A v \in Values, p \in Points : Demands(S, v, p) => <<v, p>> \in S

(* Live solves the equations, and is in every set they keep closed. *)
LEMMA LiveIsLeast ==
  ASSUME Shaped(prog)
  PROVE  /\ Live \in SUBSET (Values \X Points)
         /\ Solution(Live)
         /\ \A C \in SUBSET (Values \X Points) : ClosedPairs(C) => Live \subseteq C
  <1> DEFINE flow == {e \in Points \X Points : e[2] \in SuccPoints(e[1])}
             uses == UNION {(UsedAt(p) \cap Values) \X {p} : p \in Points}
             defined == UNION {DefinedAt(p) \X {p} : p \in Points}
             N == Cardinality(Points)
             Pairs == SUBSET (Values \X Points)
             S == [last : Pairs, all : Pairs]
             base == [last |-> uses, all |-> uses]
             far == CHOOSE f : f = [k \in 0 .. N |->
                        IF k = 0 THEN base ELSE Further(flow, defined, f[k - 1])]
             step == [k \in 1 .. N |-> [r \in S |-> Further(flow, defined, r)]]
  <1>1. IsFiniteSet(Points) /\ N \in Nat
    BY PointsAre, FS_CardinalityType
  <1>2. flow \in SUBSET (Points \X Points) /\ uses \in Pairs
    OBVIOUS
  <1>3. /\ \A p, s \in Points : <<p, s>> \in flow <=> s \in SuccPoints(p)
        /\ \A v \in Values, p \in Points : <<v, p>> \in uses <=> v \in UsedAt(p)
        /\ \A v \in Values, p \in Points : <<v, p>> \in defined <=> v \in DefinedAt(p)
    OBVIOUS
  <1>4. Live = far[N].all
    BY DEF Live, Further, Back
  <1> HIDE DEF flow, uses, defined, N
  <1>5. IsFar(far, N, flow, uses, defined)
    <2>1. base \in S
      BY <1>2
    <2>2. \A r \in S : Further(flow, defined, r) \in S
      <3> SUFFICES ASSUME NEW r \in S PROVE Further(flow, defined, r) \in S
        OBVIOUS
      <3> DEFINE l == r.last
      <3>1. l \in SUBSET (Values \X Points) /\ r.all \in Pairs
        OBVIOUS
      <3> HIDE DEF l
      <3>2. Back(flow, l) \in SUBSET (Values \X Points)
        BY <1>2, <3>1, BackIs
      <3>3. Back(flow, r.last) \ (defined \cup r.all) \in Pairs
        BY <3>2 DEF l
      <3> QED BY <3>1, <3>3 DEF Further
    <2>3. step \in Steps(N, S)
      <3> HIDE DEF S
      <3> QED BY <2>2 DEF Steps
    <2> HIDE DEF S, base, step
    <2>4. PICK f : IsRun(f, N, S, base, step)
      BY <1>1, <2>1, <2>3, Run
    <2>5. /\ f \in [0 .. N -> S] /\ f[0] = base
          /\ \A k \in 1 .. N : f[k] = step[k][f[k - 1]]
      BY <2>4 DEF IsRun
    <2>6. \A k \in 1 .. N : f[k - 1] \in S /\ f[k] = Further(flow, defined, f[k - 1])
      <3> SUFFICES ASSUME NEW k \in 1 .. N
                   PROVE  f[k - 1] \in S /\ f[k] = Further(flow, defined, f[k - 1])
        OBVIOUS
      <3>1. k - 1 \in 0 .. N
        BY <1>1
      <3>2. f[k - 1] \in S
        BY <2>5, <3>1
      <3>3. step[k][f[k - 1]] = Further(flow, defined, f[k - 1])
        BY <3>2 DEF step
      <3> QED BY <2>5, <3>2, <3>3
    <2>7. f = [k \in 0 .. N |-> IF k = 0 THEN base ELSE Further(flow, defined, f[k - 1])]
      <3>1. \A k \in 0 .. N : f[k] = IF k = 0 THEN base ELSE Further(flow, defined, f[k - 1])
        <4>1. \A k \in 0 .. N : k = 0 \/ k \in 1 .. N
          BY <1>1
        <4> QED BY <2>5, <2>6, <4>1
      <3>2. f = [k \in 0 .. N |-> f[k]]
        BY <2>5
      <3> QED BY <3>1, <3>2
    <2>8. far = [k \in 0 .. N |-> IF k = 0 THEN base ELSE Further(flow, defined, far[k - 1])]
      BY <2>7
    <2> HIDE DEF far
    <2>9. \A k \in 0 .. N : far[k] = IF k = 0 THEN base ELSE Further(flow, defined, far[k - 1])
      BY <2>8, Zenon
    <2>10. 0 \in 0 .. N /\ \A k \in 1 .. N : k \in 0 .. N /\ k # 0
      BY <1>1
    <2>11. far[0] = base /\ \A k \in 1 .. N : far[k] = Further(flow, defined, far[k - 1])
      BY <2>9, <2>10, Zenon
    <2> QED BY <2>11 DEF IsFar, base
  <1> HIDE DEF far
  <1> DEFINE A == far[N].all
  <1>6. /\ A \in Pairs /\ uses \subseteq A
        /\ Back(flow, A) \subseteq A \cup defined
        /\ \A C \in Pairs : uses \subseteq C /\ Back(flow, C) \subseteq C \cup defined => A \subseteq C
    <2> DEFINE V == Values
               P == Points
    <2>1. IsFiniteSet(P) /\ N = Cardinality(P) /\ flow \in SUBSET (P \X P) /\ uses \in SUBSET (V \X P)
      BY <1>1, <1>2 DEF N
    <2> HIDE DEF V, P
    <2>2. IsLeastPairs(V, P, flow, uses, defined, far[N].all)
      BY <1>1, <1>5, <2>1, FarEnds
    <2> QED BY <2>2 DEF V, P, IsLeastPairs
  <1> HIDE DEF A
  <1>7. ASSUME NEW C \in Pairs
        PROVE  /\ \A v \in Values, p \in Points :
                    <<v, p>> \in Back(flow, C) <=> \E s \in SuccPoints(p) : <<v, s>> \in C
               /\ uses \subseteq C <=> \A v \in Values, p \in Points : v \in UsedAt(p) => <<v, p>> \in C
               /\ Back(flow, C) \subseteq C \cup defined <=>
                    \A v \in Values, p \in Points : <<v, p>> \in Back(flow, C) => <<v, p>> \in C \/ v \in DefinedAt(p)
    <2>1. IsBack(Values, Points, flow, C) /\ Back(flow, C) \in Pairs
      <3> DEFINE V == Values
                 P == Points
      <3>1. flow \in SUBSET (P \X P) /\ C \in SUBSET (V \X P)
        BY <1>2
      <3> HIDE DEF V, P
      <3>2. IsBack(V, P, flow, C) /\ Back(flow, C) \in SUBSET (V \X P)
        BY <3>1, BackIs
      <3> QED BY <3>2 DEF V, P
    <2>2. \A p \in Points : SuccPoints(p) \subseteq Points
      <3> SUFFICES ASSUME NEW p \in Points PROVE SuccPoints(p) \subseteq Points
        OBVIOUS
      <3>1. PICK b \in Blocks : \E i \in 0 .. Width(prog, b) : p = PointAt(b, i)
        BY PointsAre
      <3>2. PICK i \in 0 .. Width(prog, b) : p = PointAt(b, i)
        BY <3>1
      <3> QED BY <3>2, SuccPointsAre
    <2>3. \A v \in Values, p \in Points :
                    <<v, p>> \in Back(flow, C) <=> \E s \in SuccPoints(p) : <<v, s>> \in C
      BY <1>3, <2>1, <2>2 DEF IsBack
    <2>4. uses \subseteq C <=> \A v \in Values, p \in Points : v \in UsedAt(p) => <<v, p>> \in C
      BY <1>2, <1>3
    <2>5. Back(flow, C) \subseteq C \cup defined <=>
                    \A v \in Values, p \in Points : <<v, p>> \in Back(flow, C) => <<v, p>> \in C \/ v \in DefinedAt(p)
      BY <1>3, <2>1
    <2> QED BY <2>3, <2>4, <2>5
  <1>8. \A C \in Pairs : ClosedPairs(C) <=> uses \subseteq C /\ Back(flow, C) \subseteq C \cup defined
    <2> SUFFICES ASSUME NEW C \in Pairs
                 PROVE  ClosedPairs(C) <=> uses \subseteq C /\ Back(flow, C) \subseteq C \cup defined
      OBVIOUS
    <2>1. ClosedPairs(C) <=>
                /\ \A v \in Values, p \in Points : v \in UsedAt(p) => <<v, p>> \in C
                /\ \A v \in Values, p \in Points :
                        v \notin DefinedAt(p) /\ (\E s \in SuccPoints(p) : <<v, s>> \in C) => <<v, p>> \in C
      BY DEF ClosedPairs, Demands
    <2>2. uses \subseteq C <=> \A v \in Values, p \in Points : v \in UsedAt(p) => <<v, p>> \in C
      BY <1>7
    <2>3. Back(flow, C) \subseteq C \cup defined <=>
                \A v \in Values, p \in Points :
                    (\E s \in SuccPoints(p) : <<v, s>> \in C) => <<v, p>> \in C \/ v \in DefinedAt(p)
      BY <1>7
    <2> HIDE DEF uses, flow, defined
    <2> QED BY <2>1, <2>2, <2>3
  <1>9. ClosedPairs(A) /\ \A C \in Pairs : ClosedPairs(C) => A \subseteq C
    BY <1>6, <1>8
  <1>10. Solution(A)
    <2> DEFINE C == {x \in A : Demands(A, x[1], x[2])}
    <2>1. C \in Pairs
      BY <1>6
    <2>2. \A v \in Values, p \in Points : <<v, p>> \in C <=> <<v, p>> \in A /\ Demands(A, v, p)
      OBVIOUS
    <2>3. \A v, p : Demands(C, v, p) => Demands(A, v, p)
      BY DEF Demands
    <2>4. ClosedPairs(C)
      <3> HIDE DEF C
      <3> QED BY <1>9, <2>2, <2>3 DEF ClosedPairs
    <2>5. A \subseteq C
      <3> HIDE DEF C
      <3> QED BY <1>9, <2>1, <2>4
    <2> HIDE DEF C
    <2> QED BY <1>9, <2>2, <2>5 DEF Solution, ClosedPairs
  <1> QED BY <1>4, <1>6, <1>9, <1>10 DEF A

-----------------------------------------------------------------------------
(* What is numbered: the instructions after the phis, and the copies. *)
InstrOf(b, i) == [bb |-> b, pos |-> i]
InstrsIn(g, b) == {InstrOf(b, i) : i \in 1 .. Width(g, b)}
BlockCopies(g, b) == ToSet(PhiMapOf(g, b))
EntitiesOf(g) == UNION {InstrsIn(g, b) \cup BlockCopies(g, b) : b \in BlocksOf(g)}

(* Instructions and copies are told apart. *)
LEMMA EntitiesDiffer ==
  ASSUME NEW g, Shaped(g)
  PROVE  /\ \A b, c, i, j : InstrOf(b, i) = InstrOf(c, j) => b = c /\ i = j
         /\ \A b \in BlocksOf(g) : \A c, i : InstrOf(c, i) \notin BlockCopies(g, b)
         /\ \A c, i : InstrOf(c, i).pos = i
         /\ \A b \in BlocksOf(g) : BlockCopies(g, b) \subseteq EntitiesOf(g) /\ InstrsIn(g, b) \subseteq EntitiesOf(g)
         /\ \A b \in BlocksOf(g) : \A i \in 1 .. Width(g, b) : InstrOf(b, i) \in EntitiesOf(g)
  <1>1. ASSUME NEW b, NEW c, NEW i, NEW j, InstrOf(b, i) = InstrOf(c, j)
        PROVE  b = c /\ i = j
    <2>1. InstrOf(b, i).bb = b /\ InstrOf(b, i).pos = i /\ InstrOf(c, j).bb = c /\ InstrOf(c, j).pos = j
      BY DEF InstrOf
    <2> QED BY <1>1, <2>1
  <1>2. ASSUME NEW b \in BlocksOf(g), NEW c, NEW i, InstrOf(c, i) \in BlockCopies(g, b)
        PROVE  FALSE
    <2>1. InstrOf(c, i) \in CopiesOf(g)
      BY <1>2 DEF Shaped, BlockCopies
    <2>2. DOMAIN InstrOf(c, i) = {"dst", "src"}
      BY <2>1 DEF CopiesOf
    <2>3. DOMAIN InstrOf(c, i) = {"bb", "pos"}
      BY DEF InstrOf
    <2> QED BY <2>2, <2>3
  <1>3. \A c, i : InstrOf(c, i).pos = i
    BY DEF InstrOf
  <1>4. \A b \in BlocksOf(g) : BlockCopies(g, b) \subseteq EntitiesOf(g) /\ InstrsIn(g, b) \subseteq EntitiesOf(g)
    BY DEF EntitiesOf
  <1>5. \A b \in BlocksOf(g) : \A i \in 1 .. Width(g, b) : InstrOf(b, i) \in EntitiesOf(g)
    BY <1>4 DEF InstrsIn
  <1> QED BY <1>1, <1>2, <1>3, <1>4, <1>5

(* The sets of a block as functions of what is live behind it: o behind its  *)
(* terminator, f[i] before its i-th instruction.                            *)
CopyIn(g, b, out) ==
    (out \ {c.dst : c \in BlockCopies(g, b)}) \cup ({c.src : c \in BlockCopies(g, b)} \ {Null})

OutAt(g, b, o, f, i) ==
    IF i = Width(g, b) THEN o
    ELSE IF i = Width(g, b) - 1 THEN CopyIn(g, b, f[Width(g, b)]) ELSE f[i + 1]

Before(g, b, o, f) ==
    /\ f \in [1 .. Width(g, b) -> SUBSET ValuesOf(g)]
    /\ \A i \in 1 .. Width(g, b) : f[i] = TransferFunction(g.body[b][i], OutAt(g, b, o, f, i))

(* transfer_function gives values. *)
LEMMA TransferIs ==
  ASSUME NEW g, Shaped(g), NEW b \in BlocksOf(g)
  PROVE  /\ \A i \in 1 .. Width(g, b) : \A S \in SUBSET ValuesOf(g) :
                TransferFunction(g.body[b][i], S) \in SUBSET ValuesOf(g)
         /\ \A S \in SUBSET ValuesOf(g) : CopyIn(g, b, S) \in SUBSET ValuesOf(g)
         /\ \A S, U : S \subseteq U => /\ CopyIn(g, b, S) \subseteq CopyIn(g, b, U)
                                        /\ \A x : TransferFunction(x, S) \subseteq TransferFunction(x, U)
         /\ \A S \in SUBSET ValuesOf(g) : S \subseteq TransferFunction(g.body[b][Width(g, b)], S)
  <1>1. ASSUME NEW i \in 1 .. Width(g, b), NEW S \in SUBSET ValuesOf(g)
        PROVE  TransferFunction(g.body[b][i], S) \in SUBSET ValuesOf(g)
    <2>1. g.body[b][i].uses \in SUBSET ValuesOf(g)
      BY DEF Shaped, InstrsOf
    <2> QED BY <2>1 DEF TransferFunction
  <1>2. ASSUME NEW S \in SUBSET ValuesOf(g) PROVE CopyIn(g, b, S) \in SUBSET ValuesOf(g)
    <2>1. \A c \in BlockCopies(g, b) : c.src \in ValuesOf(g) \cup {Null}
      BY DEF Shaped, BlockCopies, CopiesOf
    <2> QED BY <2>1 DEF CopyIn
  <1>3. ASSUME NEW S, NEW U, S \subseteq U
        PROVE  /\ CopyIn(g, b, S) \subseteq CopyIn(g, b, U)
               /\ \A x : TransferFunction(x, S) \subseteq TransferFunction(x, U)
    BY <1>3 DEF CopyIn, TransferFunction
  <1>4. \A S \in SUBSET ValuesOf(g) : S \subseteq TransferFunction(g.body[b][Width(g, b)], S)
    BY DEF Shaped, TransferFunction
  <1> QED BY <1>1, <1>2, <1>3, <1>4

(* The recursion of LiveBefore from the terminator up is well defined. *)
LEMMA BeforeExists ==
  ASSUME NEW g, Shaped(g), NEW b \in BlocksOf(g), NEW o \in SUBSET ValuesOf(g),
         NEW n, n = Width(g, b),
         NEW before, before = CHOOSE f : f = [i \in 1 .. n |->
            TransferFunction(g.body[b][i],
                CASE i = n     -> o
                  [] i = n - 1 -> CopyIn(g, b, f[n])
                  [] OTHER     -> f[i + 1])]
  PROVE  Before(g, b, o, before)
  <1> DEFINE V == SUBSET ValuesOf(g)
             T(i, S) == TransferFunction(g.body[b][i], S)
             base == T(n, o)
             N == n - 1
             step == [k \in 1 .. N |-> [s \in V |-> T(n - k, IF k = 1 THEN CopyIn(g, b, s) ELSE s)]]
  <1>1. n \in Nat \ {0} /\ N \in Nat
    BY DEF Shaped
  <1>2. \A i \in 1 .. n : \A S \in V : T(i, S) \in V
    BY TransferIs
  <1>3. \A S \in V : CopyIn(g, b, S) \in V
    BY TransferIs
  <1> HIDE DEF V, T
  <1>4. base \in V
    BY <1>1, <1>2 DEF V
  <1>5. step \in Steps(N, V)
    <2>1. ASSUME NEW k \in 1 .. N, NEW s \in V
          PROVE  T(n - k, IF k = 1 THEN CopyIn(g, b, s) ELSE s) \in V
      <3>1. n - k \in 1 .. n
        BY <1>1
      <3>2. (IF k = 1 THEN CopyIn(g, b, s) ELSE s) \in V
        BY <1>3
      <3> QED BY <1>2, <3>1, <3>2
    <2> QED BY <2>1 DEF Steps
  <1>6. PICK r : IsRun(r, N, V, base, step)
    <2> HIDE DEF base, N, step
    <2> QED BY <1>1, <1>4, <1>5, Run
  <1>7. r \in [0 .. N -> V] /\ r[0] = base /\ \A k \in 1 .. N : r[k] = step[k][r[k - 1]]
    <2> HIDE DEF base, N, step
    <2> QED BY <1>6 DEF IsRun
  <1>8. ASSUME NEW k \in 1 .. N
        PROVE  r[k] = T(n - k, IF k = 1 THEN CopyIn(g, b, r[0]) ELSE r[k - 1])
    <2>1. k - 1 \in 0 .. N /\ r[k - 1] \in V
      BY <1>1, <1>7
    <2>2. r[k] = T(n - k, IF k = 1 THEN CopyIn(g, b, r[k - 1]) ELSE r[k - 1])
      BY <1>7, <2>1
    <2> QED BY <1>1, <2>2
  <1> DEFINE f == [i \in 1 .. n |-> r[n - i]]
             rhs(h, i) == T(i, CASE i = n -> o [] i = n - 1 -> CopyIn(g, b, h[n]) [] OTHER -> h[i + 1])
  <1>9. ASSUME NEW i \in 1 .. n PROVE f[i] = rhs(f, i)
    <2>1. CASE i = n
      <3>1. n - i = 0
        BY <1>1, <2>1
      <3>2. f[i] = base
        BY <1>7, <3>1
      <3> QED BY <2>1, <3>2
    <2>2. CASE i # n
      <3>1. n - i \in 1 .. N /\ n - (n - i) = i /\ n - i - 1 = n - (i + 1) /\ i + 1 \in 1 .. n /\ n \in 1 .. n /\ n - n = 0
            /\ (n - i = 1 <=> i = n - 1)
        BY <1>1, <2>2
      <3>2. f[n] = r[0] /\ f[i + 1] = r[n - i - 1] /\ f[i] = r[n - i]
        BY <3>1
      <3> HIDE DEF f
      <3>3. f[i] = T(i, IF n - i = 1 THEN CopyIn(g, b, f[n]) ELSE f[i + 1])
        BY <1>8, <3>1, <3>2
      <3> QED BY <2>2, <3>1, <3>3
    <2> QED BY <2>1, <2>2
  <1>10. f = [i \in 1 .. n |-> rhs(f, i)]
    <2>1. f = [i \in 1 .. n |-> f[i]]
      OBVIOUS
    <2> HIDE DEF f, rhs
    <2> QED BY <1>9, <2>1
  <1>11. before = [i \in 1 .. n |-> rhs(before, i)]
    <2> DEFINE Follows(z) == z = [i \in 1 .. n |-> rhs(z, i)]
    <2>1. before = CHOOSE z : Follows(z)
      BY DEF T
    <2>2. Follows(f)
      BY <1>10
    <2> HIDE DEF f, Follows
    <2>3. Follows(before)
      BY <2>1, <2>2
    <2> QED BY <2>3 DEF Follows
  <1>12. \A i \in 1 .. n : before[i] = rhs(before, i)
    <2> HIDE DEF rhs
    <2> QED BY <1>11, Zenon
  <1>13. ASSUME NEW i \in 1 .. n PROVE before[i] = T(i, OutAt(g, b, o, before, i))
    <2>1. before[i] = rhs(before, i)
      BY <1>12
    <2>2. (CASE i = n -> o [] i = n - 1 -> CopyIn(g, b, before[n]) [] OTHER -> before[i + 1])
            = OutAt(g, b, o, before, i)
      BY <1>1 DEF OutAt
    <2> QED BY <2>1, <2>2
  <1> DEFINE K == {k \in 0 .. N : before[n - k] \in V}
  <1>14. 0 .. N \subseteq K
    <2>1. 0 \in K
      <3>1. n - 0 = n /\ n \in 1 .. n /\ 0 \in 0 .. N
        BY <1>1
      <3>2. before[n] = base
        BY <1>13, <3>1 DEF OutAt
      <3> QED BY <1>4, <3>1, <3>2
    <2>2. ASSUME NEW k \in 1 .. N, k - 1 \in K PROVE k \in K
      <3>1. n - k \in 1 .. n /\ n - (k - 1) = n - k + 1 /\ n - k # n /\ k \in 0 .. N
            /\ (n - k = n - 1 => n - k + 1 = n)
        BY <1>1
      <3>2. before[n - k + 1] \in V
        BY <2>2, <3>1
      <3>3. OutAt(g, b, o, before, n - k) \in V
        BY <1>3, <3>1, <3>2 DEF OutAt
      <3> QED BY <1>2, <1>13, <3>1, <3>3
    <2> HIDE DEF K
    <2> QED BY <1>1, <2>1, <2>2, UpTo
  <1>15. \A i \in 1 .. n : before[i] \in V
    <2> SUFFICES ASSUME NEW i \in 1 .. n PROVE before[i] \in V
      OBVIOUS
    <2>1. n - i \in 0 .. N /\ n - (n - i) = i
      BY <1>1
    <2> QED BY <1>14, <2>1
  <1>16. before \in [1 .. n -> V]
    <2> HIDE DEF rhs
    <2> QED BY <1>11, <1>15
  <1> QED BY <1>13, <1>16 DEF Before, T, V

(* More is live before the instructions if more is live behind the block. *)
LEMMA BeforeGrows ==
  ASSUME NEW g, Shaped(g), NEW b \in BlocksOf(g), NEW o, NEW f, Before(g, b, o, f),
         NEW p, NEW h, Before(g, b, p, h), o \subseteq p
  PROVE  \A i \in 1 .. Width(g, b) : f[i] \subseteq h[i]
  <1> DEFINE n == Width(g, b)
             N == n - 1
             K == {k \in 0 .. N : f[n - k] \subseteq h[n - k]}
  <1>1. n \in Nat \ {0} /\ N \in Nat
    BY DEF Shaped
  <1>2. /\ \A i \in 1 .. n : f[i] = TransferFunction(g.body[b][i], OutAt(g, b, o, f, i))
        /\ \A i \in 1 .. n : h[i] = TransferFunction(g.body[b][i], OutAt(g, b, p, h, i))
    BY DEF Before
  <1>3. /\ \A S, U : S \subseteq U => /\ CopyIn(g, b, S) \subseteq CopyIn(g, b, U)
                                       /\ \A x : TransferFunction(x, S) \subseteq TransferFunction(x, U)
    BY TransferIs
  <1>4. 0 \in K
    <2>1. n - 0 = n /\ n \in 1 .. n /\ 0 \in 0 .. N
      BY <1>1
    <2>2. OutAt(g, b, o, f, n) \subseteq OutAt(g, b, p, h, n)
      BY DEF OutAt
    <2> HIDE DEF n, N
    <2> QED BY <1>2, <1>3, <2>1, <2>2
  <1>5. ASSUME NEW k \in 1 .. N, k - 1 \in K PROVE k \in K
    <2> HIDE DEF N
    <2>1. n - k \in 1 .. n /\ n - (k - 1) = n - k + 1 /\ n - k # n /\ k \in 0 .. N
          /\ (n - k = n - 1 => n - k + 1 = n)
      BY <1>1 DEF N
    <2>2. f[n - k + 1] \subseteq h[n - k + 1]
      BY <1>5, <2>1
    <2>3. OutAt(g, b, o, f, n - k) \subseteq OutAt(g, b, p, h, n - k)
      BY <1>3, <2>1, <2>2 DEF OutAt
    <2> DEFINE S == OutAt(g, b, o, f, n - k)
               U == OutAt(g, b, p, h, n - k)
               x == g.body[b][n - k]
    <2>4. f[n - k] = TransferFunction(x, S) /\ h[n - k] = TransferFunction(x, U)
      BY <1>2, <2>1
    <2>5. S \subseteq U
      BY <2>3
    <2> HIDE DEF S, U, x
    <2>6. TransferFunction(x, S) \subseteq TransferFunction(x, U)
      BY <1>3, <2>5
    <2> QED BY <2>1, <2>4, <2>6
  <1>6. 0 .. N \subseteq K
    <2> HIDE DEF K
    <2> QED BY <1>1, <1>4, <1>5, UpTo
  <1>7. ASSUME NEW i \in 1 .. n PROVE f[i] \subseteq h[i]
    <2>1. n - i \in 0 .. N /\ n - (n - i) = i
      BY <1>1
    <2> QED BY <1>6, <2>1
  <1> QED BY <1>7

-----------------------------------------------------------------------------
(* A sweep.  I and O give the live sets by what is numbered, not by number.  *)
Sets(g) == [EntitiesOf(g) -> SUBSET ValuesOf(g)]

EntryOf(g, b) ==
    IF Width(g, b) = 1 /\ PhiMapOf(g, b) # <<>> THEN PhiMapOf(g, b)[1] ELSE InstrOf(b, 1)

JoinOf(g, I, b) == UNION {I[EntryOf(g, s)] : s \in ToSet(g.succ[b])}

(* What is numbered in b and in no other block. *)
OwnCopies(g, b) ==
    {c \in BlockCopies(g, b) : \A d \in BlocksOf(g) : d # b => c \notin BlockCopies(g, d)}

Own(g, b) == InstrsIn(g, b) \cup OwnCopies(g, b)

EntriesOwn(g) == \A b \in BlocksOf(g) : EntryOf(g, b) \in Own(g, b)

OutOf(g, b, O) == O[InstrOf(b, Width(g, b))]

SetsIn(g, b, I) == [i \in 1 .. Width(g, b) |-> I[InstrOf(b, i)]]

(* The sets I and O become J and P. *)
Visit(g, b, f, I, O, J, P) ==
    /\ J \in Sets(g) /\ P \in Sets(g)
    /\ Before(g, b, JoinOf(g, I, b), f)
    /\ \A i \in 1 .. Width(g, b) :
        /\ J[InstrOf(b, i)] = I[InstrOf(b, i)] \cup f[i]
        /\ P[InstrOf(b, i)] = OutAt(g, b, JoinOf(g, I, b), f, i)
    /\ \A c \in BlockCopies(g, b) : J[c] = CopyIn(g, b, f[Width(g, b)]) /\ P[c] = f[Width(g, b)]
    /\ \A e \in EntitiesOf(g) \ (InstrsIn(g, b) \cup BlockCopies(g, b)) : J[e] = I[e] /\ P[e] = O[e]

(* The sets of b are those of its last visit, when no more was live behind  *)
(* it than now.                                                             *)
Settled(g, b, I, O) ==
    /\ Before(g, b, OutOf(g, b, O), SetsIn(g, b, I))
    /\ OutOf(g, b, O) \subseteq JoinOf(g, I, b)
    /\ \A i \in 1 .. Width(g, b) : O[InstrOf(b, i)] = OutAt(g, b, OutOf(g, b, O), SetsIn(g, b, I), i)
    /\ \A c \in OwnCopies(g, b) :
        /\ I[c] = CopyIn(g, b, SetsIn(g, b, I)[Width(g, b)])
        /\ O[c] = SetsIn(g, b, I)[Width(g, b)]

Untouched(g, b, I) == \A e \in Own(g, b) : I[e] = {}

(* What a block numbers alone is among the entities, each of one block. *)
LEMMA OwnIs ==
  ASSUME NEW g, Shaped(g), EntriesOwn(g)
  PROVE  /\ \A b \in BlocksOf(g) : Own(g, b) \subseteq EntitiesOf(g)
         /\ \A b, d \in BlocksOf(g) : b # d => \A e \in Own(g, b) : e \notin InstrsIn(g, d) \cup BlockCopies(g, d)
         /\ \A I \in Sets(g) : \A b \in BlocksOf(g) : JoinOf(g, I, b) \in SUBSET ValuesOf(g)
  <1>1. \A b \in BlocksOf(g) : Own(g, b) \subseteq EntitiesOf(g)
    BY EntitiesDiffer DEF Own, OwnCopies
  <1>2. ASSUME NEW b \in BlocksOf(g), NEW d \in BlocksOf(g), b # d, NEW e \in Own(g, b)
        PROVE  e \notin InstrsIn(g, d) \cup BlockCopies(g, d)
    <2>1. CASE e \in InstrsIn(g, b)
      BY <1>2, <2>1, EntitiesDiffer DEF InstrsIn
    <2>2. CASE e \in OwnCopies(g, b)
      BY <1>2, <2>2, EntitiesDiffer DEF InstrsIn, OwnCopies
    <2> QED BY <2>1, <2>2 DEF Own
  <1>3. ASSUME NEW I \in Sets(g), NEW b \in BlocksOf(g)
        PROVE  JoinOf(g, I, b) \in SUBSET ValuesOf(g)
    <2>1. ToSet(g.succ[b]) \subseteq BlocksOf(g)
      BY DEF Shaped
    <2>2. \A s \in ToSet(g.succ[b]) : EntryOf(g, s) \in EntitiesOf(g)
      BY <1>1, <2>1 DEF EntriesOwn
    <2>3. \A s \in ToSet(g.succ[b]) : I[EntryOf(g, s)] \in SUBSET ValuesOf(g)
      BY <2>2 DEF Sets
    <2> QED BY <2>3 DEF JoinOf
  <1> QED BY <1>1, <1>2, <1>3

Settles(g, b, f, I, J, P) ==
    /\ \A i \in 1 .. Width(g, b) : J[InstrOf(b, i)] = f[i] /\ I[InstrOf(b, i)] \subseteq f[i]
    /\ \A e \in Own(g, b) : I[e] \subseteq J[e]
    /\ \A d \in BlocksOf(g) : JoinOf(g, I, d) \subseteq JoinOf(g, J, d)
    /\ Settled(g, b, J, P)
    /\ OutOf(g, b, P) = JoinOf(g, I, b)

(* What a visit to b does, whether or not it has been visited before. *)
LEMMA VisitSettles ==
  ASSUME NEW g, Shaped(g), EntriesOwn(g), NEW b \in BlocksOf(g), NEW f,
         NEW I \in Sets(g), NEW O \in Sets(g), NEW J, NEW P, Visit(g, b, f, I, O, J, P),
         Settled(g, b, I, O) \/ Untouched(g, b, I)
  PROVE  Settles(g, b, f, I, J, P)
  <1> DEFINE n == Width(g, b)
             o == JoinOf(g, I, b)
  <1>1. n \in Nat \ {0} /\ n \in 1 .. n
    BY DEF Shaped
  <1>2. Before(g, b, o, f)
    BY DEF Visit
  <1>3. \A i \in 1 .. n : I[InstrOf(b, i)] \subseteq f[i]
    <2>1. CASE Settled(g, b, I, O)
      <3>1. \A i \in 1 .. n : SetsIn(g, b, I)[i] \subseteq f[i]
        <4> DEFINE q == OutOf(g, b, O)
                   h == SetsIn(g, b, I)
        <4>1. Before(g, b, q, h) /\ q \subseteq o
          BY <2>1 DEF Settled
        <4> HIDE DEF q, h, o
        <4>2. \A i \in 1 .. Width(g, b) : h[i] \subseteq f[i]
          BY <1>2, <4>1, BeforeGrows
        <4> QED BY <4>2 DEF h
      <3> QED BY <3>1 DEF SetsIn
    <2>2. CASE Untouched(g, b, I)
      BY <2>2 DEF Untouched, Own, InstrsIn
    <2> QED BY <2>1, <2>2
  <1>4. \A i \in 1 .. n : J[InstrOf(b, i)] = f[i]
    BY <1>3 DEF Visit
  <1>5. \A c \in OwnCopies(g, b) : J[c] = CopyIn(g, b, f[n]) /\ P[c] = f[n]
    BY DEF Visit, OwnCopies
  <1>6. \A c \in OwnCopies(g, b) : I[c] \subseteq J[c]
    <2>1. CASE Settled(g, b, I, O)
      <3> SUFFICES ASSUME NEW c \in OwnCopies(g, b) PROVE I[c] \subseteq J[c]
        OBVIOUS
      <3>1. I[c] = CopyIn(g, b, SetsIn(g, b, I)[n])
        BY <2>1 DEF Settled
      <3>2. SetsIn(g, b, I)[n] \subseteq f[n]
        BY <1>1, <1>3 DEF SetsIn
      <3>3. CopyIn(g, b, SetsIn(g, b, I)[n]) \subseteq CopyIn(g, b, f[n])
        <4> DEFINE S == SetsIn(g, b, I)[n]
                   U == f[n]
        <4>1. S \subseteq U
          BY <3>2
        <4> HIDE DEF S, U
        <4>2. CopyIn(g, b, S) \subseteq CopyIn(g, b, U)
          BY <4>1, TransferIs
        <4> QED BY <4>2 DEF S, U
      <3> QED BY <1>5, <3>1, <3>3
    <2>2. CASE Untouched(g, b, I)
      BY <2>2 DEF Untouched, Own
    <2> QED BY <2>1, <2>2
  <1>7. \A e \in Own(g, b) : I[e] \subseteq J[e]
    BY <1>3, <1>4, <1>6 DEF Own, InstrsIn
  <1>8. \A d \in BlocksOf(g) : d # b => \A e \in Own(g, d) : J[e] = I[e]
    <2>1. \A d \in BlocksOf(g) : d # b => \A e \in Own(g, d) :
                e \in EntitiesOf(g) \ (InstrsIn(g, b) \cup BlockCopies(g, b))
      BY OwnIs
    <2> QED BY <2>1 DEF Visit
  <1>9. ASSUME NEW d \in BlocksOf(g) PROVE JoinOf(g, I, d) \subseteq JoinOf(g, J, d)
    <2>1. \A s \in ToSet(g.succ[d]) : s \in BlocksOf(g)
      BY DEF Shaped
    <2>2. \A s \in ToSet(g.succ[d]) : I[EntryOf(g, s)] \subseteq J[EntryOf(g, s)]
      BY <1>7, <1>8, <2>1 DEF EntriesOwn
    <2> QED BY <2>2 DEF JoinOf
  <1>10. OutOf(g, b, P) = o
    BY <1>1 DEF Visit, OutOf, OutAt
  <1>11. SetsIn(g, b, J) = f
    <2>1. f \in [1 .. n -> SUBSET ValuesOf(g)]
      BY <1>2 DEF Before
    <2> QED BY <1>4, <2>1 DEF SetsIn
  <1>12. Settled(g, b, J, P)
    <2>1. \A i \in 1 .. n : P[InstrOf(b, i)] = OutAt(g, b, o, f, i)
      BY DEF Visit
    <2>2. o \subseteq JoinOf(g, J, b)
      BY <1>9
    <2> HIDE DEF o
    <2> QED BY <1>2, <1>5, <1>10, <1>11, <2>1, <2>2 DEF Settled
  <1> QED BY <1>3, <1>4, <1>7, <1>9, <1>10, <1>12 DEF Settles

(* The other blocks keep their sets. *)
Keeps(g, d, I, O, J, P) ==
    /\ \A e \in Own(g, d) : J[e] = I[e] /\ P[e] = O[e]
    /\ OutOf(g, d, P) = OutOf(g, d, O)
    /\ Untouched(g, d, I) => Untouched(g, d, J)
    /\ Settled(g, d, I, O) /\ JoinOf(g, I, d) \subseteq JoinOf(g, J, d) => Settled(g, d, J, P)

(* A visit to b leaves alone what other blocks number alone. *)
LEMMA VisitKeeps ==
  ASSUME NEW g, Shaped(g), EntriesOwn(g), NEW b \in BlocksOf(g), NEW f,
         NEW I \in Sets(g), NEW O \in Sets(g), NEW J, NEW P, Visit(g, b, f, I, O, J, P),
         NEW d \in BlocksOf(g), d # b
  PROVE  Keeps(g, d, I, O, J, P)
  <1>1. \A e \in Own(g, d) : J[e] = I[e] /\ P[e] = O[e]
    <2>1. \A e \in Own(g, d) : e \in EntitiesOf(g) \ (InstrsIn(g, b) \cup BlockCopies(g, b))
      BY OwnIs
    <2> QED BY <2>1 DEF Visit
  <1>2. \A i \in 1 .. Width(g, d) : InstrOf(d, i) \in Own(g, d)
    BY DEF Own, InstrsIn
  <1>3. Width(g, d) \in 1 .. Width(g, d)
    BY DEF Shaped
  <1>4. OutOf(g, d, P) = OutOf(g, d, O)
    BY <1>1, <1>2, <1>3 DEF OutOf
  <1>5. SetsIn(g, d, J) = SetsIn(g, d, I)
    BY <1>1, <1>2 DEF SetsIn
  <1>6. Untouched(g, d, I) => Untouched(g, d, J)
    BY <1>1 DEF Untouched
  <1>7. ASSUME Settled(g, d, I, O), JoinOf(g, I, d) \subseteq JoinOf(g, J, d)
        PROVE  Settled(g, d, J, P)
    <2> DEFINE o == OutOf(g, d, O)
               h == SetsIn(g, d, I)
    <2>1. /\ Before(g, d, o, h) /\ o \subseteq JoinOf(g, I, d)
          /\ \A i \in 1 .. Width(g, d) : O[InstrOf(d, i)] = OutAt(g, d, o, h, i)
          /\ \A c \in OwnCopies(g, d) : I[c] = CopyIn(g, d, h[Width(g, d)]) /\ O[c] = h[Width(g, d)]
      BY <1>7 DEF Settled
    <2>2. OutOf(g, d, P) = o /\ SetsIn(g, d, J) = h
      BY <1>4, <1>5
    <2>3. \A c \in OwnCopies(g, d) : c \in Own(g, d)
      BY DEF Own
    <2> HIDE DEF o, h
    <2>4. o \subseteq JoinOf(g, J, d)
      BY <1>7, <2>1
    <2>5. \A i \in 1 .. Width(g, d) : P[InstrOf(d, i)] = OutAt(g, d, o, h, i)
      BY <1>1, <1>2, <2>1
    <2>6. \A c \in OwnCopies(g, d) : J[c] = CopyIn(g, d, h[Width(g, d)]) /\ P[c] = h[Width(g, d)]
      BY <1>1, <2>1, <2>3
    <2> QED BY <2>1, <2>2, <2>4, <2>5, <2>6 DEF Settled
  <1> QED BY <1>1, <1>4, <1>6, <1>7 DEF Keeps

-----------------------------------------------------------------------------
(* The blocks in the order of the sweeps. *)
Ordered(g, dfs) ==
    /\ dfs \in Seq(BlocksOf(g))
    /\ \A i, j \in DOMAIN dfs : dfs[i] = dfs[j] => i = j
    /\ \A b \in BlocksOf(g) : \E i \in DOMAIN dfs : dfs[i] = b
    /\ \A j \in DOMAIN dfs : dfs[j] = First(g) \/ \E i \in 1 .. j - 1 : dfs[j] \in ToSet(g.succ[dfs[i]])

(* The blocks that a sweep has still to visit: the first m of the order. *)
Rest(dfs, m) == {dfs[i] : i \in 1 .. m}

(* The points and what is live at them, L[b][0] before the copies of b. *)
JoinAt(g, L, b) == UNION {L[s][IF Width(g, s) = 1 THEN 0 ELSE 1] : s \in ToSet(g.succ[b])}

SetsAt(g, L, b) == [i \in 1 .. Width(g, b) |-> L[b][i]]

IsSolution(g, L) ==
    \A b \in BlocksOf(g) :
        /\ Before(g, b, JoinAt(g, L, b), SetsAt(g, L, b))
        /\ L[b][0] = CopyIn(g, b, L[b][Width(g, b)])

Sound(g, L, I) ==
    \A b \in BlocksOf(g) :
        /\ \A i \in 1 .. Width(g, b) : I[InstrOf(b, i)] \subseteq L[b][i]
        /\ \A c \in OwnCopies(g, b) : I[c] \subseteq L[b][0]

(* What enters s is behind every predecessor that this sweep has visited, or *)
(* will be seen by one that no sweep has visited.                           *)
Seen(g, R, I, O, s) ==
    \A b \in BlocksOf(g) \ R : s \in ToSet(g.succ[b]) => I[EntryOf(g, s)] \subseteq OutOf(g, b, O)

Awaited(g, R, I, s) ==
    I[EntryOf(g, s)] # {} /\ \E p \in R : s \in ToSet(g.succ[p]) /\ Untouched(g, p, I)

(* Either every block has been visited before, or this is the first sweep,  *)
(* or it has not begun.                                                     *)
Visits(g, dfs, m, ch, I, O) ==
    \/ \A b \in BlocksOf(g) : Settled(g, b, I, O)
    \/ \A b \in BlocksOf(g) : (b \in Rest(dfs, m) => Untouched(g, b, I))
                               /\ (b \notin Rest(dfs, m) => Settled(g, b, I, O))
    \/ ch /\ m = 0 /\ \A b \in BlocksOf(g) : Untouched(g, b, I)

SweepInv(g, dfs, m, ch, I, O) ==
    /\ Visits(g, dfs, m, ch, I, O)
    /\ ~ch => \A s \in BlocksOf(g) \ {First(g)} :
                Seen(g, Rest(dfs, m), I, O, s) \/ Awaited(g, Rest(dfs, m), I, s)
    /\ \A L : IsSolution(g, L) => Sound(g, L, I)

(* The blocks a sweep has still to visit, one visit later. *)
LEMMA RestIs ==
  ASSUME NEW g, NEW dfs, Ordered(g, dfs), NEW m \in 1 .. Len(dfs)
  PROVE  /\ dfs[m] \in BlocksOf(g)
         /\ Rest(dfs, m) = Rest(dfs, m - 1) \cup {dfs[m]} /\ dfs[m] \notin Rest(dfs, m - 1)
         /\ dfs[m] # First(g) => \E p \in Rest(dfs, m - 1) : dfs[m] \in ToSet(g.succ[p])
         /\ Rest(dfs, m) \subseteq BlocksOf(g)
  <1>1. Len(dfs) \in Nat /\ DOMAIN dfs = 1 .. Len(dfs) /\ \A i \in 1 .. Len(dfs) : dfs[i] \in BlocksOf(g)
    BY DEF Ordered
  <1>2. m \in Nat /\ 1 .. m = (1 .. m - 1) \cup {m} /\ 1 .. m \subseteq 1 .. Len(dfs) /\ m \notin 1 .. m - 1
    BY <1>1
  <1>3. Rest(dfs, m) = Rest(dfs, m - 1) \cup {dfs[m]}
    BY <1>2 DEF Rest
  <1>4. dfs[m] \notin Rest(dfs, m - 1)
    <2>1. \A i, j \in 1 .. Len(dfs) : dfs[i] = dfs[j] => i = j
      BY <1>1 DEF Ordered
    <2>2. \A i \in 1 .. m - 1 : i \in 1 .. Len(dfs) /\ i # m
      BY <1>2
    <2>3. \A i \in 1 .. m - 1 : dfs[i] # dfs[m]
      BY <1>2, <2>1, <2>2
    <2> QED BY <2>3 DEF Rest
  <1>5. ASSUME dfs[m] # First(g) PROVE \E p \in Rest(dfs, m - 1) : dfs[m] \in ToSet(g.succ[p])
    <2>1. PICK i \in 1 .. m - 1 : dfs[m] \in ToSet(g.succ[dfs[i]])
      BY <1>1, <1>5 DEF Ordered
    <2>2. dfs[i] \in Rest(dfs, m - 1)
      BY DEF Rest
    <2> QED BY <2>1, <2>2
  <1> QED BY <1>1, <1>2, <1>3, <1>4, <1>5 DEF Rest

(* No set exceeds a solution. *)
LEMMA VisitSound ==
  ASSUME NEW g, Shaped(g), EntriesOwn(g), NEW b \in BlocksOf(g), NEW f,
         NEW I \in Sets(g), NEW O \in Sets(g), NEW J, NEW P, Visit(g, b, f, I, O, J, P),
         NEW L, IsSolution(g, L), Sound(g, L, I)
  PROVE  Sound(g, L, J)
  <1> DEFINE n == Width(g, b)
             o == JoinOf(g, I, b)
             q == JoinAt(g, L, b)
             h == SetsAt(g, L, b)
  <1>1. ASSUME NEW s \in BlocksOf(g)
        PROVE  I[EntryOf(g, s)] \subseteq L[s][IF Width(g, s) = 1 THEN 0 ELSE 1]
    <2>1. Width(g, s) \in Nat \ {0} /\ PhiMapOf(g, s) \in Seq(CopiesOf(g))
      BY DEF Shaped
    <2>2. CASE Width(g, s) # 1
      BY <2>1, <2>2 DEF EntryOf, Sound
    <2>3. CASE Width(g, s) = 1 /\ PhiMapOf(g, s) # <<>>
      <3>1. EntryOf(g, s) = PhiMapOf(g, s)[1] /\ EntryOf(g, s) \in BlockCopies(g, s)
        BY <2>1, <2>3 DEF EntryOf, BlockCopies, ToSet
      <3>2. EntryOf(g, s) \in OwnCopies(g, s)
        BY <3>1, EntitiesDiffer DEF EntriesOwn, Own, InstrsIn
      <3> QED BY <2>3, <3>2 DEF Sound
    <2>4. CASE Width(g, s) = 1 /\ PhiMapOf(g, s) = <<>>
      <3>1. EntryOf(g, s) = InstrOf(s, 1)
        BY <2>4 DEF EntryOf
      <3>2. I[InstrOf(s, 1)] \subseteq L[s][1]
        BY <2>4 DEF Sound
      <3>3. BlockCopies(g, s) = {}
        BY <2>4 DEF BlockCopies, ToSet
      <3>4. L[s][0] = L[s][1]
        <4>1. L[s][0] = CopyIn(g, s, L[s][1])
          BY <2>4 DEF IsSolution
        <4>2. \A out : CopyIn(g, s, out) = out
          BY <3>3 DEF CopyIn
        <4> QED BY <4>1, <4>2
      <3> QED BY <2>4, <3>1, <3>2, <3>4
    <2> QED BY <2>2, <2>3, <2>4
  <1>2. o \subseteq q
    <2>1. ToSet(g.succ[b]) \subseteq BlocksOf(g)
      BY DEF Shaped
    <2> QED BY <1>1, <2>1 DEF JoinOf, JoinAt
  <1>3. Before(g, b, o, f) /\ Before(g, b, q, h)
    BY DEF Visit, IsSolution
  <1>4. \A i \in 1 .. n : f[i] \subseteq L[b][i]
    <2>1. h = [i \in 1 .. n |-> L[b][i]]
      BY DEF SetsAt
    <2> HIDE DEF o, q, h
    <2>2. \A i \in 1 .. n : f[i] \subseteq h[i]
      BY <1>2, <1>3, BeforeGrows
    <2> QED BY <2>1, <2>2
  <1>5. n \in 1 .. n
    BY DEF Shaped
  <1>6. \A i \in 1 .. n : J[InstrOf(b, i)] \subseteq L[b][i]
    BY <1>4 DEF Visit, Sound
  <1>7. CopyIn(g, b, f[n]) \subseteq L[b][0]
    <2> DEFINE S == f[n]
               U == L[b][n]
    <2>1. S \subseteq U /\ L[b][0] = CopyIn(g, b, U)
      BY <1>4, <1>5 DEF IsSolution
    <2> HIDE DEF S, U
    <2>2. CopyIn(g, b, S) \subseteq CopyIn(g, b, U)
      BY <2>1, TransferIs
    <2> QED BY <2>1, <2>2 DEF S
  <1>8. \A c \in OwnCopies(g, b) : J[c] \subseteq L[b][0]
    BY <1>7 DEF Visit, OwnCopies
  <1>9. ASSUME NEW d \in BlocksOf(g), d # b
        PROVE  /\ \A i \in 1 .. Width(g, d) : J[InstrOf(d, i)] \subseteq L[d][i]
               /\ \A c \in OwnCopies(g, d) : J[c] \subseteq L[d][0]
    <2>1. Keeps(g, d, I, O, J, P)
      BY <1>9, VisitKeeps
    <2> QED BY <2>1 DEF Own, InstrsIn, Sound, Keeps
  <1> QED BY <1>6, <1>8, <1>9 DEF Sound

KeepsEntry(g, b, I, O, J) ==
    /\ Settled(g, b, I, O) => J[EntryOf(g, b)] = I[EntryOf(g, b)]
    /\ Untouched(g, b, I) => JoinOf(g, I, b) = {}

(* Nothing grows: neither does what enters the block, if it has been visited *)
(* before; if not, nothing is live before its instructions.                 *)
LEMMA VisitQuiet ==
  ASSUME NEW g, Shaped(g), EntriesOwn(g), NEW b \in BlocksOf(g), NEW f,
         NEW I \in Sets(g), NEW O \in Sets(g), NEW J, NEW P, Visit(g, b, f, I, O, J, P),
         \A i \in 1 .. Width(g, b) : f[i] \subseteq I[InstrOf(b, i)]
  PROVE  KeepsEntry(g, b, I, O, J)
  <1> DEFINE n == Width(g, b)
  <1>1. n \in 1 .. n /\ PhiMapOf(g, b) \in Seq(CopiesOf(g)) /\ n \in Nat
    BY DEF Shaped
  <1>2. ASSUME Settled(g, b, I, O)
        PROVE  J[EntryOf(g, b)] = I[EntryOf(g, b)]
    <2>1. \A i \in 1 .. n : J[InstrOf(b, i)] = f[i] /\ f[i] = I[InstrOf(b, i)]
      <3>1. Settles(g, b, f, I, J, P)
        BY <1>2, VisitSettles
      <3> QED BY <3>1 DEF Settles
    <2>2. CASE EntryOf(g, b) = InstrOf(b, 1)
      BY <1>1, <2>1, <2>2
    <2>3. CASE EntryOf(g, b) # InstrOf(b, 1)
      <3>1. EntryOf(g, b) = PhiMapOf(g, b)[1] /\ EntryOf(g, b) \in BlockCopies(g, b)
        BY <1>1, <2>3 DEF EntryOf, BlockCopies, ToSet
      <3>2. EntryOf(g, b) \in OwnCopies(g, b)
        BY <3>1, EntitiesDiffer DEF EntriesOwn, Own, InstrsIn
      <3>3. I[EntryOf(g, b)] = CopyIn(g, b, I[InstrOf(b, n)])
        BY <1>1, <1>2, <3>2 DEF Settled, SetsIn
      <3>4. J[EntryOf(g, b)] = CopyIn(g, b, f[n])
        BY <3>1 DEF Visit
      <3> QED BY <1>1, <2>1, <3>3, <3>4
    <2> QED BY <2>2, <2>3
  <1>3. ASSUME Untouched(g, b, I)
        PROVE  JoinOf(g, I, b) = {}
    <2> DEFINE o == JoinOf(g, I, b)
    <2>1. InstrOf(b, n) \in Own(g, b)
      BY <1>1 DEF Own, InstrsIn
    <2>2. f[n] = {}
      BY <1>1, <1>3, <2>1 DEF Untouched
    <2>3. f[n] = TransferFunction(g.body[b][n], o)
      BY <1>1 DEF Visit, Before, OutAt
    <2>4. o \in SUBSET ValuesOf(g)
      BY OwnIs
    <2> HIDE DEF o
    <2>5. o \subseteq TransferFunction(g.body[b][n], o)
      BY <2>4, TransferIs
    <2>6. o = {}
      BY <2>2, <2>3, <2>5
    <2> QED BY <2>6 DEF o
  <1> QED BY <1>2, <1>3 DEF KeepsEntry

(* A sweep begins with no block visited and nothing awaited. *)
LEMMA SweepBegins ==
  ASSUME NEW g, NEW dfs, Ordered(g, dfs), NEW I, NEW O, SweepInv(g, dfs, 0, TRUE, I, O)
  PROVE  SweepInv(g, dfs, Len(dfs), FALSE, I, O)
  <1>1. Rest(dfs, Len(dfs)) = BlocksOf(g)
    BY DEF Rest, Ordered
  <1>2. Rest(dfs, 0) = {}
    BY DEF Rest
  <1>3. Visits(g, dfs, Len(dfs), FALSE, I, O)
    <2>1. Visits(g, dfs, 0, TRUE, I, O)
      BY DEF SweepInv
    <2> QED BY <1>1, <1>2, <2>1 DEF Visits
  <1>4. \A s : Seen(g, Rest(dfs, Len(dfs)), I, O, s)
    BY <1>1 DEF Seen
  <1> QED BY <1>3, <1>4 DEF SweepInv

(* The visits of a sweep, one more made. *)
LEMMA VisitsNext ==
  ASSUME NEW g, Shaped(g), EntriesOwn(g), NEW dfs, Ordered(g, dfs), NEW m \in 1 .. Len(dfs),
         NEW b, b = dfs[m], NEW f, NEW I \in Sets(g), NEW O \in Sets(g), NEW J, NEW P,
         Visit(g, b, f, I, O, J, P), NEW ch, NEW dh, Visits(g, dfs, m, ch, I, O)
  PROVE  /\ Settled(g, b, I, O) \/ Untouched(g, b, I)
         /\ Visits(g, dfs, m - 1, dh, J, P)
  <1>1. /\ b \in BlocksOf(g) /\ Rest(dfs, m) = Rest(dfs, m - 1) \cup {b} /\ b \notin Rest(dfs, m - 1)
        /\ m # 0
    BY RestIs
  <1>2. Settled(g, b, I, O) \/ Untouched(g, b, I)
    BY <1>1 DEF Visits
  <1>3. Settled(g, b, J, P) /\ \A d \in BlocksOf(g) : JoinOf(g, I, d) \subseteq JoinOf(g, J, d)
    <2>1. Settles(g, b, f, I, J, P)
      BY <1>1, <1>2, VisitSettles
    <2> QED BY <2>1 DEF Settles
  <1>4. ASSUME NEW d \in BlocksOf(g), d # b
        PROVE  /\ Untouched(g, d, I) => Untouched(g, d, J)
               /\ Settled(g, d, I, O) => Settled(g, d, J, P)
    <2>1. Keeps(g, d, I, O, J, P)
      BY <1>1, <1>4, VisitKeeps
    <2> QED BY <1>3, <2>1 DEF Keeps
  <1>5. CASE \A d \in BlocksOf(g) : Settled(g, d, I, O)
    <2>1. \A d \in BlocksOf(g) : Settled(g, d, J, P)
      BY <1>3, <1>4, <1>5
    <2> QED BY <1>2, <2>1, Zenon DEF Visits
  <1>6. CASE \A d \in BlocksOf(g) : (d \in Rest(dfs, m) => Untouched(g, d, I))
                                     /\ (d \notin Rest(dfs, m) => Settled(g, d, I, O))
    <2>1. ASSUME NEW d \in BlocksOf(g)
          PROVE  /\ d \in Rest(dfs, m - 1) => Untouched(g, d, J)
                 /\ d \notin Rest(dfs, m - 1) => Settled(g, d, J, P)
      <3>1. CASE d = b
        BY <1>1, <1>3, <3>1
      <3>2. CASE d # b
        BY <1>1, <1>4, <1>6, <3>2
      <3> QED BY <3>1, <3>2
    <2> QED BY <1>2, <2>1, Zenon DEF Visits
  <1> QED BY <1>1, <1>2, <1>5, <1>6 DEF Visits

(* A visit keeps the invariant of the sweep. *)
LEMMA SweepNext ==
  ASSUME NEW g, Shaped(g), EntriesOwn(g), NEW dfs, Ordered(g, dfs), NEW m \in 1 .. Len(dfs),
         NEW b, b = dfs[m], NEW f, NEW I \in Sets(g), NEW O \in Sets(g), NEW J, NEW P,
         Visit(g, b, f, I, O, J, P), NEW ch, NEW dh,
         dh <=> ch \/ \E i \in 1 .. Width(g, b) : ~(f[i] \subseteq I[InstrOf(b, i)]),
         SweepInv(g, dfs, m, ch, I, O)
  PROVE  SweepInv(g, dfs, m - 1, dh, J, P)
  <1>1. /\ b \in BlocksOf(g) /\ Rest(dfs, m) = Rest(dfs, m - 1) \cup {b} /\ b \notin Rest(dfs, m - 1)
        /\ b # First(g) => \E p \in Rest(dfs, m - 1) : b \in ToSet(g.succ[p])
        /\ Rest(dfs, m) \subseteq BlocksOf(g) /\ m # 0
    BY RestIs
  <1>2. /\ Settled(g, b, I, O) \/ Untouched(g, b, I)
        /\ Visits(g, dfs, m - 1, dh, J, P)
    BY VisitsNext DEF SweepInv
  <1>3. \A L : IsSolution(g, L) => Sound(g, L, J)
    BY <1>1, VisitSound DEF SweepInv
  <1>4. ASSUME ~dh, NEW s \in BlocksOf(g) \ {First(g)}
        PROVE  Seen(g, Rest(dfs, m - 1), J, P, s) \/ Awaited(g, Rest(dfs, m - 1), J, s)
    <2>1. Seen(g, Rest(dfs, m), I, O, s) \/ Awaited(g, Rest(dfs, m), I, s)
      BY <1>4 DEF SweepInv
    <2>2. \A i \in 1 .. Width(g, b) : f[i] \subseteq I[InstrOf(b, i)]
      BY <1>4
    <2>3. /\ Settled(g, b, I, O) => J[EntryOf(g, b)] = I[EntryOf(g, b)]
          /\ Untouched(g, b, I) => JoinOf(g, I, b) = {}
      <3>1. KeepsEntry(g, b, I, O, J)
        BY <1>1, <2>2, VisitQuiet
      <3> QED BY <3>1 DEF KeepsEntry
    <2>5. OutOf(g, b, P) = JoinOf(g, I, b)
      <3>1. Settles(g, b, f, I, J, P)
        BY <1>1, <1>2, VisitSettles
      <3> QED BY <3>1 DEF Settles
    <2>11. \A d \in BlocksOf(g) : d # b => Keeps(g, d, I, O, J, P)
      BY <1>1, VisitKeeps
    <2>4. s # b => J[EntryOf(g, s)] = I[EntryOf(g, s)]
      BY <2>11 DEF EntriesOwn, Keeps
    <2>6. \A d \in BlocksOf(g) : d # b => OutOf(g, d, P) = OutOf(g, d, O) /\ (Untouched(g, d, I) => Untouched(g, d, J))
      BY <2>11 DEF Keeps
    <2>7. s \in ToSet(g.succ[b]) => I[EntryOf(g, s)] \subseteq JoinOf(g, I, b)
      BY DEF JoinOf
    <2>8. CASE Seen(g, Rest(dfs, m), I, O, s) /\ J[EntryOf(g, s)] = I[EntryOf(g, s)]
      <3>1. ASSUME NEW d \in BlocksOf(g) \ Rest(dfs, m - 1), s \in ToSet(g.succ[d])
            PROVE  J[EntryOf(g, s)] \subseteq OutOf(g, d, P)
        <4>1. CASE d = b
          BY <2>5, <2>7, <2>8, <3>1, <4>1
        <4>2. CASE d # b
          <5>1. d \in BlocksOf(g) \ Rest(dfs, m)
            BY <1>1, <4>2
          <5>2. I[EntryOf(g, s)] \subseteq OutOf(g, d, O)
            BY <2>8, <3>1, <5>1 DEF Seen
          <5> QED BY <2>6, <2>8, <4>2, <5>2
        <4> QED BY <4>1, <4>2
      <3> QED BY <3>1 DEF Seen
    <2>9. CASE J[EntryOf(g, s)] # I[EntryOf(g, s)]
      <3>1. s = b /\ ~Settled(g, b, I, O)
        BY <2>3, <2>4, <2>9
      <3>2. CASE J[EntryOf(g, s)] = {}
        BY <3>2 DEF Seen
      <3>3. CASE J[EntryOf(g, s)] # {}
        <4>1. PICK p \in Rest(dfs, m - 1) : b \in ToSet(g.succ[p])
          BY <1>1, <1>4, <3>1
        <4>2. p # b /\ p \in Rest(dfs, m) /\ p \in BlocksOf(g)
          BY <1>1, <4>1
        <4>3. Untouched(g, p, I)
          BY <1>1, <3>1, <4>2 DEF SweepInv, Visits
        <4> QED BY <2>6, <3>1, <3>3, <4>1, <4>2, <4>3 DEF Awaited
      <3> QED BY <3>2, <3>3
    <2>10. CASE Awaited(g, Rest(dfs, m), I, s) /\ J[EntryOf(g, s)] = I[EntryOf(g, s)]
      <3>1. PICK p \in Rest(dfs, m) : s \in ToSet(g.succ[p]) /\ Untouched(g, p, I)
        BY <2>10 DEF Awaited
      <3>2. p # b
        BY <2>3, <2>7, <2>10, <3>1 DEF Awaited
      <3>3. p \in Rest(dfs, m - 1) /\ Untouched(g, p, J)
        BY <1>1, <2>6, <3>1, <3>2
      <3> QED BY <2>10, <3>1, <3>3 DEF Awaited
    <2> QED BY <2>1, <2>8, <2>9, <2>10
  <1> QED BY <1>2, <1>3, <1>4 DEF SweepInv

(* A sweep in which nothing grew ends with a solution, the least one. *)
Fixed(g, I, O) ==
    \A b \in BlocksOf(g) : Settled(g, b, I, O) /\ OutOf(g, b, O) = JoinOf(g, I, b)

(* A sweep in which nothing grew has reached a fixed point of every block. *)
LEMMA SweepEnds ==
  ASSUME NEW g, Shaped(g), NEW dfs, NEW I, NEW O, SweepInv(g, dfs, 0, FALSE, I, O)
  PROVE  Fixed(g, I, O)
  <1>1. Rest(dfs, 0) = {}
    BY DEF Rest
  <1>2. \A b \in BlocksOf(g) : Settled(g, b, I, O)
    BY <1>1 DEF SweepInv, Visits
  <1>3. \A s \in BlocksOf(g) \ {First(g)} : Seen(g, {}, I, O, s)
    BY <1>1 DEF SweepInv, Awaited
  <1>4. ASSUME NEW b \in BlocksOf(g) PROVE JoinOf(g, I, b) \subseteq OutOf(g, b, O)
    <2>1. \A s \in ToSet(g.succ[b]) : s \in BlocksOf(g) \ {First(g)}
      BY DEF Shaped
    <2>2. \A s \in ToSet(g.succ[b]) : I[EntryOf(g, s)] \subseteq OutOf(g, b, O)
      BY <1>3, <2>1 DEF Seen
    <2> QED BY <2>2 DEF JoinOf
  <1> QED BY <1>2, <1>4 DEF Fixed, Settled

-----------------------------------------------------------------------------
(* Pairs of values and points, and what they are at each point of a block. *)
IsLevels(K) == \A b \in Blocks : K[b] \in [0 .. Width(prog, b) -> SUBSET Values]

AtLevels(S, K) ==
    \A v \in Values : \A b \in Blocks : \A i \in 0 .. Width(prog, b) :
        <<v, PointAt(b, i)>> \in S <=> v \in K[b][i]

Behind(K, b, i) ==
    LET n == Width(prog, b)
    IN  IF i = n THEN JoinAt(prog, K, b)
        ELSE K[b][IF i = 0 THEN n ELSE IF i = n - 1 THEN 0 ELSE i + 1]

Within(K, b, i) ==
    IF i = 0 THEN CopyIn(prog, b, K[b][Width(prog, b)])
    ELSE TransferFunction(prog.body[b][i], Behind(K, b, i))

Related(S, K, b, i) ==
    /\ \A v \in Values : v \in Behind(K, b, i) <=> \E s \in SuccPoints(PointAt(b, i)) : <<v, s>> \in S
    /\ \A v \in Values : v \in Within(K, b, i) <=> Demands(S, v, PointAt(b, i))
    /\ Behind(K, b, i) \in SUBSET Values /\ Within(K, b, i) \in SUBSET Values

(* Along a block, the equations relate each point to the next. *)
LEMMA LevelsAre ==
  ASSUME Shaped(prog), NEW S, NEW K, IsLevels(K), AtLevels(S, K),
         NEW b \in Blocks, NEW i \in 0 .. Width(prog, b)
  PROVE  Related(S, K, b, i)
  <1> DEFINE n == Width(prog, b)
             p == PointAt(b, i)
  <1>1. n \in Nat \ {0} /\ Blocks = BlocksOf(prog) /\ Values = ValuesOf(prog) /\ b \in BlocksOf(prog)
    BY PointsAre DEF Shaped
  <1>2. /\ SuccPoints(p) = After(b, i)
        /\ UsedAt(p) = IF i = 0 THEN {c.src : c \in BlockCopies(prog, b)} ELSE prog.body[b][i].uses
        /\ DefinedAt(p) = IF i = 0 THEN {c.dst : c \in BlockCopies(prog, b)} ELSE {prog.body[b][i].def}
    BY SuccPointsAre DEF BlockCopies
  <1> HIDE DEF p
  <1>3. ASSUME i = n
        PROVE  /\ \A v \in Values : v \in Behind(K, b, i) <=> \E s \in After(b, i) : <<v, s>> \in S
               /\ Behind(K, b, i) \in SUBSET Values
    <2> DEFINE at(s) == IF Width(prog, s) = 1 THEN 0 ELSE 1
    <2>1. Behind(K, b, i) = UNION {K[s][at(s)] : s \in ToSet(prog.succ[b])}
      BY <1>3 DEF Behind, JoinAt
    <2>2. After(b, i) = {Entry(s) : s \in ToSet(prog.succ[b])}
      BY <1>3 DEF After
    <2>3. \A s \in ToSet(prog.succ[b]) : s \in Blocks
      BY <1>1 DEF Shaped
    <2>4. \A s \in Blocks : Entry(s) = PointAt(s, at(s)) /\ at(s) \in 0 .. Width(prog, s)
      <3> SUFFICES ASSUME NEW s \in Blocks PROVE Entry(s) = PointAt(s, at(s)) /\ at(s) \in 0 .. Width(prog, s)
        OBVIOUS
      <3>1. Width(prog, s) \in Nat \ {0}
        BY <1>1 DEF Shaped
      <3> QED BY <3>1, EntryIs
    <2> HIDE DEF at
    <2>5. \A s \in ToSet(prog.succ[b]) : \A v \in Values : <<v, Entry(s)>> \in S <=> v \in K[s][at(s)]
      BY <2>3, <2>4 DEF AtLevels
    <2>6. \A s \in ToSet(prog.succ[b]) : K[s][at(s)] \in SUBSET Values
      BY <2>3, <2>4 DEF IsLevels
    <2> QED BY <2>1, <2>2, <2>5, <2>6
  <1>4. ASSUME i # n
        PROVE  /\ \A v \in Values : v \in Behind(K, b, i) <=> \E s \in After(b, i) : <<v, s>> \in S
               /\ Behind(K, b, i) \in SUBSET Values
    <2> DEFINE k == IF i = 0 THEN n ELSE IF i = n - 1 THEN 0 ELSE i + 1
    <2>1. k \in 0 .. n
      BY <1>1, <1>4
    <2>2. Behind(K, b, i) = K[b][k] /\ After(b, i) = {PointAt(b, k)}
      BY <1>4 DEF Behind, After
    <2> HIDE DEF k
    <2>3. \A v \in Values : v \in K[b][k] <=> <<v, PointAt(b, k)>> \in S
      BY <2>1 DEF AtLevels
    <2>4. K[b][k] \in SUBSET Values
      BY <2>1 DEF IsLevels
    <2> QED BY <2>2, <2>3, <2>4
  <1>5. \A v \in Values : v \in Behind(K, b, i) <=> \E s \in SuccPoints(p) : <<v, s>> \in S
    BY <1>2, <1>3, <1>4
  <1>6. Behind(K, b, i) \in SUBSET Values
    BY <1>3, <1>4
  <1>7. n \in 0 .. n /\ K[b][n] \in SUBSET Values
    BY <1>1 DEF IsLevels
  <1>8. \A v \in Values : v \in Within(K, b, i) <=> Demands(S, v, p)
    <2>1. CASE i = 0
      <3>1. Behind(K, b, i) = K[b][n]
        BY <1>1, <2>1 DEF Behind
      <3>2. Null \notin Values
        BY <1>1 DEF Shaped
      <3> QED BY <1>2, <1>5, <2>1, <3>1, <3>2 DEF Within, Demands, CopyIn
    <2>2. CASE i # 0
      BY <1>2, <1>5, <2>2 DEF Within, Demands, TransferFunction
    <2> QED BY <2>1, <2>2
  <1>9. Within(K, b, i) \in SUBSET Values
    <2>1. CASE i = 0
      <3> DEFINE U == K[b][n]
      <3>1. U \in SUBSET ValuesOf(prog)
        BY <1>1, <1>7
      <3> HIDE DEF U
      <3>2. CopyIn(prog, b, U) \in SUBSET ValuesOf(prog)
        BY <1>1, <3>1, TransferIs
      <3> QED BY <1>1, <2>1, <3>2 DEF Within, U
    <2>2. CASE i # 0
      <3> DEFINE U == Behind(K, b, i)
      <3>1. U \in SUBSET ValuesOf(prog) /\ i \in 1 .. n
        BY <1>1, <1>6, <2>2
      <3> HIDE DEF U
      <3>2. TransferFunction(prog.body[b][i], U) \in SUBSET ValuesOf(prog)
        BY <1>1, <3>1, TransferIs
      <3> QED BY <1>1, <2>2, <3>2 DEF Within, U
    <2> QED BY <2>1, <2>2
  <1> QED BY <1>5, <1>6, <1>8, <1>9 DEF p, Related

(* The equations of the points are those of the blocks. *)
LEMMA SolutionsAre ==
  ASSUME Shaped(prog), NEW S, NEW K, IsLevels(K), AtLevels(S, K)
  PROVE  Solution(S) <=> IsSolution(prog, K)
  <1>1. Blocks = BlocksOf(prog) /\ Values = ValuesOf(prog)
    BY PointsAre
  <1>2. \A b \in Blocks : Width(prog, b) \in Nat \ {0}
    BY <1>1 DEF Shaped
  <1>3. Solution(S) <=> \A b \in Blocks : \A i \in 0 .. Width(prog, b) : K[b][i] = Within(K, b, i)
    <2>1. \A b \in Blocks : \A i \in 0 .. Width(prog, b) :
            /\ K[b][i] \in SUBSET Values /\ Within(K, b, i) \in SUBSET Values
            /\ \A v \in Values : v \in Within(K, b, i) <=> Demands(S, v, PointAt(b, i))
            /\ \A v \in Values : v \in K[b][i] <=> <<v, PointAt(b, i)>> \in S
      <3>1. \A b \in Blocks : \A i \in 0 .. Width(prog, b) : Related(S, K, b, i)
        BY LevelsAre
      <3> QED BY <3>1 DEF IsLevels, AtLevels, Related
    <2>2. /\ \A b \in Blocks : \A i \in 0 .. Width(prog, b) : PointAt(b, i) \in Points
          /\ \A p \in Points : \E b \in Blocks : \E i \in 0 .. Width(prog, b) : p = PointAt(b, i)
      BY PointsAre
    <2>3. ASSUME Solution(S), NEW b \in Blocks, NEW i \in 0 .. Width(prog, b)
          PROVE  K[b][i] = Within(K, b, i)
      <3>1. \A v \in Values : v \in K[b][i] <=> v \in Within(K, b, i)
        BY <2>1, <2>2, <2>3 DEF Solution
      <3>2. K[b][i] \in SUBSET Values /\ Within(K, b, i) \in SUBSET Values
        BY <2>1
      <3> QED BY <3>1, <3>2
    <2>4. ASSUME \A b \in Blocks : \A i \in 0 .. Width(prog, b) : K[b][i] = Within(K, b, i)
          PROVE  Solution(S)
      <3> SUFFICES ASSUME NEW v \in Values, NEW p \in Points
                   PROVE  <<v, p>> \in S <=> Demands(S, v, p)
        BY DEF Solution
      <3>1. PICK b \in Blocks : \E i \in 0 .. Width(prog, b) : p = PointAt(b, i)
        BY <2>2
      <3>2. PICK i \in 0 .. Width(prog, b) : p = PointAt(b, i)
        BY <3>1
      <3> QED BY <2>1, <2>4, <3>2
    <2> QED BY <2>3, <2>4
  <1>4. ASSUME NEW b \in Blocks
        PROVE  (\A i \in 0 .. Width(prog, b) : K[b][i] = Within(K, b, i))
                <=> /\ Before(prog, b, JoinAt(prog, K, b), SetsAt(prog, K, b))
                    /\ K[b][0] = CopyIn(prog, b, K[b][Width(prog, b)])
    <2> DEFINE n == Width(prog, b)
               f == SetsAt(prog, K, b)
               q == JoinAt(prog, K, b)
    <2>1. n \in Nat \ {0} /\ 0 .. n = {0} \cup 1 .. n /\ n \in 1 .. n
      BY <1>2
    <2>2. f \in [1 .. n -> SUBSET ValuesOf(prog)] /\ \A i \in 1 .. n : f[i] = K[b][i]
      BY <1>1, <2>1 DEF SetsAt, IsLevels
    <2>3. Within(K, b, 0) = CopyIn(prog, b, K[b][n])
      BY DEF Within
    <2> HIDE DEF f, q
    <2>4. ASSUME K[b][0] = CopyIn(prog, b, K[b][n]), NEW i \in 1 .. n
          PROVE  Within(K, b, i) = TransferFunction(prog.body[b][i], OutAt(prog, b, q, f, i))
      <3>1. i # 0 /\ (i # n => i + 1 \in 1 .. n)
        BY <2>1
      <3>2. Behind(K, b, i) = OutAt(prog, b, q, f, i)
        BY <2>1, <2>2, <2>4, <3>1 DEF Behind, OutAt, q
      <3> QED BY <3>1, <3>2 DEF Within
    <2>5. (\A i \in 0 .. n : K[b][i] = Within(K, b, i))
            <=> K[b][0] = Within(K, b, 0) /\ \A i \in 1 .. n : K[b][i] = Within(K, b, i)
      BY <2>1
    <2>6. K[b][0] = CopyIn(prog, b, K[b][n]) =>
            (Before(prog, b, q, f) <=> \A i \in 1 .. n : K[b][i] = Within(K, b, i))
      BY <2>2, <2>4 DEF Before
    <2> QED BY <2>3, <2>5, <2>6 DEF f, q
  <1> QED BY <1>1, <1>3, <1>4 DEF IsSolution

(* What a finished analysis has found: the least solution. *)
Exact(I, O) ==
    \A b \in Blocks : \A v \in Values :
        /\ \A i \in 1 .. Width(prog, b) :
            /\ v \in I[InstrOf(b, i)] <=> <<v, PointAt(b, i)>> \in Live
            /\ v \in O[InstrOf(b, i)] <=> \E s \in SuccPoints(PointAt(b, i)) : <<v, s>> \in Live
        /\ \A c \in OwnCopies(prog, b) :
            /\ v \in I[c] <=> <<v, PointAt(b, 0)>> \in Live
            /\ v \in O[c] <=> \E s \in SuccPoints(PointAt(b, 0)) : <<v, s>> \in Live

(* A fixed point of the blocks is a solution at the points. *)
LEMMA FixedIsSolution ==
  ASSUME NEW g, Shaped(g), EntriesOwn(g), NEW I \in Sets(g), NEW O, Fixed(g, I, O),
         NEW K, K = [b \in BlocksOf(g) |-> [i \in 0 .. Width(g, b) |->
                        IF i = 0 THEN CopyIn(g, b, I[InstrOf(b, Width(g, b))]) ELSE I[InstrOf(b, i)]]]
  PROVE  IsSolution(g, K) /\ \A b \in BlocksOf(g) : JoinAt(g, K, b) = JoinOf(g, I, b)
  <1>1. ASSUME NEW s \in BlocksOf(g)
        PROVE  K[s][IF Width(g, s) = 1 THEN 0 ELSE 1] = I[EntryOf(g, s)]
    <2>1. Width(g, s) \in Nat \ {0} /\ PhiMapOf(g, s) \in Seq(CopiesOf(g))
      BY DEF Shaped
    <2>2. CASE Width(g, s) # 1
      BY <2>1, <2>2 DEF EntryOf
    <2>3. CASE Width(g, s) = 1 /\ PhiMapOf(g, s) # <<>>
      <3>1. EntryOf(g, s) = PhiMapOf(g, s)[1] /\ EntryOf(g, s) \in BlockCopies(g, s)
        BY <2>1, <2>3 DEF EntryOf, BlockCopies, ToSet
      <3>2. EntryOf(g, s) \in OwnCopies(g, s)
        BY <3>1, EntitiesDiffer DEF EntriesOwn, Own, InstrsIn
      <3>3. Settled(g, s, I, O)
        BY DEF Fixed
      <3>4. I[EntryOf(g, s)] = CopyIn(g, s, I[InstrOf(s, 1)])
        BY <2>3, <3>2, <3>3 DEF Settled, SetsIn
      <3> QED BY <2>3, <3>4
    <2>4. CASE Width(g, s) = 1 /\ PhiMapOf(g, s) = <<>>
      <3>1. EntryOf(g, s) = InstrOf(s, 1)
        BY <2>4 DEF EntryOf
      <3>2. BlockCopies(g, s) = {}
        BY <2>4 DEF BlockCopies, ToSet
      <3>3. CopyIn(g, s, I[InstrOf(s, 1)]) = I[InstrOf(s, 1)]
        BY <3>2 DEF CopyIn
      <3> QED BY <2>4, <3>1, <3>3
    <2> QED BY <2>2, <2>3, <2>4
  <1>2. ASSUME NEW b \in BlocksOf(g)
        PROVE  /\ Before(g, b, JoinAt(g, K, b), SetsAt(g, K, b)) /\ JoinAt(g, K, b) = JoinOf(g, I, b)
               /\ K[b][0] = CopyIn(g, b, K[b][Width(g, b)])
    <2>1. Width(g, b) \in Nat \ {0} /\ \A s \in ToSet(g.succ[b]) : s \in BlocksOf(g)
      BY DEF Shaped
    <2>2. JoinAt(g, K, b) = JoinOf(g, I, b)
      <3> DEFINE at(s) == IF Width(g, s) = 1 THEN 0 ELSE 1
      <3>1. \A s \in ToSet(g.succ[b]) : K[s][at(s)] = I[EntryOf(g, s)]
        BY <1>1, <2>1
      <3>2. JoinAt(g, K, b) = UNION {K[s][at(s)] : s \in ToSet(g.succ[b])}
        BY DEF JoinAt
      <3> HIDE DEF at
      <3> QED BY <3>1, <3>2 DEF JoinOf
    <2>3. SetsAt(g, K, b) = SetsIn(g, b, I)
      BY <2>1 DEF SetsAt, SetsIn
    <2>4. Before(g, b, JoinOf(g, I, b), SetsIn(g, b, I))
      BY DEF Fixed, Settled
    <2>5. K[b][0] = CopyIn(g, b, K[b][Width(g, b)])
      BY <2>1
    <2> QED BY <2>2, <2>3, <2>4, <2>5
  <1> QED BY <1>2 DEF IsSolution

(* A fixed point within every solution is the set Live of the definition. *)
LEMMA FixedIsExact ==
  ASSUME Shaped(prog), EntriesOwn(prog), NEW I \in Sets(prog), NEW O, Fixed(prog, I, O),
         \A L : IsSolution(prog, L) => Sound(prog, L, I)
  PROVE  Exact(I, O)
  <1> DEFINE K == [b \in BlocksOf(prog) |-> [i \in 0 .. Width(prog, b) |->
                        IF i = 0 THEN CopyIn(prog, b, I[InstrOf(b, Width(prog, b))]) ELSE I[InstrOf(b, i)]]]
             L == [b \in BlocksOf(prog) |-> [i \in 0 .. Width(prog, b) |->
                        {v \in Values : <<v, PointAt(b, i)>> \in Live}]]
             C == {x \in Values \X Points : x[1] \in K[x[2][1]][x[2][2]]}
  <1>1. Blocks = BlocksOf(prog) /\ Values = ValuesOf(prog)
    BY PointsAre
  <1>2. \A b \in Blocks : Width(prog, b) \in Nat \ {0}
    BY <1>1 DEF Shaped
  <1>3. \A b \in Blocks : \A i \in 1 .. Width(prog, b) :
            InstrOf(b, i) \in EntitiesOf(prog) /\ I[InstrOf(b, i)] \in SUBSET Values
    BY <1>1, EntitiesDiffer DEF Sets
  <1>4. IsLevels(K)
    <2> SUFFICES ASSUME NEW b \in Blocks PROVE K[b] \in [0 .. Width(prog, b) -> SUBSET Values]
      BY DEF IsLevels
    <2> DEFINE U == I[InstrOf(b, Width(prog, b))]
    <2>1. U \in SUBSET ValuesOf(prog)
      BY <1>1, <1>2, <1>3
    <2>2. CopyIn(prog, b, U) \in SUBSET ValuesOf(prog)
      <3> HIDE DEF U
      <3> QED BY <1>1, <2>1, TransferIs
    <2>3. \A i \in 0 .. Width(prog, b) : i = 0 \/ i \in 1 .. Width(prog, b)
      BY <1>2
    <2> QED BY <1>1, <1>3, <2>2, <2>3
  <1>5. \A b \in Blocks : \A i \in 0 .. Width(prog, b) : PointAt(b, i) \in Points
    BY PointsAre
  <1>6. AtLevels(C, K)
    BY <1>5 DEF AtLevels, PointAt
  <1>7. IsLevels(L) /\ AtLevels(Live, L)
    BY <1>1 DEF IsLevels, AtLevels
  <1>8. IsSolution(prog, K) /\ \A b \in BlocksOf(prog) : JoinAt(prog, K, b) = JoinOf(prog, I, b)
    BY FixedIsSolution
  <1>9. C \in SUBSET (Values \X Points)
    OBVIOUS
  <1>10. /\ \A b \in Blocks : \A i \in 1 .. Width(prog, b) : K[b][i] = I[InstrOf(b, i)]
         /\ \A b \in Blocks : K[b][0] = CopyIn(prog, b, K[b][Width(prog, b)])
    BY <1>1, <1>2
  <1> HIDE DEF K, L, C
  <1>11. Live \subseteq C
    <2>1. Solution(C)
      BY <1>4, <1>6, <1>8, SolutionsAre
    <2>2. ClosedPairs(C)
      BY <2>1 DEF Solution, ClosedPairs
    <2> QED BY <1>9, <2>2, LiveIsLeast
  <1>12. IsSolution(prog, L)
    BY <1>7, SolutionsAre, LiveIsLeast
  <1>13. \A b \in Blocks : \A i \in 1 .. Width(prog, b) : K[b][i] \subseteq L[b][i]
    BY <1>1, <1>10, <1>12 DEF Sound
  <1>14. \A b \in Blocks : \A i \in 0 .. Width(prog, b) : L[b][i] \subseteq K[b][i]
    BY <1>6, <1>7, <1>11 DEF AtLevels, IsLevels
  <1>15. \A b \in Blocks : \A i \in 0 .. Width(prog, b) : K[b][i] = L[b][i]
    <2>1. ASSUME NEW b \in Blocks, NEW i \in 1 .. Width(prog, b) PROVE K[b][i] = L[b][i]
      <3>1. i \in 0 .. Width(prog, b)
        BY <1>2
      <3> QED BY <1>13, <1>14, <3>1
    <2>2. ASSUME NEW b \in Blocks PROVE K[b][0] = L[b][0]
      <3>1. K[b][Width(prog, b)] = L[b][Width(prog, b)]
        BY <1>2, <2>1
      <3> QED BY <1>1, <1>10, <1>12, <3>1 DEF IsSolution
    <2> QED BY <1>2, <2>1, <2>2
  <1>16. /\ \A v \in Values, b \in Blocks : \A i \in 0 .. Width(prog, b) :
                v \in K[b][i] <=> <<v, PointAt(b, i)>> \in Live
         /\ \A v \in Values, b \in Blocks : \A i \in 0 .. Width(prog, b) :
                v \in Behind(K, b, i) <=> \E s \in SuccPoints(PointAt(b, i)) : <<v, s>> \in Live
    <2>1. AtLevels(Live, K)
      BY <1>7, <1>15 DEF AtLevels
    <2>2. \A b \in Blocks : \A i \in 0 .. Width(prog, b) : Related(Live, K, b, i)
      BY <1>4, <2>1, LevelsAre
    <2> QED BY <2>1, <2>2 DEF AtLevels, Related
  <1>17. ASSUME NEW b \in Blocks, NEW i \in 1 .. Width(prog, b)
         PROVE  O[InstrOf(b, i)] = Behind(K, b, i)
    <2> DEFINE n == Width(prog, b)
               o == OutOf(prog, b, O)
               f == SetsIn(prog, b, I)
    <2>1. Settled(prog, b, I, O) /\ o = JoinOf(prog, I, b)
      BY <1>1 DEF Fixed
    <2>2. O[InstrOf(b, i)] = OutAt(prog, b, o, f, i)
      BY <2>1 DEF Settled
    <2>3. n \in Nat \ {0} /\ \A k \in 1 .. n : f[k] = K[b][k]
      BY <1>2, <1>10 DEF SetsIn
    <2>4. CASE i = n
      <3>1. O[InstrOf(b, i)] = JoinOf(prog, I, b)
        BY <2>1, <2>4 DEF OutOf
      <3> QED BY <1>1, <1>8, <2>4, <3>1 DEF Behind
    <2>5. CASE i # n
      <3>1. i + 1 \in 1 .. n /\ i # 0 /\ n \in 1 .. n
        BY <2>3, <2>5
      <3> QED BY <1>10, <2>2, <2>3, <2>5, <3>1 DEF OutAt, Behind
    <2> QED BY <2>4, <2>5
  <1>18. ASSUME NEW b \in Blocks, NEW c \in OwnCopies(prog, b)
         PROVE  I[c] = K[b][0] /\ O[c] = Behind(K, b, 0)
    <2> DEFINE n == Width(prog, b)
    <2>1. Settled(prog, b, I, O) /\ n \in 1 .. n /\ 0 # n
      BY <1>1, <1>2 DEF Fixed
    <2>2. I[c] = CopyIn(prog, b, I[InstrOf(b, n)]) /\ O[c] = I[InstrOf(b, n)]
      BY <2>1 DEF Settled, SetsIn
    <2> QED BY <1>10, <2>1, <2>2 DEF Behind
  <1>19. ASSUME NEW b \in Blocks, NEW v \in Values
         PROVE  /\ \A i \in 1 .. Width(prog, b) :
                    /\ v \in I[InstrOf(b, i)] <=> <<v, PointAt(b, i)>> \in Live
                    /\ v \in O[InstrOf(b, i)] <=> \E s \in SuccPoints(PointAt(b, i)) : <<v, s>> \in Live
                /\ \A c \in OwnCopies(prog, b) :
                    /\ v \in I[c] <=> <<v, PointAt(b, 0)>> \in Live
                    /\ v \in O[c] <=> \E s \in SuccPoints(PointAt(b, 0)) : <<v, s>> \in Live
    <2>1. 0 \in 0 .. Width(prog, b) /\ \A i \in 1 .. Width(prog, b) : i \in 0 .. Width(prog, b)
      BY <1>2
    <2> QED BY <1>10, <1>16, <1>17, <1>18, <2>1
  <1> QED BY <1>19 DEF Exact

-----------------------------------------------------------------------------
(* Numbers. *)
IdIn(nb, e) == CHOOSE id \in DOMAIN nb :
                 /\ nb[id] = e
                 /\ \A k \in id + 1 .. Len(nb) : nb[k] # e

InOrderOf(g, b) ==
    LET instrs == [i \in DOMAIN g.body[b] |-> [bb |-> b, pos |-> i]]
    IN  Front(instrs) \o PhiMapOf(g, b) \o <<Last(instrs)>>

NumberedBy(g, dfs) == FlattenSeq([i \in DOMAIN dfs |-> InOrderOf(g, dfs[i])])

(* Whatever occurs in a sequence occurs in it for the last time. *)
LEMMA LastOccurrence ==
  ASSUME NEW S, NEW nb \in Seq(S), NEW e \in ToSet(nb)
  PROVE  IdIn(nb, e) \in DOMAIN nb /\ nb[IdIn(nb, e)] = e
  <1> DEFINE N == Len(nb)
             Q(id) == nb[id] = e /\ \A k \in id + 1 .. N : nb[k] # e
             T == {k \in 0 .. N : \A j \in N - k + 1 .. N : nb[j] # e}
  <1>1. N \in Nat /\ DOMAIN nb = 1 .. N
    OBVIOUS
  <1>2. \E id \in DOMAIN nb : Q(id)
    <2> SUFFICES ASSUME \A id \in DOMAIN nb : ~Q(id) PROVE FALSE
      OBVIOUS
    <2>1. 0 \in T
      BY <1>1
    <2>2. ASSUME NEW k \in 1 .. N, k - 1 \in T PROVE k \in T
      <3> DEFINE d == N - k + 1
      <3>1. d \in 1 .. N /\ N - (k - 1) + 1 = d + 1 /\ k \in 0 .. N
        BY <1>1
      <3>2. \A j \in d + 1 .. N : nb[j] # e
        BY <2>2, <3>1
      <3>3. nb[d] # e
        BY <1>1, <3>1, <3>2
      <3>4. \A j \in d .. N : j = d \/ j \in d + 1 .. N
        <4> HIDE DEF N, d
        <4> QED BY ONLY <1>1, <3>1
      <3> QED BY <3>1, <3>2, <3>3, <3>4
    <2>3. N \in T
      <3>1. 0 .. N \subseteq T
        <4> HIDE DEF T, N
        <4> QED BY <1>1, <2>1, <2>2, UpTo
      <3> QED BY <1>1, <3>1
    <2>4. \A j \in 1 .. N : nb[j] # e
      BY <1>1, <2>3
    <2> QED BY <1>1, <2>4 DEF ToSet
  <1>3. IdIn(nb, e) = CHOOSE id \in DOMAIN nb : Q(id)
    BY DEF IdIn
  <1> QED BY <1>2, <1>3

IsConcat(r, s, t, m, k) ==
    /\ Len(r) = m + k
    /\ \A i \in 1 .. m : r[i] = s[i]
    /\ \A i \in 1 .. k : r[m + i] = t[i]

(* The elements of a concatenation. *)
LEMMA Concat ==
  ASSUME NEW S, NEW s \in Seq(S), NEW t \in Seq(S), NEW r, r = s \o t,
         NEW m, m = Len(s), NEW k, k = Len(t)
  PROVE  r \in Seq(S) /\ IsConcat(r, s, t, m, k)
  <1>1. r \in Seq(S) /\ Len(r) = m + k
    OBVIOUS
  <1>2. \A i \in 1 .. m : r[i] = s[i]
    OBVIOUS
  <1>3. \A i \in 1 .. k : r[m + i] = t[i]
    OBVIOUS
  <1> QED BY <1>1, <1>2, <1>3 DEF IsConcat

(* Sequences laid out one behind the other do not overlap. *)
LEMMA LayoutApart ==
  ASSUME NEW seqs, NEW off, NEW flat, IsLayout(off, seqs, flat), Lengths(seqs)
  PROVE  \A i, j \in 1 .. Len(seqs) : \A k \in 1 .. Len(seqs[i]), l \in 1 .. Len(seqs[j]) :
            off[i - 1] + k = off[j - 1] + l => i = j
  <1> DEFINE n == Len(seqs)
             T == {m \in 0 .. n : \A i \in 0 .. m : off[i] <= off[m]}
  <1>1. n \in Nat /\ \A i \in 1 .. n : Len(seqs[i]) \in Nat
    BY DEF Lengths
  <1>2. off \in [0 .. n -> Nat] /\ \A i \in 1 .. n : off[i] = off[i - 1] + Len(seqs[i])
    BY DEF IsLayout
  <1> HIDE DEF n
  <1>3. 0 \in T
    BY <1>1, <1>2
  <1>4. ASSUME NEW m \in 1 .. n, m - 1 \in T PROVE m \in T
    <2>1. /\ m \in 0 .. n /\ m - 1 \in 0 .. n /\ off[m] \in Nat /\ off[m - 1] \in Nat
          /\ off[m - 1] <= off[m]
      <3>1. m \in 0 .. n /\ m - 1 \in 0 .. n
        BY <1>1
      <3>2. off[m] \in Nat /\ off[m - 1] \in Nat /\ off[m] = off[m - 1] + Len(seqs[m]) /\ Len(seqs[m]) \in Nat
        BY <1>1, <1>2, <3>1
      <3> QED BY <3>1, <3>2
    <2>2. \A i \in 0 .. m : i = m \/ i \in 0 .. m - 1
      BY <1>1
    <2>3. \A i \in 0 .. m - 1 : off[i] \in Nat /\ off[i] <= off[m - 1]
      BY <1>1, <1>2, <1>4
    <2>4. \A i \in 0 .. m : off[i] <= off[m]
      BY <2>1, <2>2, <2>3
    <2> QED BY <2>1, <2>4
  <1>5. 0 .. n \subseteq T
    <2> HIDE DEF T
    <2> QED BY <1>1, <1>3, <1>4, UpTo
  <1>6. ASSUME NEW i \in 1 .. n, NEW j \in 1 .. n, NEW k \in 1 .. Len(seqs[i]), NEW l \in 1 .. Len(seqs[j]),
               i < j
        PROVE  off[i - 1] + k # off[j - 1] + l
    <2>1. i \in 0 .. j - 1 /\ j - 1 \in 0 .. n /\ i - 1 \in 0 .. n
      BY <1>1, <1>6
    <2>2. off[i] <= off[j - 1]
      BY <1>5, <2>1
    <2>3. off[i - 1] \in Nat /\ off[j - 1] \in Nat
      BY <1>2, <2>1
    <2>4. off[i] = off[i - 1] + Len(seqs[i])
      BY <1>2
    <2>5. Len(seqs[i]) \in Nat /\ Len(seqs[j]) \in Nat
      BY <1>1
    <2> DEFINE a == off[i - 1]
               c == off[j - 1]
               x == Len(seqs[i])
               y == Len(seqs[j])
    <2>6. a \in Nat /\ c \in Nat /\ x \in Nat /\ y \in Nat /\ a + x <= c
      BY <2>2, <2>3, <2>4, <2>5
    <2>7. k \in 1 .. x /\ l \in 1 .. y
      OBVIOUS
    <2> HIDE DEF a, c, x, y
    <2>8. a + k # c + l
      BY <2>6, <2>7
    <2> QED BY <2>8 DEF a, c
  <1>7. \A i, j \in 1 .. n : i = j \/ i < j \/ j < i
    BY <1>1
  <1> QED BY <1>6, <1>7 DEF n

(* make_id numbers the copies of a block just before its terminator. *)
LEMMA InOrderIs ==
  ASSUME NEW g, Shaped(g), NEW b \in BlocksOf(g),
         NEW s, s = InOrderOf(g, b), NEW n, n = Width(g, b), NEW c, c = PhiMapOf(g, b)
  PROVE  /\ s \in Seq(EntitiesOf(g)) /\ Len(s) = n + Len(c)
         /\ \A i \in 1 .. n - 1 : s[i] = InstrOf(b, i)
         /\ \A k \in 1 .. Len(c) : s[n - 1 + k] = c[k]
         /\ s[n + Len(c)] = InstrOf(b, n)
  <1> DEFINE E == EntitiesOf(g)
             instrs == [i \in 1 .. n |-> InstrOf(b, i)]
             front == [i \in 1 .. n - 1 |-> InstrOf(b, i)]
             last == <<InstrOf(b, n)>>
  <1>1. n \in Nat \ {0} /\ DOMAIN g.body[b] = 1 .. n /\ c \in Seq(CopiesOf(g)) /\ Len(c) \in Nat
    BY DEF Shaped, Width
  <1>2. \A i \in 1 .. n : InstrOf(b, i) \in E
    BY EntitiesDiffer
  <1>3. c \in Seq(E)
    <2>1. BlockCopies(g, b) \subseteq E
      BY EntitiesDiffer
    <2>2. c \in [1 .. Len(c) -> CopiesOf(g)] /\ \A i \in 1 .. Len(c) : c[i] \in E
      BY <1>1, <2>1 DEF BlockCopies, ToSet
    <2> QED BY <1>1, <2>2
  <1> HIDE DEF E
  <1>4. instrs \in Seq(E) /\ Len(instrs) = n /\ front \in Seq(E) /\ Len(front) = n - 1 /\ last \in Seq(E) /\ Len(last) = 1
    <2>1. instrs \in Seq(E) /\ front \in Seq(E)
      BY <1>1, <1>2
    <2>2. Len(instrs) = n /\ Len(front) = n - 1
      BY <1>1
    <2> DEFINE x == InstrOf(b, n)
    <2>3. x \in E
      BY <1>1, <1>2
    <2> HIDE DEF x
    <2>4. <<x>> \in Seq(E) /\ Len(<<x>>) = 1
      BY <2>3
    <2> QED BY <2>1, <2>2, <2>4 DEF x
  <1>5. s = Front(instrs) \o c \o <<Last(instrs)>>
    BY <1>1 DEF InOrderOf, InstrOf
  <1>6. Front(instrs) = front /\ <<Last(instrs)>> = last
    <2>1. Last(instrs) = InstrOf(b, n)
      BY <1>1, <1>4 DEF Last
    <2>2. Front(instrs) = SubSeq(instrs, 1, n - 1)
      BY <1>4 DEF Front
    <2>3. SubSeq(instrs, 1, n - 1) = [i \in 1 .. n - 1 |-> instrs[i]]
      BY <1>1, <1>4
    <2>4. [i \in 1 .. n - 1 |-> instrs[i]] = front
      BY <1>1
    <2> QED BY <2>1, <2>2, <2>3, <2>4
  <1>7. \A i \in 1 .. n - 1 : front[i] = InstrOf(b, i)
    OBVIOUS
  <1>8. last[1] = InstrOf(b, n)
    OBVIOUS
  <1> HIDE DEF front, last, instrs
  <1> DEFINE t == front \o c
             m == n - 1
             w == m + Len(c)
             k == Len(c)
  <1>9. t \in Seq(E) /\ IsConcat(t, front, c, m, k)
    <2> HIDE DEF t, m, k
    <2> QED BY <1>3, <1>4, Concat DEF t, m, k
  <1>10. s = t \o last
    BY <1>5, <1>6
  <1>11. t \in Seq(E) /\ Len(t) = w /\ (\A i \in 1 .. m : t[i] = front[i]) /\ (\A i \in 1 .. k : t[m + i] = c[i])
    <2> HIDE DEF t, m, k
    <2> QED BY <1>9 DEF IsConcat, w, k
  <1>12. /\ s \in Seq(E) /\ Len(s) = n + Len(c)
         /\ \A i \in 1 .. w : s[i] = t[i]
         /\ s[n + Len(c)] = last[1]
    <2> HIDE DEF t
    <2>1. s \in Seq(E) /\ IsConcat(s, t, last, w, 1)
      <3> HIDE DEF w
      <3> QED BY <1>4, <1>10, <1>11, Concat
    <2>2. /\ Len(s) = w + 1 /\ \A i \in 1 .. w : s[i] = t[i]
          /\ \A i \in 1 .. 1 : s[w + i] = last[i]
      <3> HIDE DEF w
      <3> QED BY <2>1 DEF IsConcat
    <2>3. w + 1 = n + Len(c) /\ 1 \in 1 .. 1
      BY <1>1
    <2> QED BY <2>1, <2>2, <2>3
  <1>13. \A i \in 1 .. n - 1 : i \in 1 .. n - 1 + Len(c)
    BY <1>1
  <1>14. \A j \in 1 .. Len(c) : n - 1 + j \in 1 .. n - 1 + Len(c)
    BY <1>1
  <1> QED BY <1>7, <1>8, <1>11, <1>12, <1>13, <1>14 DEF E

IsNumbering(g, nb) ==
    /\ nb \in Seq(EntitiesOf(g))
    /\ \A e \in EntitiesOf(g) : IdIn(nb, e) \in DOMAIN nb /\ nb[IdIn(nb, e)] = e

(* Everything gets a number, and with different copies the numbers of a     *)
(* block are those before its terminator's.                                 *)
CopiesBefore(g, nb, b) ==
    LET last == IdIn(nb, InstrOf(b, Width(g, b)))
    IN  \A id \in last - Len(PhiMapOf(g, b)) .. last - 1 :
            id \in DOMAIN nb /\ nb[id] \in OwnCopies(g, b) /\ IdIn(nb, nb[id]) = id

(* make_id gives a number to every instruction and copy. *)
LEMMA Numbering ==
  ASSUME NEW g, Shaped(g), NEW dfs, Ordered(g, dfs), NEW nb, nb = NumberedBy(g, dfs)
  PROVE  /\ IsNumbering(g, nb)
         /\ (\A k, l \in DOMAIN nb : nb[k] = nb[l] => k = l) =>
                \A b \in BlocksOf(g) : OwnCopies(g, b) = BlockCopies(g, b) /\ CopiesBefore(g, nb, b)
  <1> DEFINE E == EntitiesOf(g)
             seqs == [i \in DOMAIN dfs |-> InOrderOf(g, dfs[i])]
             in(b) == InOrderOf(g, b)
             c(b) == PhiMapOf(g, b)
  <1>1. /\ DOMAIN dfs = 1 .. Len(dfs) /\ Len(dfs) \in Nat
        /\ \A i \in DOMAIN dfs : dfs[i] \in BlocksOf(g)
    BY DEF Ordered
  <1>2. ASSUME NEW b \in BlocksOf(g)
        PROVE  /\ in(b) \in Seq(E) /\ Len(in(b)) = Width(g, b) + Len(c(b))
               /\ \A i \in 1 .. Width(g, b) - 1 : in(b)[i] = InstrOf(b, i)
               /\ \A k \in 1 .. Len(c(b)) : in(b)[Width(g, b) - 1 + k] = c(b)[k]
               /\ in(b)[Width(g, b) + Len(c(b))] = InstrOf(b, Width(g, b))
               /\ Width(g, b) \in Nat \ {0} /\ Len(c(b)) \in Nat
               /\ DOMAIN in(b) = 1 .. Len(in(b)) /\ DOMAIN c(b) = 1 .. Len(c(b))
    <2>1. Width(g, b) \in Nat \ {0} /\ c(b) \in Seq(CopiesOf(g))
      BY DEF Shaped
    <2>2. /\ in(b) \in Seq(E) /\ Len(in(b)) = Width(g, b) + Len(c(b))
          /\ \A i \in 1 .. Width(g, b) - 1 : in(b)[i] = InstrOf(b, i)
          /\ \A k \in 1 .. Len(c(b)) : in(b)[Width(g, b) - 1 + k] = c(b)[k]
          /\ in(b)[Width(g, b) + Len(c(b))] = InstrOf(b, Width(g, b))
      BY InOrderIs
    <2> QED BY <2>1, <2>2
  <1> HIDE DEF E
  <1>3. seqs \in Seq(Seq(E)) /\ seqs # <<>> /\ Len(seqs) = Len(dfs) /\ \A i \in DOMAIN dfs : seqs[i] = in(dfs[i])
    <2>1. \A i \in 1 .. Len(dfs) : in(dfs[i]) \in Seq(E)
      BY <1>1, <1>2
    <2>2. seqs \in Seq(Seq(E)) /\ Len(seqs) = Len(dfs)
      BY <1>1, <2>1
    <2>3. Len(dfs) # 0
      BY <1>1 DEF Ordered, Shaped
    <2> QED BY <1>1, <2>2, <2>3
  <1>4. nb = FlattenSeq(seqs)
    BY DEF NumberedBy
  <1> HIDE DEF seqs, in
  <1>5. nb \in Seq(E) /\ ToSet(nb) = {x \in E : \E i \in DOMAIN seqs : x \in ToSet(seqs[i])}
    BY <1>3, <1>4, FlattenFacts
  <1>6. ASSUME NEW b \in BlocksOf(g)
        PROVE  InstrsIn(g, b) \cup BlockCopies(g, b) \subseteq ToSet(in(b))
    <2> DEFINE n == Width(g, b)
    <2>1. \A i \in 1 .. n : InstrOf(b, i) \in ToSet(in(b))
      <3> SUFFICES ASSUME NEW i \in 1 .. n PROVE InstrOf(b, i) \in ToSet(in(b))
        OBVIOUS
      <3>1. CASE i = n
        <4>1. n + Len(c(b)) \in DOMAIN in(b) /\ in(b)[n + Len(c(b))] = InstrOf(b, i)
          BY <1>2, <3>1
        <4> QED BY <4>1 DEF ToSet
      <3>2. CASE i # n
        <4>1. i \in DOMAIN in(b) /\ in(b)[i] = InstrOf(b, i)
          BY <1>2, <3>2
        <4> QED BY <4>1 DEF ToSet
      <3> QED BY <3>1, <3>2
    <2>2. \A k \in 1 .. Len(c(b)) : c(b)[k] \in ToSet(in(b))
      <3> SUFFICES ASSUME NEW k \in 1 .. Len(c(b)) PROVE c(b)[k] \in ToSet(in(b))
        OBVIOUS
      <3>1. n - 1 + k \in DOMAIN in(b) /\ in(b)[n - 1 + k] = c(b)[k]
        BY <1>2
      <3> QED BY <3>1 DEF ToSet
    <2>3. BlockCopies(g, b) = {c(b)[k] : k \in 1 .. Len(c(b))}
      BY <1>2 DEF BlockCopies, ToSet
    <2> QED BY <2>1, <2>2, <2>3 DEF InstrsIn
  <1>7. E \subseteq ToSet(nb)
    <2> SUFFICES ASSUME NEW e \in E PROVE e \in ToSet(nb)
      OBVIOUS
    <2>1. PICK b \in BlocksOf(g) : e \in InstrsIn(g, b) \cup BlockCopies(g, b)
      BY DEF E, EntitiesOf
    <2>2. PICK i \in DOMAIN dfs : dfs[i] = b
      BY DEF Ordered
    <2>3. i \in DOMAIN seqs /\ e \in ToSet(seqs[i])
      BY <1>1, <1>3, <1>6, <2>1, <2>2
    <2> QED BY <1>5, <2>3
  <1>8. IsNumbering(g, nb)
    <2>1. \A e \in E : IdIn(nb, e) \in DOMAIN nb /\ nb[IdIn(nb, e)] = e
      BY <1>5, <1>7, LastOccurrence
    <2> QED BY <1>5, <2>1 DEF IsNumbering, E
  <1>9. ASSUME \A k, l \in DOMAIN nb : nb[k] = nb[l] => k = l, NEW b \in BlocksOf(g)
        PROVE  OwnCopies(g, b) = BlockCopies(g, b) /\ CopiesBefore(g, nb, b)
    <2>1. PICK off : IsLayout(off, seqs, nb)
      BY <1>3, <1>4, FlattenLayout
    <2>2. /\ off \in [0 .. Len(dfs) -> Nat]
          /\ \A i \in 1 .. Len(dfs) : \A k \in 1 .. Len(in(dfs[i])) :
                off[i - 1] + k \in DOMAIN nb /\ nb[off[i - 1] + k] = in(dfs[i])[k]
      <3>1. DOMAIN nb = 1 .. Len(nb)
        BY <1>5
      <3>2. \A i \in 1 .. Len(dfs) : seqs[i] = in(dfs[i])
        BY <1>1, <1>3
      <3>3. /\ off \in [0 .. Len(dfs) -> Nat]
            /\ \A i \in 1 .. Len(dfs) : \A k \in 1 .. Len(seqs[i]) :
                off[i - 1] + k \in DOMAIN nb /\ nb[off[i - 1] + k] = seqs[i][k]
        BY <1>3, <2>1, <3>1 DEF IsLayout
      <3> QED BY <3>2, <3>3
    <2>3. \A k, l \in DOMAIN nb : nb[k] = nb[l] => k = l
      BY <1>9
    <2>4. ASSUME NEW d \in BlocksOf(g), d # b, NEW e \in BlockCopies(g, b), e \in BlockCopies(g, d)
          PROVE  FALSE
      <3>1. PICK i \in 1 .. Len(dfs) : dfs[i] = b
        BY <1>1 DEF Ordered
      <3>2. PICK j \in 1 .. Len(dfs) : dfs[j] = d
        BY <1>1 DEF Ordered
      <3>3. PICK k \in 1 .. Len(in(b)) : in(b)[k] = e
        BY <1>2, <1>6 DEF ToSet
      <3>4. PICK l \in 1 .. Len(in(d)) : in(d)[l] = e
        BY <1>2, <1>6, <2>4 DEF ToSet
      <3>5. off[i - 1] + k = off[j - 1] + l
        <4>1. off[i - 1] + k \in DOMAIN nb /\ nb[off[i - 1] + k] = e
          BY <2>2, <3>1, <3>3
        <4>2. off[j - 1] + l \in DOMAIN nb /\ nb[off[j - 1] + l] = e
          BY <2>2, <3>2, <3>4
        <4> QED BY <2>3, <4>1, <4>2
      <3>6. Lengths(seqs) /\ \A x \in 1 .. Len(dfs) : seqs[x] = in(dfs[x])
        <4>1. \A x \in 1 .. Len(dfs) : seqs[x] = in(dfs[x]) /\ Len(in(dfs[x])) \in Nat
          <5> SUFFICES ASSUME NEW x \in 1 .. Len(dfs) PROVE seqs[x] = in(dfs[x]) /\ Len(in(dfs[x])) \in Nat
            OBVIOUS
          <5>1. dfs[x] \in BlocksOf(g) /\ seqs[x] = in(dfs[x])
            BY <1>1, <1>3
          <5>2. in(dfs[x]) \in Seq(E)
            BY <1>2, <5>1
          <5> QED BY <5>1, <5>2
        <4> QED BY <1>1, <1>3, <4>1 DEF Lengths
      <3>7. i = j
        <4>1. Len(seqs) = Len(dfs) /\ k \in 1 .. Len(seqs[i]) /\ l \in 1 .. Len(seqs[j])
          BY <1>3, <3>1, <3>2, <3>6
        <4>2. \A x, y \in 1 .. Len(seqs) : \A z \in 1 .. Len(seqs[x]), w \in 1 .. Len(seqs[y]) :
                off[x - 1] + z = off[y - 1] + w => x = y
          BY <2>1, <3>6, LayoutApart
        <4> QED BY <3>5, <4>1, <4>2
      <3> QED BY <2>4, <3>1, <3>2, <3>7
    <2>5. OwnCopies(g, b) = BlockCopies(g, b)
      BY <2>4 DEF OwnCopies
    <2>6. CopiesBefore(g, nb, b)
      <3> DEFINE n == Width(g, b)
                 last == IdIn(nb, InstrOf(b, n))
                 q == Len(c(b))
      <3>1. PICK i \in 1 .. Len(dfs) : dfs[i] = b
        BY <1>1 DEF Ordered
      <3>2. n \in 1 .. n /\ InstrOf(b, n) \in E
        BY <1>2, EntitiesDiffer DEF E
      <3>3. last \in DOMAIN nb /\ nb[last] = InstrOf(b, n)
        BY <1>8, <3>2 DEF IsNumbering, E
      <3>4. off[i - 1] + (n + q) \in DOMAIN nb /\ nb[off[i - 1] + (n + q)] = InstrOf(b, n)
        <4>1. n + q \in 1 .. Len(in(dfs[i])) /\ in(dfs[i])[n + q] = InstrOf(b, n)
          BY <1>2, <3>1
        <4> HIDE DEF n, q
        <4> QED BY <2>2, <4>1
      <3>5. last = off[i - 1] + (n + q)
        BY <2>3, <3>3, <3>4
      <3>6. off[i - 1] \in Nat /\ n \in Nat /\ q \in Nat
        <4>1. i - 1 \in 0 .. Len(dfs)
          BY <1>1
        <4> QED BY <1>2, <2>2, <4>1
      <3> HIDE DEF last, q, n
      <3>7. ASSUME NEW id \in last - q .. last - 1
            PROVE  id \in DOMAIN nb /\ nb[id] \in BlockCopies(g, b)
        <4> DEFINE k == id - last + q + 1
        <4>1. k \in 1 .. q /\ id = off[i - 1] + (n - 1 + k) /\ n - 1 + k \in 1 .. n + q
          <5>1. id \in Int
            BY <3>5, <3>6
          <5> DEFINE u == off[i - 1]
          <5>2. last = u + (n + q) /\ u \in Nat
            BY <3>5, <3>6
          <5>3. id >= last - q /\ id <= last - 1
            BY <3>5, <3>6
          <5> HIDE DEF u
          <5>4. n \in Nat \ {0}
            BY <3>2, <3>6
          <5>5. k \in 1 .. q /\ id = u + (n - 1 + k) /\ n - 1 + k \in 1 .. n + q
            BY <3>6, <5>1, <5>2, <5>3, <5>4
          <5> QED BY <5>5 DEF u
        <4>2. id \in DOMAIN nb /\ nb[id] = in(b)[n - 1 + k]
          BY <1>2, <2>2, <3>1, <4>1 DEF n, q
        <4>3. in(b)[n - 1 + k] = c(b)[k]
          <5> HIDE DEF k
          <5> QED BY <1>2, <4>1 DEF n, q
        <4>4. c(b)[k] \in BlockCopies(g, b)
          BY <1>2, <4>1 DEF BlockCopies, ToSet, q
        <4> QED BY <4>2, <4>3, <4>4
      <3>8. \A id \in DOMAIN nb : nb[id] \in BlockCopies(g, b) => IdIn(nb, nb[id]) = id
        <4> SUFFICES ASSUME NEW id \in DOMAIN nb, nb[id] \in BlockCopies(g, b)
                     PROVE  IdIn(nb, nb[id]) = id
          OBVIOUS
        <4> DEFINE e == nb[id]
        <4>1. e \in E
          BY <1>5
        <4>2. IdIn(nb, e) \in DOMAIN nb /\ nb[IdIn(nb, e)] = e
          BY <1>8, <4>1 DEF IsNumbering, E
        <4> QED BY <2>3, <4>2
      <3>9. \A id \in last - q .. last - 1 :
                id \in DOMAIN nb /\ nb[id] \in OwnCopies(g, b) /\ IdIn(nb, nb[id]) = id
        BY <2>5, <3>7, <3>8
      <3> QED BY <3>9 DEF CopiesBefore, last, q, n
    <2> QED BY <2>5, <2>6
  <1> QED BY <1>8, <1>9

-----------------------------------------------------------------------------
(* The depth-first order: nothing is met twice, whatever is met but the      *)
(* first block follows a predecessor, and what is not met yet is called for. *)
DfsInv(g, dfs, st) ==
    /\ dfs \in Seq(BlocksOf(g)) /\ st \in Seq(BlocksOf(g))
    /\ \A i, j \in DOMAIN dfs : dfs[i] = dfs[j] => i = j
    /\ \A j \in DOMAIN dfs : dfs[j] = First(g) \/ \E i \in 1 .. j - 1 : dfs[j] \in ToSet(g.succ[dfs[i]])
    /\ \A s \in ToSet(st) : s = First(g) \/ \E i \in DOMAIN dfs : s \in ToSet(g.succ[dfs[i]])
    /\ \A b \in ToSet(dfs) : ToSet(g.succ[b]) \subseteq ToSet(dfs) \cup ToSet(st)
    /\ First(g) \in ToSet(dfs) \cup ToSet(st)

(* get_dfs_order starts from the first block. *)
LEMMA DfsBegins ==
  ASSUME NEW g, Shaped(g)
  PROVE  DfsInv(g, <<>>, <<First(g)>>)
  <1> DEFINE f == First(g)
             B == BlocksOf(g)
  <1>1. f \in B
    BY DEF Shaped
  <1> HIDE DEF f, B
  <1>2. <<f>> \in Seq(B) /\ ToSet(<<f>>) = {f}
    BY <1>1 DEF ToSet
  <1>3. <<>> \in Seq(B) /\ DOMAIN <<>> = {} /\ ToSet(<<>>) = {}
    BY DEF ToSet
  <1> QED BY <1>2, <1>3 DEF DfsInv, f, B

(* A block that has been met is passed over. *)
LEMMA DfsSkips ==
  ASSUME NEW g, NEW dfs, NEW st, DfsInv(g, dfs, st), st # <<>>, Head(st) \in ToSet(dfs)
  PROVE  DfsInv(g, dfs, Tail(st))
  <1>1. st \in Seq(BlocksOf(g))
    BY DEF DfsInv
  <1>2. Tail(st) \in Seq(BlocksOf(g)) /\ ToSet(st) = {Head(st)} \cup ToSet(Tail(st))
    BY <1>1, Queue
  <1> QED BY <1>2 DEF DfsInv

(* A new block puts its successors on the stack. *)
LEMMA DfsMeets ==
  ASSUME NEW g, Shaped(g), NEW dfs, NEW st, DfsInv(g, dfs, st), st # <<>>, Head(st) \notin ToSet(dfs)
  PROVE  DfsInv(g, Append(dfs, Head(st)), g.succ[Head(st)] \o Tail(st))
  <1> DEFINE B == BlocksOf(g)
             b == Head(st)
             n == Len(dfs)
             d == Append(dfs, b)
             next == g.succ[b]
             t == next \o Tail(st)
  <1>1. st \in Seq(B) /\ dfs \in Seq(B) /\ n \in Nat /\ DOMAIN dfs = 1 .. n
    BY DEF DfsInv
  <1>2. b \in B /\ Tail(st) \in Seq(B) /\ ToSet(st) = {b} \cup ToSet(Tail(st))
    BY <1>1, Queue
  <1>3. next \in Seq(B)
    BY <1>2 DEF Shaped
  <1>4. t \in Seq(B) /\ ToSet(t) = ToSet(next) \cup ToSet(Tail(st))
    <2> DEFINE u == Tail(st)
    <2>1. u \in Seq(B)
      BY <1>2
    <2> HIDE DEF u, next, B
    <2>2. next \o u \in Seq(B) /\ ToSet(next \o u) = ToSet(next) \cup ToSet(u)
      BY <1>3, <2>1, SetOfSeq
    <2> QED BY <2>2 DEF u
  <1>5. d \in Seq(B) /\ ToSet(d) = ToSet(dfs) \cup {b}
    BY <1>1, <1>2, SetOfSeq
  <1>6. DOMAIN d = 1 .. n + 1 /\ d[n + 1] = b /\ \A i \in 1 .. n : d[i] = dfs[i]
    BY <1>1, <1>2
  <1>7. \A i \in 1 .. n : dfs[i] # b
    BY <1>1 DEF ToSet
  <1> HIDE DEF d, t, next, n
  <1>8. \A i \in 1 .. n + 1 : i \in 1 .. n \/ i = n + 1
    BY <1>1
  <1>9. \A i, j \in DOMAIN d : d[i] = d[j] => i = j
    <2>1. \A i, j \in 1 .. n : dfs[i] = dfs[j] => i = j
      BY <1>1 DEF DfsInv
    <2> QED BY <1>6, <1>7, <1>8, <2>1
  <1>10. ASSUME NEW j \in DOMAIN d
         PROVE  d[j] = First(g) \/ \E i \in 1 .. j - 1 : d[j] \in ToSet(g.succ[d[i]])
    <2>1. CASE j \in 1 .. n
      <3>1. \A i \in 1 .. j - 1 : i \in 1 .. n
        BY <1>1, <2>1
      <3>2. dfs[j] = First(g) \/ \E i \in 1 .. j - 1 : dfs[j] \in ToSet(g.succ[dfs[i]])
        BY <1>1, <2>1 DEF DfsInv
      <3> QED BY <1>6, <2>1, <3>1, <3>2
    <2>2. CASE j = n + 1
      <3>1. b = First(g) \/ \E i \in 1 .. n : b \in ToSet(g.succ[dfs[i]])
        BY <1>1, <1>2 DEF DfsInv
      <3>2. j - 1 = n
        BY <1>1, <2>2
      <3> QED BY <1>6, <2>2, <3>1, <3>2
    <2> QED BY <1>6, <1>8, <2>1, <2>2
  <1>11. ASSUME NEW s \in ToSet(t)
         PROVE  s = First(g) \/ \E i \in DOMAIN d : s \in ToSet(g.succ[d[i]])
    <2>1. CASE s \in ToSet(next)
      <3>1. n + 1 \in DOMAIN d
        BY <1>1, <1>6
      <3> QED BY <1>6, <2>1, <3>1 DEF next
    <2>2. CASE s \in ToSet(Tail(st))
      <3>1. s = First(g) \/ \E i \in 1 .. n : s \in ToSet(g.succ[dfs[i]])
        BY <1>1, <1>2, <2>2 DEF DfsInv
      <3>2. \A i \in 1 .. n : i \in DOMAIN d
        BY <1>1, <1>6
      <3> QED BY <1>6, <3>1, <3>2
    <2> QED BY <1>4, <2>1, <2>2
  <1>12. \A a \in ToSet(d) : ToSet(g.succ[a]) \subseteq ToSet(d) \cup ToSet(t)
    BY <1>2, <1>4, <1>5 DEF DfsInv, next
  <1>13. First(g) \in ToSet(d) \cup ToSet(t)
    BY <1>2, <1>4, <1>5 DEF DfsInv
  <1>14. DfsInv(g, d, t)
    BY <1>4, <1>5, <1>9, <1>10, <1>11, <1>12, <1>13 DEF DfsInv
  <1> QED BY <1>14 DEF d, t, next

(* The order holds every block once when no call is left. *)
LEMMA DfsEnds ==
  ASSUME NEW g, WellFormed(g), NEW dfs, DfsInv(g, dfs, <<>>)
  PROVE  Ordered(g, dfs)
  <1> DEFINE S == ToSet(dfs)
             B == BlocksOf(g)
  <1>1. dfs \in Seq(B) /\ ToSet(<<>>) = {}
    BY DEF DfsInv, ToSet
  <1>2. First(g) \in S /\ \A b \in S : ToSet(g.succ[b]) \subseteq S
    BY <1>1 DEF DfsInv
  <1>3. S \in SUBSET B
    <2> HIDE DEF B
    <2> QED BY <1>1, InSeq
  <1>4. \A U \in SUBSET B : First(g) \in U /\ (\A b \in U : ToSet(g.succ[b]) \subseteq U) => U = B
    BY DEF WellFormed, BlocksOf, First
  <1>5. S = B
    <2> HIDE DEF S, B
    <2> QED BY <1>2, <1>3, <1>4
  <1>6. \A b \in B : \E i \in DOMAIN dfs : dfs[i] = b
    BY <1>5 DEF ToSet
  <1> QED BY <1>1, <1>6 DEF DfsInv, Ordered

-----------------------------------------------------------------------------
(* The blocks left in a sweep. *)
LeftOf(dfs, m) == [i \in 1 .. m |-> dfs[m + 1 - i]]

(* The blocks left in a sweep, read from the front. *)
LEMMA LeftIs ==
  ASSUME NEW S, NEW dfs \in Seq(S), NEW m \in 0 .. Len(dfs)
  PROVE  /\ LeftOf(dfs, m) = <<>> <=> m = 0
         /\ m # 0 => /\ Head(LeftOf(dfs, m)) = dfs[m] /\ dfs[m] \in S
                     /\ Tail(LeftOf(dfs, m)) = LeftOf(dfs, m - 1) /\ m - 1 \in 0 .. Len(dfs)
         /\ Reverse(dfs) = LeftOf(dfs, Len(dfs))
  <1> DEFINE l == LeftOf(dfs, m)
  <1>1. Len(dfs) \in Nat /\ \A i \in 1 .. Len(dfs) : dfs[i] \in S
    OBVIOUS
  <1>2. \A i \in 1 .. m : m + 1 - i \in 1 .. Len(dfs)
    BY <1>1
  <1>3. l \in Seq(S) /\ Len(l) = m /\ \A i \in 1 .. m : l[i] = dfs[m + 1 - i]
    BY <1>1, <1>2 DEF LeftOf
  <1>4. l = <<>> <=> m = 0
    <2> HIDE DEF l
    <2> QED BY <1>3
  <1>5. ASSUME m # 0
        PROVE  /\ Head(l) = dfs[m] /\ dfs[m] \in S
               /\ Tail(l) = LeftOf(dfs, m - 1) /\ m - 1 \in 0 .. Len(dfs)
    <2>1. 1 \in 1 .. m /\ m + 1 - 1 = m /\ m \in 1 .. Len(dfs) /\ m - 1 \in 0 .. Len(dfs)
      BY <1>1, <1>5
    <2>2. Head(l) = dfs[m] /\ dfs[m] \in S
      <3> HIDE DEF l
      <3> QED BY <1>1, <1>3, <1>4, <1>5, <2>1
    <2>3. Tail(l) = [i \in 1 .. m - 1 |-> l[i + 1]]
      <3> HIDE DEF l
      <3>1. Tail(l) \in Seq(S) /\ Len(Tail(l)) = m - 1 /\ \A i \in 1 .. m - 1 : Tail(l)[i] = l[i + 1]
        BY <1>1, <1>3, <1>4, <1>5
      <3>2. Tail(l) = [i \in 1 .. Len(Tail(l)) |-> Tail(l)[i]]
        <4> DEFINE u == Tail(l)
        <4>1. u \in Seq(S)
          BY <3>1
        <4> HIDE DEF u
        <4>2. u = [i \in 1 .. Len(u) |-> u[i]]
          BY <4>1
        <4> QED BY <4>2 DEF u
      <3> QED BY <3>1, <3>2
    <2>4. \A i \in 1 .. m - 1 : i + 1 \in 1 .. m /\ m + 1 - (i + 1) = (m - 1) + 1 - i
      BY <1>1
    <2>5. [i \in 1 .. m - 1 |-> l[i + 1]] = [i \in 1 .. m - 1 |-> dfs[(m - 1) + 1 - i]]
      <3> HIDE DEF l
      <3> QED BY <1>3, <2>4
    <2> QED BY <2>1, <2>2, <2>3, <2>5 DEF LeftOf
  <1>6. Reverse(dfs) = LeftOf(dfs, Len(dfs))
    <2>1. \A i \in 1 .. Len(dfs) : Len(dfs) - i + 1 = Len(dfs) + 1 - i
      BY <1>1
    <2> QED BY <2>1 DEF Reverse, LeftOf
  <1> QED BY <1>4, <1>5, <1>6

-----------------------------------------------------------------------------
(* The inductive invariant. *)
SetsOf(g, nb, sets) == [e \in EntitiesOf(g) |-> sets[IdIn(nb, e)]]

SweepOf(g, dfs, nb, l, ch, ins, outs) ==
    /\ Ordered(g, dfs) /\ nb = NumberedBy(g, dfs)
    /\ ins \in [DOMAIN nb -> SUBSET ValuesOf(g)] /\ outs \in [DOMAIN nb -> SUBSET ValuesOf(g)]
    /\ \E m \in 0 .. Len(dfs) :
        /\ l = LeftOf(dfs, m)
        /\ EntriesOwn(g) => SweepInv(g, dfs, m, ch, SetsOf(g, nb, ins), SetsOf(g, nb, outs))

LiveInv ==
    /\ prog \in Programs /\ phase \in {"order", "sweep", "done"} /\ changed \in BOOLEAN
    /\ phase = "order" => changed = TRUE /\ left = <<>> /\ DfsInv(prog, bb_dfs_order, stack)
    /\ phase # "order" => SweepOf(prog, bb_dfs_order, numbered, left, changed, in_set, out_set)
    /\ phase = "done" => /\ left = <<>> /\ ~changed
                         /\ interval_map = [v \in {w \in Values : Touched(w) # {}} |-> Hull(Touched(v))]

(* Every program is well formed. *)
LEMMA ProgramShaped ==
  ASSUME prog \in Programs
  PROVE  WellFormed(prog) /\ Shaped(prog) /\ Blocks = BlocksOf(prog)
  BY LivenessAssumption, WellShaped DEF Blocks, BlocksOf

(* The sets of the entities, from those of the ids. *)
LEMMA SetsTyped ==
  ASSUME NEW g, NEW nb, IsNumbering(g, nb), NEW sets \in [DOMAIN nb -> SUBSET ValuesOf(g)]
  PROVE  SetsOf(g, nb, sets) \in Sets(g)
  BY DEF IsNumbering, SetsOf, Sets

(* The initial states and the actions keep LiveInv. *)
LEMMA LiveInit == Init => LiveInv
  <1> SUFFICES ASSUME Init PROVE LiveInv
    OBVIOUS
  <1>1. prog \in Programs /\ phase = "order" /\ changed = TRUE /\ left = <<>>
        /\ bb_dfs_order = <<>> /\ stack = <<First(prog)>>
    BY DEF Init, First
  <1>2. DfsInv(prog, bb_dfs_order, stack)
    BY <1>1, ProgramShaped, DfsBegins
  <1> QED BY <1>1, <1>2 DEF LiveInv

(* get_dfs_order. *)
LEMMA LiveTraverse ==
  ASSUME LiveInv, Traverse
  PROVE  LiveInv'
  <1> DEFINE b == Head(stack)
             n == Len(bb_dfs_order)
  <1>1. /\ phase = "order" /\ stack # <<>> /\ DfsInv(prog, bb_dfs_order, stack)
        /\ UNCHANGED <<prog, phase, numbered, left, changed, in_set, out_set, interval_map>>
    BY DEF LiveInv, Traverse
  <1>2. Contains(bb_dfs_order, b) <=> b \in ToSet(bb_dfs_order)
    <2>1. bb_dfs_order \in Seq(BlocksOf(prog))
      BY <1>1 DEF DfsInv
    <2>2. DOMAIN bb_dfs_order = 1 .. n
      BY <2>1
    <2> QED BY <2>2 DEF Contains, ToSet
  <1>3. DfsInv(prog, bb_dfs_order', stack')
    <2>1. CASE b \in ToSet(bb_dfs_order)
      <3>1. stack' = Tail(stack) /\ bb_dfs_order' = bb_dfs_order
        BY <1>2, <2>1 DEF Traverse
      <3> QED BY <1>1, <2>1, <3>1, DfsSkips
    <2>2. CASE b \notin ToSet(bb_dfs_order)
      <3>1. bb_dfs_order' = Append(bb_dfs_order, b) /\ stack' = prog.succ[b] \o Tail(stack)
        BY <1>2, <2>2 DEF Traverse
      <3>2. Shaped(prog)
        BY ProgramShaped DEF LiveInv
      <3> QED BY <1>1, <2>2, <3>1, <3>2, DfsMeets
    <2> QED BY <2>1, <2>2
  <1> QED BY <1>1, <1>3 DEF LiveInv

(* make_id. *)
LEMMA LiveMakeId ==
  ASSUME LiveInv, MakeId
  PROVE  LiveInv'
  <1> DEFINE g == prog
             dfs == bb_dfs_order
             nb == numbered'
             I == SetsOf(g, nb, in_set')
             O == SetsOf(g, nb, out_set')
  <1>1. /\ phase = "order" /\ changed = TRUE /\ left = <<>> /\ DfsInv(g, dfs, <<>>)
        /\ phase' = "sweep" /\ UNCHANGED <<prog, stack, bb_dfs_order, left, changed, interval_map>>
        /\ in_set' = [id \in DOMAIN nb |-> {}] /\ out_set' = [id \in DOMAIN nb |-> {}]
    BY DEF LiveInv, MakeId
  <1>2. WellFormed(g) /\ Shaped(g)
    BY ProgramShaped DEF LiveInv
  <1>3. Ordered(g, dfs)
    BY <1>1, <1>2, DfsEnds
  <1>4. nb = NumberedBy(g, dfs)
    BY DEF MakeId, NumberedBy, InOrderOf, InOrder, PhiMap
  <1>5. IsNumbering(g, nb)
    BY <1>2, <1>3, <1>4, Numbering
  <1>6. in_set' \in [DOMAIN nb -> SUBSET ValuesOf(g)] /\ out_set' \in [DOMAIN nb -> SUBSET ValuesOf(g)]
    BY <1>1
  <1>7. 0 \in 0 .. Len(dfs) /\ left' = LeftOf(dfs, 0)
    <2>1. dfs \in Seq(BlocksOf(g))
      BY <1>3 DEF Ordered
    <2>2. Len(dfs) \in Nat
      BY <2>1
    <2> QED BY <1>1, <2>1, <2>2, LeftIs
  <1>8. \A e \in EntitiesOf(g) : I[e] = {}
    BY <1>1, <1>5 DEF IsNumbering, SetsOf
  <1>9. EntriesOwn(g) => SweepInv(g, dfs, 0, TRUE, I, O)
    <2> SUFFICES ASSUME EntriesOwn(g) PROVE SweepInv(g, dfs, 0, TRUE, I, O)
      OBVIOUS
    <2>1. \A b \in BlocksOf(g) : \A e \in Own(g, b) : I[e] = {}
      BY <1>2, <1>8, OwnIs
    <2>2. Visits(g, dfs, 0, TRUE, I, O)
      BY <2>1 DEF Visits, Untouched
    <2>3. \A L : Sound(g, L, I)
      BY <2>1 DEF Sound, Own, InstrsIn
    <2> QED BY <2>2, <2>3 DEF SweepInv
  <1>10. SweepOf(g, dfs, nb, left', TRUE, in_set', out_set')
    BY <1>3, <1>4, <1>6, <1>7, <1>9 DEF SweepOf
  <1> QED BY <1>1, <1>10 DEF LiveInv

(* The head of the loop of the sweeps. *)
LEMMA LiveSweepStart ==
  ASSUME LiveInv, SweepStart
  PROVE  LiveInv'
  <1> DEFINE g == prog
             dfs == bb_dfs_order
             I == SetsOf(g, numbered, in_set)
             O == SetsOf(g, numbered, out_set)
  <1>1. /\ phase = "sweep" /\ left = <<>> /\ changed = TRUE /\ changed' = FALSE /\ left' = Reverse(dfs)
        /\ UNCHANGED <<prog, phase, stack, bb_dfs_order, numbered, in_set, out_set, interval_map>>
        /\ SweepOf(g, dfs, numbered, left, changed, in_set, out_set)
    BY DEF LiveInv, SweepStart
  <1>2. PICK m \in 0 .. Len(dfs) :
            left = LeftOf(dfs, m) /\ (EntriesOwn(g) => SweepInv(g, dfs, m, changed, I, O))
    BY <1>1 DEF SweepOf
  <1>3. dfs \in Seq(BlocksOf(g)) /\ Len(dfs) \in Nat
    BY <1>1 DEF SweepOf, Ordered
  <1>4. m = 0 /\ left' = LeftOf(dfs, Len(dfs)) /\ Len(dfs) \in 0 .. Len(dfs)
    BY <1>1, <1>2, <1>3, LeftIs
  <1>5. EntriesOwn(g) => SweepInv(g, dfs, Len(dfs), FALSE, I, O)
    BY <1>1, <1>2, <1>4, SweepBegins DEF SweepOf
  <1>6. SweepOf(g, dfs, numbered, left', FALSE, in_set, out_set)
    BY <1>1, <1>4, <1>5 DEF SweepOf
  <1> QED BY <1>1, <1>6 DEF LiveInv

(* EntryId finds the number of the entry of a block. *)
LEMMA EntryNumbered ==
  ASSUME NEW g, Shaped(g)
  PROVE  /\ \A b \in BlocksOf(g) : EntryOf(g, b) \in EntitiesOf(g)
         /\ \A I \in Sets(g) : \A b \in BlocksOf(g) : JoinOf(g, I, b) \in SUBSET ValuesOf(g)
  <1>1. ASSUME NEW b \in BlocksOf(g) PROVE EntryOf(g, b) \in EntitiesOf(g)
    <2>1. Width(g, b) \in Nat \ {0} /\ PhiMapOf(g, b) \in Seq(CopiesOf(g))
      BY DEF Shaped
    <2>2. CASE EntryOf(g, b) = InstrOf(b, 1)
      BY <2>1, <2>2, EntitiesDiffer
    <2>3. CASE EntryOf(g, b) # InstrOf(b, 1)
      <3>1. EntryOf(g, b) = PhiMapOf(g, b)[1] /\ EntryOf(g, b) \in BlockCopies(g, b)
        BY <2>1, <2>3 DEF EntryOf, BlockCopies, ToSet
      <3> QED BY <3>1, EntitiesDiffer
    <2> QED BY <2>2, <2>3
  <1>2. ASSUME NEW I \in Sets(g), NEW b \in BlocksOf(g)
        PROVE  JoinOf(g, I, b) \in SUBSET ValuesOf(g)
    <2>1. \A s \in ToSet(g.succ[b]) : EntryOf(g, s) \in EntitiesOf(g)
      BY <1>1 DEF Shaped
    <2>2. \A s \in ToSet(g.succ[b]) : I[EntryOf(g, s)] \in SUBSET ValuesOf(g)
      BY <2>1 DEF Sets
    <2> QED BY <2>2 DEF JoinOf
  <1> QED BY <1>1, <1>2

(* The operators of the model on the current state. *)
LEMMA StateOperators ==
  ASSUME Shaped(prog), IsNumbering(prog, numbered), NEW b \in BlocksOf(prog),
         NEW I, I = SetsOf(prog, numbered, in_set)
  PROVE  /\ JoinFor(b) = JoinOf(prog, I, b)
         /\ \A out : ProcessCopyStmts(b, out) = CopyIn(prog, b, out)
         /\ \A i : InstrId(b, i) = IdIn(numbered, InstrOf(b, i))
  <1>1. \A e : Id(e) = IdIn(numbered, e)
    BY DEF Id, IdIn
  <1>2. \A c, i : InstrId(c, i) = IdIn(numbered, InstrOf(c, i))
    BY <1>1 DEF InstrId, InstrOf
  <1>3. \A c : EntryId(c) = IdIn(numbered, EntryOf(prog, c))
    BY <1>1, <1>2 DEF EntryId, EntryOf, Width, PhiMap
  <1>4. \A out : ProcessCopyStmts(b, out) = CopyIn(prog, b, out)
    BY DEF ProcessCopyStmts, CopyIn, BlockCopies, PhiMap
  <1>5. \A s \in ToSet(prog.succ[b]) : I[EntryOf(prog, s)] = in_set[EntryId(s)]
    <2>1. \A s \in ToSet(prog.succ[b]) : EntryOf(prog, s) \in EntitiesOf(prog)
      BY EntryNumbered DEF Shaped
    <2> QED BY <1>3, <2>1 DEF SetsOf
  <1>6. JoinFor(b) = JoinOf(prog, I, b)
    BY <1>5 DEF JoinFor, JoinOf
  <1> QED BY <1>2, <1>4, <1>6

(* VisitBlock, by what is numbered. *)
LEMMA VisitBlockIs ==
  ASSUME Shaped(prog), IsNumbering(prog, numbered),
         in_set \in [DOMAIN numbered -> SUBSET ValuesOf(prog)],
         out_set \in [DOMAIN numbered -> SUBSET ValuesOf(prog)],
         VisitBlock, Head(left) \in BlocksOf(prog)
  PROVE  /\ in_set' \in [DOMAIN numbered -> SUBSET ValuesOf(prog)]
         /\ out_set' \in [DOMAIN numbered -> SUBSET ValuesOf(prog)]
         /\ Visit(prog, Head(left), LiveBefore(Head(left)),
                  SetsOf(prog, numbered, in_set), SetsOf(prog, numbered, out_set),
                  SetsOf(prog, numbered, in_set'), SetsOf(prog, numbered, out_set'))
         /\ changed' <=> changed \/ \E i \in 1 .. Width(prog, Head(left)) :
                ~(LiveBefore(Head(left))[i] \subseteq SetsOf(prog, numbered, in_set)[InstrOf(Head(left), i)])
  <1> DEFINE b == Head(left)
             n == Width(prog, b)
             V == SUBSET ValuesOf(prog)
             I == SetsOf(prog, numbered, in_set)
             O == SetsOf(prog, numbered, out_set)
             J == SetsOf(prog, numbered, in_set')
             P == SetsOf(prog, numbered, out_set')
             f == LiveBefore(b)
             o == JoinOf(prog, I, b)
             copyIn == CopyIn(prog, b, f[n])
             id(e) == IdIn(numbered, e)
             instrIds == {id(InstrOf(b, i)) : i \in 1 .. n}
             copyIds == {id(c) : c \in BlockCopies(prog, b)}
  <1>1. n \in Nat \ {0} /\ n \in 1 .. n
    BY DEF Shaped
  <1>2. /\ JoinFor(b) = o
        /\ \A out : ProcessCopyStmts(b, out) = CopyIn(prog, b, out)
        /\ \A i : InstrId(b, i) = id(InstrOf(b, i))
        /\ \A e : Id(e) = id(e)
    BY StateOperators DEF Id, IdIn
  <1>3. I \in Sets(prog) /\ O \in Sets(prog)
    BY SetsTyped
  <1>4. o \in V
    BY <1>3, EntryNumbered
  <1>5. Before(prog, b, o, f)
    <2>1. f = CHOOSE h : h = [i \in 1 .. n |->
            TransferFunction(prog.body[b][i],
                CASE i = n     -> o
                  [] i = n - 1 -> CopyIn(prog, b, h[n])
                  [] OTHER     -> h[i + 1])]
      <3> HIDE DEF o
      <3>1. f = CHOOSE h : h = [i \in 1 .. n |->
            TransferFunction(prog.body[b][i],
                CASE i = n     -> JoinFor(b)
                  [] i = n - 1 -> ProcessCopyStmts(b, h[n])
                  [] OTHER     -> h[i + 1])]
        BY DEF LiveBefore, Width
      <3> QED BY <1>2, <3>1
    <2> QED BY <1>4, <2>1, BeforeExists
  <1>6. /\ f \in [1 .. n -> V]
        /\ \A i \in 1 .. n : f[i] \in V /\ OutAt(prog, b, o, f, i) \in V
        /\ copyIn \in V
    <2>1. f \in [1 .. n -> V]
      BY <1>5 DEF Before
    <2>2. copyIn \in V
      <3> DEFINE S == f[n]
      <3>1. S \in SUBSET ValuesOf(prog)
        BY <1>1, <2>1
      <3> HIDE DEF S
      <3> QED BY <3>1, TransferIs DEF S
    <2>3. \A i \in 1 .. n : i # n => i + 1 \in 1 .. n
      BY <1>1
    <2>4. \A i \in 1 .. n : OutAt(prog, b, o, f, i) \in V
      <3> HIDE DEF f, o
      <3> QED BY <1>1, <1>4, <2>1, <2>2, <2>3 DEF OutAt
    <2> QED BY <2>1, <2>2, <2>4
  <1>7. /\ \A e \in EntitiesOf(prog) : id(e) \in DOMAIN numbered /\ numbered[id(e)] = e
        /\ \A i \in 1 .. n : InstrOf(b, i) \in EntitiesOf(prog) /\ InstrOf(b, i).pos = i
                              /\ InstrOf(b, i) \notin BlockCopies(prog, b)
        /\ BlockCopies(prog, b) \subseteq EntitiesOf(prog)
    BY EntitiesDiffer DEF IsNumbering
  <1> DEFINE w == Len(prog.body[b])
             rawIn == ProcessCopyStmts(b, f[w])
             rawIds == {Id(c) : c \in ToSet(PhiMap(b))}
             rawInstr == [j \in {InstrId(b, i) : i \in 1 .. w} |-> numbered[j].pos]
             rawAfter == [i \in 1 .. w |-> CASE i = w     -> JoinFor(b)
                                             [] i = w - 1 -> rawIn
                                             [] OTHER     -> f[i + 1]]
  <1>20. /\ in_set' = [j \in DOMAIN in_set |->
                CASE j \in DOMAIN rawInstr -> in_set[j] \cup f[rawInstr[j]]
                  [] j \in rawIds          -> rawIn
                  [] OTHER                 -> in_set[j]]
        /\ out_set' = [j \in DOMAIN out_set |->
                CASE j \in DOMAIN rawInstr -> rawAfter[rawInstr[j]]
                  [] j \in rawIds          -> f[w]
                  [] OTHER                 -> out_set[j]]
    BY DEF VisitBlock
  <1>21. /\ in_set' = [k \in DOMAIN in_set |-> in_set'[k]]
         /\ out_set' = [k \in DOMAIN out_set |-> out_set'[k]]
    <2> HIDE DEF f, w, rawIn, rawIds, rawInstr, rawAfter
    <2> QED BY <1>20
  <1> HIDE DEF w, rawIn, rawIds, rawInstr, rawAfter
  <1>8. ASSUME NEW k \in DOMAIN numbered
        PROVE  /\ k \in instrIds => /\ numbered[k].pos \in 1 .. n
                                     /\ in_set'[k] = in_set[k] \cup f[numbered[k].pos]
                                     /\ out_set'[k] = OutAt(prog, b, o, f, numbered[k].pos)
               /\ k \in copyIds => in_set'[k] = copyIn /\ out_set'[k] = f[n]
               /\ k \notin instrIds \cup copyIds => in_set'[k] = in_set[k] /\ out_set'[k] = out_set[k]
    <2> DEFINE instr == [j \in instrIds |-> numbered[j].pos]
               after == [i \in 1 .. n |-> CASE i = n     -> o
                                            [] i = n - 1 -> copyIn
                                            [] OTHER     -> f[i + 1]]
    <2>1. /\ in_set'[k] = CASE k \in DOMAIN instr -> in_set[k] \cup f[instr[k]]
                            [] k \in copyIds      -> copyIn
                            [] OTHER              -> in_set[k]
          /\ out_set'[k] = CASE k \in DOMAIN instr -> after[instr[k]]
                             [] k \in copyIds      -> f[n]
                             [] OTHER              -> out_set[k]
      <3>1. k \in DOMAIN in_set /\ k \in DOMAIN out_set
        OBVIOUS
      <3> HIDE DEF f, o
      <3>3. w = n /\ rawIn = copyIn /\ rawIds = copyIds /\ rawInstr = instr
        BY <1>2 DEF Width, BlockCopies, PhiMap, w, rawIn, rawIds, rawInstr
      <3>4. rawAfter = after
        <4> HIDE DEF copyIn
        <4> QED BY <1>2, <3>3 DEF rawAfter
      <3> HIDE DEF copyIn, copyIds, instr, after
      <3> QED BY <1>20, <3>1, <3>3, <3>4
    <2>2. k \in instrIds => numbered[k].pos \in 1 .. n /\ instr[k] = numbered[k].pos
      BY <1>7
    <2>3. ~(k \in instrIds /\ k \in copyIds)
      <3> SUFFICES ASSUME k \in instrIds, k \in copyIds PROVE FALSE
        OBVIOUS
      <3>1. PICK i \in 1 .. n : k = id(InstrOf(b, i))
        OBVIOUS
      <3>2. PICK c \in BlockCopies(prog, b) : k = id(c)
        OBVIOUS
      <3> QED BY <1>7, <3>1, <3>2
    <2>4. \A i \in 1 .. n : after[i] = OutAt(prog, b, o, f, i)
      <3> HIDE DEF f, o
      <3> QED BY <1>1 DEF OutAt
    <2>5. k \in DOMAIN in_set /\ k \in DOMAIN out_set /\ DOMAIN instr = instrIds
      OBVIOUS
    <2> HIDE DEF after, instr, copyIn, f, o, instrIds, copyIds
    <2> QED BY <2>1, <2>2, <2>3, <2>4, <2>5
  <1>9. in_set' \in [DOMAIN numbered -> V] /\ out_set' \in [DOMAIN numbered -> V]
    <2>1. \A k \in DOMAIN numbered : in_set'[k] \in V /\ out_set'[k] \in V
      <3> SUFFICES ASSUME NEW k \in DOMAIN numbered PROVE in_set'[k] \in V /\ out_set'[k] \in V
        OBVIOUS
      <3>1. in_set[k] \in V /\ out_set[k] \in V
        OBVIOUS
      <3> HIDE DEF copyIn, f, o, instrIds, copyIds
      <3> QED BY <1>1, <1>6, <1>8, <3>1
    <2>2. in_set' = [k \in DOMAIN numbered |-> in_set'[k]] /\ out_set' = [k \in DOMAIN numbered |-> out_set'[k]]
      BY <1>21
    <2> QED BY <2>1, <2>2
  <1>10. \A e \in EntitiesOf(prog) : /\ I[e] = in_set[id(e)] /\ J[e] = in_set'[id(e)]
                                      /\ O[e] = out_set[id(e)] /\ P[e] = out_set'[id(e)]
    BY DEF SetsOf
  <1>11. J \in Sets(prog) /\ P \in Sets(prog)
    BY <1>9, SetsTyped
  <1> HIDE DEF I, J, O, P, f, o, copyIn
  <1>12. \A i \in 1 .. n : /\ J[InstrOf(b, i)] = I[InstrOf(b, i)] \cup f[i]
                            /\ P[InstrOf(b, i)] = OutAt(prog, b, o, f, i)
    <2> SUFFICES ASSUME NEW i \in 1 .. n
                 PROVE  /\ J[InstrOf(b, i)] = I[InstrOf(b, i)] \cup f[i]
                        /\ P[InstrOf(b, i)] = OutAt(prog, b, o, f, i)
      OBVIOUS
    <2> DEFINE k == id(InstrOf(b, i))
    <2>1. k \in DOMAIN numbered /\ k \in instrIds /\ numbered[k].pos = i
      BY <1>7
    <2> HIDE DEF k, instrIds, copyIds
    <2>2. in_set'[k] = in_set[k] \cup f[i] /\ out_set'[k] = OutAt(prog, b, o, f, i)
      BY <1>8, <2>1
    <2> QED BY <1>7, <1>10, <2>2 DEF k
  <1>13. \A c \in BlockCopies(prog, b) : J[c] = copyIn /\ P[c] = f[n]
    <2> SUFFICES ASSUME NEW c \in BlockCopies(prog, b) PROVE J[c] = copyIn /\ P[c] = f[n]
      OBVIOUS
    <2> DEFINE k == id(c)
    <2>1. k \in DOMAIN numbered /\ k \in copyIds
      BY <1>7
    <2> HIDE DEF k, instrIds, copyIds
    <2>2. in_set'[k] = copyIn /\ out_set'[k] = f[n]
      BY <1>8, <2>1
    <2> QED BY <1>7, <1>10, <2>2 DEF k
  <1>14. \A e \in EntitiesOf(prog) \ (InstrsIn(prog, b) \cup BlockCopies(prog, b)) : J[e] = I[e] /\ P[e] = O[e]
    <2> SUFFICES ASSUME NEW e \in EntitiesOf(prog), e \notin InstrsIn(prog, b), e \notin BlockCopies(prog, b)
                 PROVE  J[e] = I[e] /\ P[e] = O[e]
      OBVIOUS
    <2> DEFINE k == id(e)
    <2>1. k \in DOMAIN numbered /\ k \notin instrIds \cup copyIds
      BY <1>7 DEF InstrsIn
    <2> HIDE DEF k, instrIds, copyIds
    <2>2. in_set'[k] = in_set[k] /\ out_set'[k] = out_set[k]
      BY <1>8, <2>1
    <2> QED BY <1>10, <2>2 DEF k
  <1>15. Visit(prog, b, f, I, O, J, P)
    BY <1>5, <1>11, <1>12, <1>13, <1>14 DEF Visit, o, copyIn
  <1>16. changed' <=> changed \/ \E i \in 1 .. n : ~(f[i] \subseteq I[InstrOf(b, i)])
    <2>1. changed' <=> changed \/ Grows(b, f)
      BY DEF VisitBlock, f
    <2>2. Grows(b, f) <=> \E i \in 1 .. n : ~(f[i] \subseteq I[InstrOf(b, i)])
      BY <1>2, <1>6, <1>7, <1>10 DEF Grows
    <2> QED BY <2>1, <2>2
  <1> QED BY <1>9, <1>15, <1>16 DEF I, J, O, P, f

(* The visit to a block. *)
LEMMA LiveVisitBlock ==
  ASSUME LiveInv, VisitBlock
  PROVE  LiveInv'
  <1> DEFINE g == prog
             dfs == bb_dfs_order
             b == Head(left)
             f == LiveBefore(b)
             I == SetsOf(g, numbered, in_set)
             O == SetsOf(g, numbered, out_set)
             J == SetsOf(g, numbered, in_set')
             P == SetsOf(g, numbered, out_set')
  <1>1. /\ phase = "sweep" /\ left # <<>> /\ left' = Tail(left) /\ prog \in Programs /\ changed \in BOOLEAN
        /\ changed' \in BOOLEAN
        /\ UNCHANGED <<prog, phase, stack, bb_dfs_order, numbered, interval_map>>
        /\ SweepOf(g, dfs, numbered, left, changed, in_set, out_set)
    BY DEF LiveInv, VisitBlock
  <1>2. Shaped(g)
    BY ProgramShaped DEF LiveInv
  <1>3. /\ Ordered(g, dfs) /\ numbered = NumberedBy(g, dfs)
        /\ in_set \in [DOMAIN numbered -> SUBSET ValuesOf(g)] /\ out_set \in [DOMAIN numbered -> SUBSET ValuesOf(g)]
    BY <1>1 DEF SweepOf
  <1>4. IsNumbering(g, numbered)
    BY <1>2, <1>3, Numbering
  <1>5. PICK m \in 0 .. Len(dfs) :
            left = LeftOf(dfs, m) /\ (EntriesOwn(g) => SweepInv(g, dfs, m, changed, I, O))
    BY <1>1 DEF SweepOf
  <1>6. dfs \in Seq(BlocksOf(g)) /\ Len(dfs) \in Nat
    BY <1>3 DEF Ordered
  <1>7. /\ m \in 1 .. Len(dfs) /\ b = dfs[m] /\ b \in BlocksOf(g)
        /\ left' = LeftOf(dfs, m - 1) /\ m - 1 \in 0 .. Len(dfs)
    <2>1. m # 0
      BY <1>1, <1>5, <1>6, LeftIs
    <2>2. Head(LeftOf(dfs, m)) = dfs[m] /\ dfs[m] \in BlocksOf(g)
          /\ Tail(LeftOf(dfs, m)) = LeftOf(dfs, m - 1) /\ m - 1 \in 0 .. Len(dfs)
      BY <1>6, <2>1, LeftIs
    <2> QED BY <1>1, <1>5, <1>6, <2>1, <2>2
  <1>8. /\ in_set' \in [DOMAIN numbered -> SUBSET ValuesOf(g)]
        /\ out_set' \in [DOMAIN numbered -> SUBSET ValuesOf(g)]
        /\ Visit(g, b, f, I, O, J, P)
        /\ changed' <=> changed \/ \E i \in 1 .. Width(g, b) : ~(f[i] \subseteq I[InstrOf(b, i)])
    BY <1>2, <1>3, <1>4, <1>7, VisitBlockIs
  <1>9. I \in Sets(g) /\ O \in Sets(g)
    BY <1>3, <1>4, SetsTyped
  <1>10. ASSUME EntriesOwn(g)
         PROVE  SweepInv(g, dfs, m - 1, changed', J, P)
    <2> HIDE DEF b, f, I, O, J, P
    <2>1. SweepInv(g, dfs, m, changed, I, O)
      BY <1>5, <1>10
    <2> QED BY <1>2, <1>3, <1>7, <1>8, <1>9, <1>10, <2>1, SweepNext
  <1>11. SweepOf(g, dfs, numbered, left', changed', in_set', out_set')
    BY <1>3, <1>7, <1>8, <1>10 DEF SweepOf
  <1> QED BY <1>1, <1>11 DEF LiveInv

(* The intervals. *)
LEMMA LiveMakeInterval ==
  ASSUME LiveInv, MakeInterval
  PROVE  LiveInv'
  <1>1. /\ phase = "sweep" /\ left = <<>> /\ ~changed /\ phase' = "done"
        /\ UNCHANGED <<prog, stack, bb_dfs_order, numbered, left, changed, in_set, out_set>>
        /\ interval_map' = [v \in {w \in Values : Touched(w) # {}} |-> Hull(Touched(v))]
    BY DEF MakeInterval
  <1>2. Values' = Values /\ \A v : Touched(v)' = Touched(v)
    BY <1>1 DEF Values, Touched
  <1>3. interval_map' = [v \in {w \in Values' : Touched(w)' # {}} |-> Hull(Touched(v)')]
    BY <1>1, <1>2
  <1> QED BY <1>1, <1>3 DEF LiveInv

(* A step of the scan leaves the analysis alone. *)
LEMMA LiveStutter ==
  ASSUME LiveInv, UNCHANGED vars
  PROVE  LiveInv'
  <1>1. UNCHANGED <<prog, phase, stack, bb_dfs_order, numbered, left, changed, in_set, out_set, interval_map>>
    BY DEF vars
  <1>2. Values' = Values /\ \A v : Touched(v)' = Touched(v)
    BY <1>1 DEF Values, Touched
  <1>3. phase = "done" => interval_map' = [v \in {w \in Values' : Touched(w)' # {}} |-> Hull(Touched(v)')]
    BY <1>1, <1>2 DEF LiveInv
  <1> QED BY <1>1, <1>3 DEF LiveInv

(* Every step of the analysis. *)
LEMMA LiveNext ==
  ASSUME LiveInv, [Step]_vars
  PROVE  LiveInv'
  <1>1. CASE Traverse
    BY <1>1, LiveTraverse
  <1>2. CASE MakeId
    BY <1>2, LiveMakeId
  <1>3. CASE SweepStart
    BY <1>3, LiveSweepStart
  <1>4. CASE VisitBlock
    BY <1>4, LiveVisitBlock
  <1>5. CASE MakeInterval
    BY <1>5, LiveMakeInterval
  <1>6. CASE UNCHANGED vars
    BY <1>6, LiveStutter
  <1> QED BY <1>1, <1>2, <1>3, <1>4, <1>5, <1>6 DEF Step

(* LiveInv holds from the start to the end of the register allocation, of    *)
(* which the analysis is the first part.                                     *)
THEOREM LiveInvariance == RegisterSpec => []LiveInv
  <1>1. RegisterInit => LiveInv
    BY LiveInit DEF RegisterInit
  <1>2. LiveInv /\ [AllocationStep \/ (Allocated /\ UNCHANGED allVars)]_allVars => LiveInv'
    <2>1. [AllocationStep \/ (Allocated /\ UNCHANGED allVars)]_allVars => [Step]_vars
      BY DEF AllocationStep, Analyze, StartScan, ScanNext, allVars
    <2> QED BY <2>1, LiveNext
  <1> QED BY <1>1, <1>2, PTL DEF RegisterSpec

-----------------------------------------------------------------------------
(* What the analysis ends with. *)
LEMMA EntriesAre ==
  ASSUME NEW g, Shaped(g)
  PROVE  /\ EntryCopiesDiffer(g) => EntriesOwn(g)
         /\ (\A b \in BlocksOf(g) : OwnCopies(g, b) = BlockCopies(g, b)) => EntriesOwn(g)
  <1> SUFFICES ASSUME \/ EntryCopiesDiffer(g)
                      \/ \A b \in BlocksOf(g) : OwnCopies(g, b) = BlockCopies(g, b),
                      NEW b \in BlocksOf(g)
               PROVE  EntryOf(g, b) \in Own(g, b)
    BY DEF EntriesOwn
  <1>1. Width(g, b) \in Nat \ {0} /\ PhiMapOf(g, b) \in Seq(CopiesOf(g))
    BY DEF Shaped
  <1>2. CASE ~(Width(g, b) = 1 /\ PhiMapOf(g, b) # <<>>)
    BY <1>1, <1>2 DEF EntryOf, Own, InstrsIn
  <1>3. CASE Width(g, b) = 1 /\ PhiMapOf(g, b) # <<>>
    <2>1. EntryOf(g, b) = PhiMapOf(g, b)[1] /\ EntryOf(g, b) \in BlockCopies(g, b)
      BY <1>1, <1>3 DEF EntryOf, BlockCopies, ToSet
    <2>2. EntryOf(g, b) \in OwnCopies(g, b)
      BY <1>3, <2>1 DEF EntryCopiesDiffer, OwnCopies, BlockCopies, BlocksOf, Width
    <2> QED BY <2>2 DEF Own
  <1> QED BY <1>2, <1>3

(* When every block has an entry of its own, the analysis ends with Live. *)
LEMMA DoneIsExact ==
  ASSUME LiveInv, phase = "done", EntriesOwn(prog)
  PROVE  /\ Shaped(prog) /\ IsNumbering(prog, numbered)
         /\ Exact(SetsOf(prog, numbered, in_set), SetsOf(prog, numbered, out_set))
  <1> DEFINE I == SetsOf(prog, numbered, in_set)
             O == SetsOf(prog, numbered, out_set)
             dfs == bb_dfs_order
  <1>1. /\ left = <<>> /\ ~changed /\ changed \in BOOLEAN
        /\ SweepOf(prog, dfs, numbered, left, changed, in_set, out_set)
    BY DEF LiveInv
  <1>2. Shaped(prog)
    BY ProgramShaped DEF LiveInv
  <1>3. /\ Ordered(prog, dfs) /\ numbered = NumberedBy(prog, dfs)
        /\ in_set \in [DOMAIN numbered -> SUBSET ValuesOf(prog)] /\ out_set \in [DOMAIN numbered -> SUBSET ValuesOf(prog)]
    BY <1>1 DEF SweepOf
  <1>4. IsNumbering(prog, numbered)
    BY <1>2, <1>3, Numbering
  <1>5. I \in Sets(prog)
    BY <1>3, <1>4, SetsTyped
  <1>6. PICK m \in 0 .. Len(dfs) : left = LeftOf(dfs, m) /\ SweepInv(prog, dfs, m, changed, I, O)
    BY <1>1 DEF SweepOf
  <1>7. dfs \in Seq(BlocksOf(prog))
    BY <1>3 DEF Ordered
  <1>8. m = 0
    BY <1>1, <1>6, <1>7, LeftIs
  <1>9. SweepInv(prog, dfs, 0, FALSE, I, O)
    BY <1>1, <1>6, <1>8
  <1> HIDE DEF I, O
  <1>10. Fixed(prog, I, O)
    BY <1>2, <1>9, SweepEnds
  <1>11. \A L : IsSolution(prog, L) => Sound(prog, L, I)
    BY <1>9 DEF SweepInv
  <1>12. Exact(I, O)
    BY <1>2, <1>5, <1>10, <1>11, FixedIsExact
  <1> QED BY <1>2, <1>4, <1>12 DEF I, O

(* The invariant gives LivenessExact: ids stand for points. *)
LEMMA DoneLiveness == LiveInv => LivenessExact
  <1> SUFFICES ASSUME LiveInv, phase = "done", CopiesDiffer,
                      NEW p \in Points, NEW id \in Ids(p)
               PROVE  /\ in_set[id] = {v \in Values : <<v, p>> \in Live}
                      /\ out_set[id] = {v \in Values : \E s \in SuccPoints(p) : <<v, s>> \in Live}
    BY DEF LivenessExact
  <1> DEFINE I == SetsOf(prog, numbered, in_set)
             O == SetsOf(prog, numbered, out_set)
             dfs == bb_dfs_order
  <1>1. Shaped(prog)
    BY ProgramShaped DEF LiveInv
  <1>2. /\ Ordered(prog, dfs) /\ numbered = NumberedBy(prog, dfs)
        /\ in_set \in [DOMAIN numbered -> SUBSET ValuesOf(prog)] /\ out_set \in [DOMAIN numbered -> SUBSET ValuesOf(prog)]
    BY DEF LiveInv, SweepOf
  <1>3. \A b \in BlocksOf(prog) : OwnCopies(prog, b) = BlockCopies(prog, b) /\ CopiesBefore(prog, numbered, b)
    BY <1>1, <1>2, Numbering DEF CopiesDiffer
  <1>4. EntriesOwn(prog)
    BY <1>1, <1>3, EntriesAre
  <1>5. IsNumbering(prog, numbered) /\ Exact(I, O)
    BY <1>4, DoneIsExact
  <1>6. Blocks = BlocksOf(prog) /\ Values = ValuesOf(prog)
    BY <1>1, PointsAre
  <1>7. \A c, i : InstrId(c, i) = IdIn(numbered, InstrOf(c, i))
    BY DEF InstrId, InstrOf, Id, IdIn
  <1>8. \A e \in EntitiesOf(prog) : I[e] = in_set[IdIn(numbered, e)] /\ O[e] = out_set[IdIn(numbered, e)]
    BY DEF SetsOf
  <1>9. PICK b \in Blocks : \E i \in 0 .. Width(prog, b) : p = PointAt(b, i)
    BY <1>1, PointsAre
  <1>10. PICK i \in 0 .. Width(prog, b) : p = PointAt(b, i)
    BY <1>9
  <1>11. Width(prog, b) \in Nat \ {0}
    BY <1>1, <1>6 DEF Shaped
  <1> HIDE DEF I, O
  <1>12. id \in DOMAIN numbered /\ \A v \in Values :
            /\ v \in in_set[id] <=> <<v, p>> \in Live
            /\ v \in out_set[id] <=> \E s \in SuccPoints(p) : <<v, s>> \in Live
    <2>1. CASE i # 0
      <3>1. id = IdIn(numbered, InstrOf(b, i))
        BY <1>7, <1>10, <2>1 DEF Ids, PointAt
      <3>2. i \in 1 .. Width(prog, b) /\ InstrOf(b, i) \in EntitiesOf(prog)
        BY <1>1, <1>6, <1>11, <2>1, EntitiesDiffer
      <3>3. id \in DOMAIN numbered /\ in_set[id] = I[InstrOf(b, i)] /\ out_set[id] = O[InstrOf(b, i)]
        BY <1>5, <1>8, <3>1, <3>2 DEF IsNumbering
      <3> QED BY <1>5, <1>10, <3>2, <3>3 DEF Exact
    <2>2. CASE i = 0
      <3> DEFINE last == IdIn(numbered, InstrOf(b, Width(prog, b)))
      <3>1. id \in last - Len(PhiMapOf(prog, b)) .. last - 1
        BY <1>7, <1>10, <2>2 DEF Ids, PointAt, Width, PhiMap
      <3>2. id \in DOMAIN numbered /\ numbered[id] \in OwnCopies(prog, b) /\ IdIn(numbered, numbered[id]) = id
        BY <1>3, <1>6, <3>1 DEF CopiesBefore
      <3> DEFINE c == numbered[id]
      <3>3. c \in OwnCopies(prog, b) /\ c \in EntitiesOf(prog) /\ IdIn(numbered, c) = id
        BY <1>1, <1>6, <3>2, EntitiesDiffer DEF OwnCopies
      <3> HIDE DEF c
      <3>4. in_set[id] = I[c] /\ out_set[id] = O[c]
        BY <1>8, <3>3
      <3> QED BY <1>5, <1>10, <2>2, <3>2, <3>3, <3>4 DEF Exact
    <2> QED BY <2>1, <2>2
  <1>13. in_set[id] \in SUBSET Values /\ out_set[id] \in SUBSET Values
    BY <1>2, <1>6, <1>12
  <1> QED BY <1>12, <1>13

(* Whatever the function, the live sets that the sweeps end with are those  *)
(* of the definition of liveness, at every number of every point, if no two *)
(* copies share a number.                                                   *)
THEOREM AnalysisExact == RegisterSpec => []LivenessExact
  BY LiveInvariance, DoneLiveness, PTL

-----------------------------------------------------------------------------
(* Intervals: the hull of what is touched has its ends in it, and values     *)
(* that are live at one point are touched at one position.                  *)
LEMMA Ends ==
  ASSUME NEW M \in Nat, NEW S \in SUBSET (0 .. M), S # {}
  PROVE  (\E p \in S : \A q \in S : p <= q) /\ (\E p \in S : \A q \in S : p >= q)
  <1>1. \E p \in S : \A q \in S : p <= q
    <2> DEFINE T == {n \in 0 .. M : (\A k \in 0 .. n : k \notin S) \/ \E p \in S : \A q \in S : p <= q}
    <2> SUFFICES ASSUME ~\E p \in S : \A q \in S : p <= q PROVE FALSE
      OBVIOUS
    <2>1. 0 \in T
      <3>1. 0 \notin S
        OBVIOUS
      <3>2. \A k \in 0 .. 0 : k = 0
        OBVIOUS
      <3> QED BY <3>1, <3>2
    <2>2. \A n \in 1 .. M : n - 1 \in T => n \in T
      <3> SUFFICES ASSUME NEW n \in 1 .. M, n - 1 \in T PROVE n \in T
        OBVIOUS
      <3>1. \A k \in 0 .. n - 1 : k \notin S
        OBVIOUS
      <3>2. n \notin S
        BY <3>1
      <3> QED BY <3>1, <3>2
    <2> HIDE DEF T
    <2>3. 0 .. M \subseteq T
      BY <2>1, <2>2, UpTo
    <2>4. M \in T
      BY <2>3
    <2>5. \A k \in 0 .. M : k \notin S
      BY <2>4 DEF T
    <2> QED BY <2>5
  <1>2. \E p \in S : \A q \in S : p >= q
    <2> DEFINE T == {n \in 0 .. M : \A k \in M - n .. M : k \notin S}
    <2> SUFFICES ASSUME ~\E p \in S : \A q \in S : p >= q PROVE FALSE
      OBVIOUS
    <2>1. 0 \in T
      <3>1. M \notin S
        OBVIOUS
      <3>2. \A k \in M - 0 .. M : k = M
        OBVIOUS
      <3> QED BY <3>1, <3>2
    <2>2. \A n \in 1 .. M : n - 1 \in T => n \in T
      <3> SUFFICES ASSUME NEW n \in 1 .. M, n - 1 \in T PROVE n \in T
        OBVIOUS
      <3>1. \A k \in M - (n - 1) .. M : k \notin S
        OBVIOUS
      <3>2. M - n \notin S
        BY <3>1
      <3> QED BY <3>1, <3>2
    <2> HIDE DEF T
    <2>3. 0 .. M \subseteq T
      BY <2>1, <2>2, UpTo
    <2>4. M \in T
      BY <2>3
    <2>5. \A k \in M - M .. M : k \notin S
      BY <2>4 DEF T
    <2>6. M - M = 0
      OBVIOUS
    <2> QED BY <2>5, <2>6
  <1> QED BY <1>1, <1>2

(* An interval runs from the first position to the last. *)
LEMMA HullIs ==
  ASSUME NEW M \in Nat, NEW S \in SUBSET (0 .. M), S # {}
  PROVE  /\ Hull(S).start \in S /\ Hull(S).end \in S
         /\ \A q \in S : Hull(S).start <= q /\ q <= Hull(S).end
  <1>1. Hull(S).start = CHOOSE p \in S : \A q \in S : p <= q
    BY DEF Hull
  <1>2. Hull(S).end = CHOOSE p \in S : \A q \in S : p >= q
    BY DEF Hull
  <1>3. (\E p \in S : \A q \in S : p <= q) /\ (\E p \in S : \A q \in S : p >= q)
    BY Ends
  <1>4. Hull(S).start \in S /\ \A q \in S : Hull(S).start <= q
    BY <1>1, <1>3
  <1>5. Hull(S).end \in S /\ \A q \in S : Hull(S).end >= q
    BY <1>2, <1>3
  <1>6. \A p, q \in S : p >= q <=> q <= p
    OBVIOUS
  <1> QED BY <1>4, <1>5, <1>6

(* The positions of an interval lie in the code. *)
LEMMA TouchedAre ==
  ASSUME NEW n \in Nat, DOMAIN in_set = 1 .. n, DOMAIN out_set = 1 .. n, NEW v
  PROVE  /\ Touched(v) \subseteq 0 .. 2 * n
         /\ \A id \in 1 .. n : /\ v \in in_set[id] => 2 * id - 1 \in Touched(v)
                               /\ v \in out_set[id] => 2 * id \in Touched(v)
  <1>1. \A id \in 1 .. n : 2 * id - 1 \in 0 .. 2 * n /\ 2 * id \in 0 .. 2 * n
    OBVIOUS
  <1>2. {0 : a \in prog.args \cap {v}} \subseteq {0} /\ 0 \in 0 .. 2 * n
    OBVIOUS
  <1>3. /\ {2 * id - 1 : id \in {k \in DOMAIN in_set : v \in in_set[k]}} \subseteq 0 .. 2 * n
        /\ {2 * id : id \in {k \in DOMAIN out_set : v \in out_set[k]}} \subseteq 0 .. 2 * n
    BY <1>1
  <1> QED BY <1>2, <1>3 DEF Touched

(* What is live at a point is touched at one position of it. *)
LEMMA TouchedTogether ==
  ASSUME LiveInv, phase = "done", EntryCopiesDiffer(prog)
  PROVE  /\ \A v \in Values : Touched(v) \subseteq 0 .. 2 * Len(numbered)
         /\ Len(numbered) \in Nat
         /\ \A p \in Points : \E x \in 0 .. 2 * Len(numbered) :
              \A v \in Values : <<v, p>> \in Live => x \in Touched(v)
  <1> DEFINE I == SetsOf(prog, numbered, in_set)
             O == SetsOf(prog, numbered, out_set)
             n == Len(numbered)
  <1>1. Shaped(prog)
    BY ProgramShaped DEF LiveInv
  <1>2. EntriesOwn(prog)
    BY <1>1, EntriesAre
  <1>3. IsNumbering(prog, numbered) /\ Exact(I, O)
    BY <1>2, DoneIsExact
  <1>4. n \in Nat /\ DOMAIN numbered = 1 .. n
    BY <1>3 DEF IsNumbering
  <1>5. DOMAIN in_set = 1 .. n /\ DOMAIN out_set = 1 .. n
    BY <1>4 DEF LiveInv, SweepOf
  <1>6. \A v : /\ Touched(v) \subseteq 0 .. 2 * n
               /\ \A id \in 1 .. n : /\ v \in in_set[id] => 2 * id - 1 \in Touched(v)
                                     /\ v \in out_set[id] => 2 * id \in Touched(v)
    <2> HIDE DEF n
    <2> QED BY <1>4, <1>5, TouchedAre
  <1>7. ASSUME NEW e \in EntitiesOf(prog)
        PROVE  /\ \E x \in 0 .. 2 * n : \A v \in I[e] : x \in Touched(v)
               /\ \E x \in 0 .. 2 * n : \A v \in O[e] : x \in Touched(v)
    <2> DEFINE id == IdIn(numbered, e)
    <2>1. id \in 1 .. n
      BY <1>3, <1>4 DEF IsNumbering
    <2>2. I[e] = in_set[id] /\ O[e] = out_set[id]
      BY DEF SetsOf
    <2> HIDE DEF id, I, O, n
    <2>3. 2 * id - 1 \in 0 .. 2 * n /\ 2 * id \in 0 .. 2 * n
      BY <1>4, <2>1
    <2>4. /\ \A v \in I[e] : 2 * id - 1 \in Touched(v)
          /\ \A v \in O[e] : 2 * id \in Touched(v)
      BY <1>6, <2>1, <2>2
    <2> QED BY <2>3, <2>4
  <1>8. Blocks = BlocksOf(prog) /\ Values = ValuesOf(prog)
    BY <1>1, PointsAre
  <1>9. ASSUME NEW p \in Points
        PROVE  \E x \in 0 .. 2 * n : \A v \in Values : <<v, p>> \in Live => x \in Touched(v)
    <2>1. PICK b \in Blocks : \E i \in 0 .. Width(prog, b) : p = PointAt(b, i)
      BY <1>1, PointsAre
    <2>2. PICK i \in 0 .. Width(prog, b) : p = PointAt(b, i)
      BY <2>1
    <2> DEFINE w == Width(prog, b)
    <2>3. w \in Nat \ {0}
      BY <1>1, <1>8 DEF Shaped
    <2>4. \A j \in 1 .. w : InstrOf(b, j) \in EntitiesOf(prog)
      BY <1>1, <1>8, EntitiesDiffer
    <2>5. \A v \in Values : \A j \in 1 .. w :
            /\ v \in I[InstrOf(b, j)] <=> <<v, PointAt(b, j)>> \in Live
            /\ v \in O[InstrOf(b, j)] <=> \E s \in SuccPoints(PointAt(b, j)) : <<v, s>> \in Live
      BY <1>3 DEF Exact
    <2>6. \A v \in Values : \A c \in OwnCopies(prog, b) : v \in I[c] <=> <<v, PointAt(b, 0)>> \in Live
      BY <1>3 DEF Exact
    <2>7. \A j \in 0 .. w : SuccPoints(PointAt(b, j)) = After(b, j)
      BY <1>1, SuccPointsAre
    <2> HIDE DEF I, O, n
    <2>8. CASE i # 0
      <3>1. i \in 1 .. w
        BY <2>3, <2>8
      <3> HIDE DEF w
      <3> QED BY <1>7, <2>2, <2>4, <2>5, <3>1
    <2>9. CASE i = 0 /\ w # 1
      <3>1. w - 1 \in 1 .. w /\ w - 1 \in 0 .. w /\ w - 1 # w /\ w - 1 # 0
        BY <2>3, <2>9
      <3>2. After(b, w - 1) = {PointAt(b, 0)}
        BY <3>1 DEF After
      <3>3. SuccPoints(PointAt(b, w - 1)) = {p}
        BY <2>2, <2>7, <2>9, <3>1, <3>2
      <3> DEFINE j == w - 1
      <3>4. j \in 1 .. w /\ SuccPoints(PointAt(b, j)) = {p}
        BY <3>1, <3>3
      <3> HIDE DEF w, j
      <3>5. \A v \in Values : v \in O[InstrOf(b, j)] <=> <<v, p>> \in Live
        BY <2>5, <3>4
      <3> QED BY <1>7, <2>4, <3>4, <3>5
    <2>10. CASE i = 0 /\ w = 1 /\ PhiMapOf(prog, b) # <<>>
      <3> DEFINE c == EntryOf(prog, b)
      <3>1. c \in Own(prog, b)
        BY <1>2, <1>8 DEF EntriesOwn
      <3>2. c = PhiMapOf(prog, b)[1] /\ PhiMapOf(prog, b) \in Seq(CopiesOf(prog))
        BY <1>1, <1>8, <2>10 DEF EntryOf, Shaped
      <3>3. c \in BlockCopies(prog, b)
        BY <2>10, <3>2 DEF BlockCopies, ToSet
      <3>4. c \in OwnCopies(prog, b) /\ c \in EntitiesOf(prog)
        <4>1. c \notin InstrsIn(prog, b)
          BY <1>1, <1>8, <3>3, EntitiesDiffer DEF InstrsIn
        <4>2. c \in EntitiesOf(prog)
          BY <1>1, <1>8, <3>3, EntitiesDiffer
        <4> QED BY <3>1, <4>1, <4>2 DEF Own
      <3> HIDE DEF c
      <3>5. \A v \in Values : v \in I[c] <=> <<v, p>> \in Live
        BY <2>2, <2>6, <2>10, <3>4
      <3> QED BY <1>7, <3>4, <3>5
    <2>11. CASE i = 0 /\ w = 1 /\ PhiMapOf(prog, b) = <<>>
      <3>1. ToSet(PhiMapOf(prog, b)) = {}
        BY <2>11 DEF ToSet
      <3>2. UsedAt(p) = {}
        BY <1>1, <2>2, <2>11, <3>1, SuccPointsAre
      <3>3. SuccPoints(p) = {PointAt(b, 1)}
        BY <2>2, <2>7, <2>11 DEF After
      <3>4. \A v \in Values : <<v, p>> \in Live => <<v, PointAt(b, 1)>> \in Live
        BY <1>1, <3>2, <3>3, LiveIsLeast DEF Solution, Demands
      <3>5. 1 \in 1 .. w
        BY <2>11
      <3> HIDE DEF w
      <3>6. \A v \in Values : <<v, p>> \in Live => v \in I[InstrOf(b, 1)]
        BY <2>5, <3>4, <3>5
      <3> QED BY <1>7, <2>4, <3>5, <3>6
    <2> QED BY <2>8, <2>9, <2>10, <2>11
  <1> QED BY <1>4, <1>6, <1>9

(* The invariant gives InterferenceKept. *)
LEMMA DoneInterference == LiveInv => InterferenceKept
  <1> SUFFICES ASSUME LiveInv, phase = "done", EntryCopiesDiffer(prog),
                      NEW l \in Live, NEW m \in Live, l[2] = m[2]
               PROVE  /\ {l[1], m[1]} \subseteq DOMAIN interval_map
                      /\ interval_map[l[1]].start <= interval_map[m[1]].end
                      /\ interval_map[m[1]].start <= interval_map[l[1]].end
    BY DEF InterferenceKept
  <1> DEFINE n == Len(numbered)
  <1>1. Live \in SUBSET (Values \X Points)
    BY ProgramShaped, LiveIsLeast DEF LiveInv
  <1>2. /\ l[1] \in Values /\ m[1] \in Values /\ l[2] \in Points
        /\ l = <<l[1], l[2]>> /\ m = <<m[1], l[2]>>
    BY <1>1
  <1>3. /\ n \in Nat /\ \A v \in Values : Touched(v) \subseteq 0 .. 2 * n
        /\ \A p \in Points : \E x \in 0 .. 2 * n : \A v \in Values : <<v, p>> \in Live => x \in Touched(v)
    BY TouchedTogether
  <1>4. interval_map = [v \in {w \in Values : Touched(w) # {}} |-> Hull(Touched(v))]
    BY DEF LiveInv
  <1> HIDE DEF n
  <1>5. PICK x \in 0 .. 2 * n : x \in Touched(l[1]) /\ x \in Touched(m[1])
    BY <1>2, <1>3
  <1>6. ASSUME NEW v \in Values, x \in Touched(v)
        PROVE  /\ v \in DOMAIN interval_map
               /\ interval_map[v].start \in Int /\ interval_map[v].end \in Int
               /\ interval_map[v].start <= x /\ x <= interval_map[v].end
    <2> DEFINE S == Touched(v)
               M == 2 * n
    <2>1. v \in DOMAIN interval_map /\ interval_map[v] = Hull(S)
      BY <1>4, <1>6
    <2>2. M \in Nat /\ S \in SUBSET (0 .. M) /\ x \in S
      BY <1>3, <1>6
    <2> HIDE DEF S, M
    <2>3. /\ Hull(S).start \in S /\ Hull(S).end \in S
          /\ Hull(S).start <= x /\ x <= Hull(S).end
      BY <2>2, HullIs
    <2>4. \A k \in S : k \in Int
      BY <2>2
    <2> HIDE DEF M
    <2> DEFINE h == Hull(S)
    <2>5. h.start \in Int /\ h.end \in Int /\ h.start <= x /\ x <= h.end
      BY <2>3, <2>4
    <2>6. interval_map[v] = h
      BY <2>1
    <2> HIDE DEF h
    <2> QED BY <2>1, <2>5, <2>6
  <1>7. x \in Int
    BY <1>3
  <1> QED BY <1>2, <1>5, <1>6, <1>7

(* Whatever the function, values that are live at a common point have       *)
(* intervals that meet, even when copies share a number, as long as no      *)
(* entry of a block does.                                                   *)
THEOREM IntervalsMeet == RegisterSpec => []InterferenceKept
  BY LiveInvariance, DoneInterference, PTL

-----------------------------------------------------------------------------
(* The scan of what the analysis made.  Scan is RaInt with its proofs. *)
Scan == INSTANCE LinearScanProofs
            WITH Values <- {Address[v] : v \in DOMAIN Address}, Type <- "int",
                 Functions <- {}, MaxFunctions <- 1

(* The addresses and registers are as LinearScan assumes. *)
LEMMA ScanAssumption == Scan!LinearScanAssumption
  BY RegisterAssumption DEF Scan!LinearScanAssumption

(* RaInt and Scan are one module: their actions are the same. *)
LEMMA SameInit == RaInt!Init => Scan!Init
  BY DEF RaInt!Init, Scan!Init, RaInt!NoFunction, Scan!NoFunction

(* reset and reserve_for_arg. *)
LEMMA SameStart ==
  ASSUME NEW f, RaInt!StartScan(f)
  PROVE  Scan!StartScan(f) /\ runs' = runs + 1 /\ func' = f
  BY DEF RaInt!StartScan, Scan!StartScan, RaInt!Reserved, Scan!Reserved, RaInt!ArgReg, Scan!ArgReg

(* An interval that gets no register. *)
LEMMA SameSkip ==
  ASSUME NEW v, RaInt!Skip(v)
  PROVE  Scan!Skip(v) /\ UNCHANGED <<func, runs>>
  BY DEF RaInt!Skip, Scan!Skip, RaInt!IsNext, Scan!IsNext, RaInt!StartsBefore, Scan!StartsBefore,
         RaInt!Candidates, Scan!Candidates

(* A free register. *)
LEMMA SameAssign ==
  ASSUME NEW v, RaInt!Assign(v)
  PROVE  Scan!Assign(v) /\ UNCHANGED <<func, runs>>
  BY DEF RaInt!Assign, Scan!Assign, RaInt!IsNext, Scan!IsNext, RaInt!StartsBefore, Scan!StartsBefore,
         RaInt!Candidates, Scan!Candidates, RaInt!StillActive, Scan!StillActive, RaInt!StillUsed, Scan!StillUsed,
         RaInt!Expired, Scan!Expired, RaInt!IsFirstFree, Scan!IsFirstFree, RaInt!Regs, Scan!Regs,
         RaInt!Cardinality, Scan!Cardinality

(* The interval itself is spilled. *)
LEMMA SameLeaveInMemory ==
  ASSUME NEW v, RaInt!LeaveInMemory(v)
  PROVE  Scan!LeaveInMemory(v) /\ UNCHANGED <<func, runs>>
  BY DEF RaInt!LeaveInMemory, Scan!LeaveInMemory, RaInt!IsNext, Scan!IsNext, RaInt!StartsBefore, Scan!StartsBefore,
         RaInt!Candidates, Scan!Candidates, RaInt!StillActive, Scan!StillActive, RaInt!StillUsed, Scan!StillUsed,
         RaInt!Expired, Scan!Expired, RaInt!IsVictim, Scan!IsVictim, RaInt!EndsBefore, Scan!EndsBefore,
         RaInt!Cardinality, Scan!Cardinality

(* Another interval is spilled. *)
LEMMA SameTakeRegister ==
  ASSUME NEW v, RaInt!TakeRegister(v)
  PROVE  Scan!TakeRegister(v) /\ UNCHANGED <<func, runs>>
  BY DEF RaInt!TakeRegister, Scan!TakeRegister, RaInt!IsNext, Scan!IsNext, RaInt!StartsBefore, Scan!StartsBefore,
         RaInt!Candidates, Scan!Candidates, RaInt!StillActive, Scan!StillActive, RaInt!StillUsed, Scan!StillUsed,
         RaInt!Expired, Scan!Expired, RaInt!IsVictim, Scan!IsVictim, RaInt!EndsBefore, Scan!EndsBefore,
         RaInt!Cardinality, Scan!Cardinality

(* Distinct members of a finite set of numbers have different ranks. *)
LEMMA Ranks ==
  ASSUME NEW S \in SUBSET Nat, IsFiniteSet(S), NEW u \in S, NEW v \in S,
         Cardinality({m \in S : m < u}) = Cardinality({m \in S : m < v})
  PROVE  u = v
  <1>1. ASSUME NEW x \in S, NEW z \in S, x < z,
               Cardinality({m \in S : m < x}) = Cardinality({m \in S : m < z})
        PROVE  FALSE
    <2> DEFINE T == {m \in S : m < z}
               R == {m \in S : m < x}
    <2>1. T \in SUBSET S /\ R \in SUBSET T /\ x \in T /\ x \notin R /\ Cardinality(T) = Cardinality(R)
      <3>1. \A m \in S : m < x => m < z
        BY <1>1
      <3>2. x \in T
        BY <1>1
      <3>3. x \notin R
        <4>1. ~(x < x)
          OBVIOUS
        <4> QED BY <4>1
      <3>4. R \in SUBSET T
        BY <3>1
      <3> QED BY <1>1, <3>2, <3>3, <3>4
    <2> HIDE DEF T, R
    <2>2. IsFiniteSet(T)
      BY <2>1, FS_Subset
    <2>3. T = R
      BY <2>1, <2>2, FS_Subset
    <2> QED BY <2>1, <2>3
  <1>2. u < v \/ v < u \/ u = v
    OBVIOUS
  <1> QED BY <1>1, <1>2

(* The intervals start no later than they end, those of arguments at 0. *)
LEMMA IntervalsAre ==
  ASSUME LiveInv, phase = "done"
  PROVE  /\ DOMAIN interval_map \subseteq Values /\ IsFiniteSet(Values) /\ Values \subseteq DOMAIN Address
         /\ \A v \in DOMAIN interval_map :
                /\ interval_map[v].start \in Nat /\ interval_map[v].end \in Nat
                /\ interval_map[v].start <= interval_map[v].end
                /\ v \in prog.args => interval_map[v].start = 0
  <1> DEFINE n == Len(numbered)
             D == DOMAIN interval_map
  <1>1. Shaped(prog) /\ prog \in Programs
    BY ProgramShaped DEF LiveInv
  <1>2. IsFiniteSet(Values) /\ Values \subseteq DOMAIN Address
    BY <1>1, LivenessAssumption, RegisterAssumption DEF WellFormed, Values
  <1>3. interval_map = [v \in {w \in Values : Touched(w) # {}} |-> Hull(Touched(v))]
    BY DEF LiveInv
  <1>4. Ordered(prog, bb_dfs_order) /\ numbered = NumberedBy(prog, bb_dfs_order)
        /\ DOMAIN in_set = DOMAIN numbered /\ DOMAIN out_set = DOMAIN numbered
    BY DEF LiveInv, SweepOf
  <1>5. IsNumbering(prog, numbered)
    BY <1>1, <1>4, Numbering
  <1>6. n \in Nat /\ DOMAIN in_set = 1 .. n /\ DOMAIN out_set = 1 .. n
    BY <1>4, <1>5 DEF IsNumbering
  <1> HIDE DEF n
  <1>7. ASSUME NEW v \in D
        PROVE  /\ v \in Values
               /\ interval_map[v].start \in Nat /\ interval_map[v].end \in Nat
               /\ interval_map[v].start <= interval_map[v].end
               /\ v \in prog.args => interval_map[v].start = 0
    <2> DEFINE S == Touched(v)
               M == 2 * n
               h == Hull(S)
    <2>1. v \in Values /\ S # {} /\ interval_map[v] = h
      BY <1>3
    <2>2. S \subseteq 0 .. M
      BY <1>6, TouchedAre
    <2>3. M \in Nat
      BY <1>6
    <2>4. v \in prog.args => 0 \in S
      BY DEF Touched
    <2> HIDE DEF S, M
    <2>5. h.start \in S /\ h.end \in S /\ \A q \in S : h.start <= q /\ q <= h.end
      BY <2>1, <2>2, <2>3, HullIs
    <2> HIDE DEF h
    <2>6. h.start \in Nat /\ h.end \in Nat /\ h.start <= h.end
      <3>1. \A q \in S : q \in Nat
        BY <2>2, <2>3
      <3>2. h.start <= h.end
        BY <2>5
      <3> QED BY <2>5, <3>1, <3>2
    <2>7. v \in prog.args => h.start = 0
      BY <2>4, <2>5, <2>6
    <2> QED BY <2>1, <2>6, <2>7
  <1> QED BY <1>2, <1>7

(* The function that the scan gets: the intervals by address. *)
LEMMA IntervalsScanned ==
  ASSUME LiveInv, phase = "done"
  PROVE  /\ Scan!IsFunction(LiveIntervals)
         /\ LiveIntervals.values = {Address[v] : v \in DOMAIN interval_map}
         /\ \A v \in DOMAIN interval_map :
                /\ LiveIntervals.start[Address[v]] = interval_map[v].start
                /\ LiveIntervals.end[Address[v]] = interval_map[v].end
  <1> DEFINE D == DOMAIN interval_map
             value(k) == CHOOSE v \in DOMAIN interval_map : Address[v] = k
             values == {Address[v] : v \in D}
             args == {Address[v] : v \in prog.args \cap D}
             noReg == {Address[v] : v \in {w \in D \ prog.args : NoRegAlloca(w)}}
             start == [k \in values |-> interval_map[value(k)].start]
             end == [k \in values |-> interval_map[value(k)].end]
             type == [k \in values |-> "int"]
             argNo == [k \in args |-> Cardinality({m \in args : m < k})]
  <1>1. LiveIntervals = [values |-> values, args |-> args, noReg |-> noReg, start |-> start,
                         end |-> end, type |-> type, argNo |-> argNo]
    BY DEF LiveIntervals
  <1>2. /\ D \subseteq Values /\ IsFiniteSet(Values) /\ Values \subseteq DOMAIN Address
        /\ \A v \in D :
                /\ interval_map[v].start \in Nat /\ interval_map[v].end \in Nat
                /\ interval_map[v].start <= interval_map[v].end
                /\ v \in prog.args => interval_map[v].start = 0
    BY IntervalsAre
  <1>3. /\ \A v \in D : Address[v] \in Nat /\ v \in DOMAIN Address
        /\ \A u, v \in D : Address[u] = Address[v] => u = v
    BY <1>2, RegisterAssumption
  <1>4. IsFiniteSet(values)
    <2> DEFINE f == [v \in D |-> Address[v]]
    <2>1. f \in Surjection(D, values)
      BY DEF Surjection
    <2>2. IsFiniteSet(D)
      <3> HIDE DEF D
      <3> QED BY <1>2, FS_Subset
    <2> HIDE DEF f, D, values
    <2> QED BY <2>1, <2>2, FS_Surjection
  <1>5. \A v \in D : Address[v] \in values /\ value(Address[v]) = v
    BY <1>3
  <1>6. \A k \in values : \E v \in D : k = Address[v] /\ value(k) = v
    BY <1>5
  <1>7. \A v \in D : start[Address[v]] = interval_map[v].start /\ end[Address[v]] = interval_map[v].end
    BY <1>5
  <1>8. values \subseteq {Address[v] : v \in DOMAIN Address} /\ values \subseteq Nat
    BY <1>3
  <1>9. args \subseteq values /\ noReg \subseteq values
    OBVIOUS
  <1>10. noReg \cap args = {}
    BY <1>3
  <1>11. \A k \in args : \E v \in D : k = Address[v] /\ v \in prog.args
    OBVIOUS
  <1>12. IsFiniteSet(args) /\ args \in SUBSET Nat
    <2> HIDE DEF args, values
    <2> QED BY <1>4, <1>8, <1>9, FS_Subset
  <1>13. argNo \in [args -> Nat] /\ \A x, z \in args : argNo[x] = argNo[z] => x = z
    <2> HIDE DEF args
    <2>1. ASSUME NEW k \in args PROVE Cardinality({m \in args : m < k}) \in Nat
      <3> DEFINE R == {m \in args : m < k}
      <3>1. R \in SUBSET args
        OBVIOUS
      <3> HIDE DEF R
      <3>2. IsFiniteSet(R)
        BY <1>12, <3>1, FS_Subset
      <3>3. Cardinality(R) \in Nat
        BY <3>2, FS_CardinalityType
      <3> QED BY <3>3 DEF R
    <2>2. ASSUME NEW x \in args, NEW z \in args, argNo[x] = argNo[z] PROVE x = z
      <3>1. Cardinality({m \in args : m < x}) = Cardinality({m \in args : m < z})
        BY <2>2
      <3> HIDE DEF argNo
      <3> QED BY <1>12, <3>1, Ranks
    <2>3. argNo \in [args -> Nat]
      BY <2>1
    <2> HIDE DEF argNo
    <2> QED BY <2>2, <2>3
  <1>14. type \in [values -> {"int", "float", "ptr"}]
    OBVIOUS
  <1>15. start \in [values -> Nat] /\ end \in [values -> Nat]
    <2>1. \A k \in values : interval_map[value(k)].start \in Nat /\ interval_map[value(k)].end \in Nat
      BY <1>2, <1>6
    <2> HIDE DEF values, value
    <2> QED BY <2>1
  <1> HIDE DEF D, value, values, args, noReg, start, end, type, argNo
  <1>16. \A k \in values : start[k] <= end[k]
    BY <1>2, <1>6, <1>7
  <1>17. \A k \in args : start[k] = 0
    BY <1>2, <1>7, <1>11
  <1> DEFINE F == LiveIntervals
  <1>18. /\ F.values = values /\ F.args = args /\ F.noReg = noReg /\ F.start = start
         /\ F.end = end /\ F.type = type /\ F.argNo = argNo
    BY <1>1
  <1> HIDE DEF F
  <1>19. Scan!IsFiniteSet(values)
    BY <1>4 DEF Scan!IsFiniteSet, IsFiniteSet
  <1>20. Scan!IsFunction(F)
    BY <1>8, <1>9, <1>10, <1>13, <1>14, <1>15, <1>16, <1>17, <1>18, <1>19 DEF Scan!IsFunction
  <1> QED BY <1>7, <1>18, <1>20 DEF F, values, D

(* What holds throughout: of the analysis, of the scan, and that the scan is *)
(* of the intervals that the analysis ended with.                           *)
RegInv ==
    /\ LiveInv
    /\ conflicts = Conflicts(Live)
    /\ Scan!IInv
    /\ runs # 0 => phase = "done" /\ func = LiveIntervals

(* What depends on the function only. *)
LEMMA StateOfRun ==
  ASSUME prog' = prog
  PROVE  Live' = Live /\ Conflicts(Live)' = Conflicts(Live) /\ Values' = Values
  <1>1. Live' = Live
    BY DEF Live, Points, Blocks, SuccPoints, Entry, UsedAt, DefinedAt, PhiMap, Values
  <1>2. Conflicts(Live)' = Conflicts(Live)
    BY <1>1 DEF Conflicts, Points, Blocks
  <1> QED BY <1>1, <1>2 DEF Values

(* The scan leaves the intervals alone. *)
LEMMA IntervalsStay ==
  ASSUME UNCHANGED vars
  PROVE  LiveIntervals' = LiveIntervals
  BY DEF vars, LiveIntervals, NoRegAlloca, Users, IsBranch, Points, Phis, Blocks

(* RegInv holds initially. *)
LEMMA RegInit == RegisterInit => RegInv
  <1> SUFFICES ASSUME RegisterInit PROVE RegInv
    OBVIOUS
  <1>1. LiveInv /\ conflicts = Conflicts(Live)
    BY LiveInit DEF RegisterInit
  <1>2. Scan!IInv
    BY SameInit, ScanAssumption, Scan!InitIInv DEF RegisterInit
  <1>3. runs = 0
    BY DEF RegisterInit, RaInt!Init
  <1> QED BY <1>1, <1>2, <1>3 DEF RegInv

(* Every step of the analysis and of the scan keeps RegInv. *)
LEMMA RegNext ==
  ASSUME RegInv, [AllocationStep \/ (Allocated /\ UNCHANGED allVars)]_allVars
  PROVE  RegInv'
  <1>1. LiveInv' /\ prog' = prog
    <2>1. [Step]_vars
      BY DEF AllocationStep, Analyze, StartScan, ScanNext, allVars
    <2>2. prog' = prog
      BY <2>1 DEF Step, Traverse, MakeId, SweepStart, VisitBlock, MakeInterval, vars
    <2> QED BY <2>1, <2>2, LiveNext DEF RegInv
  <1>2. conflicts' = Conflicts(Live)'
    <2>1. conflicts' = conflicts
      BY DEF AllocationStep, Analyze, StartScan, ScanNext, allVars
    <2> QED BY <1>1, <2>1, StateOfRun DEF RegInv
  <1>3. CASE Analyze
    <2>1. runs = 0 /\ UNCHANGED scanVars
      <3>1. phase # "done"
        BY <1>3 DEF Analyze, Step, Traverse, MakeId, SweepStart, VisitBlock, MakeInterval
      <3> QED BY <1>3, <3>1 DEF Analyze, RegInv
    <2>2. Scan!IInv'
      BY <2>1 DEF RegInv, scanVars, Scan!IInv, Scan!TypeOK, Scan!ActiveInRegister, Scan!RegistersAccounted,
         Scan!UnvisitedFree, Scan!ExpiredInThePast, Scan!NoOverlap, Scan!InRegister, Scan!Overlap
    <2> QED BY <1>1, <1>2, <2>1, <2>2 DEF RegInv, scanVars
  <1>4. CASE StartScan
    <2>1. /\ phase = "done" /\ RaInt!StartScan(LiveIntervals) /\ UNCHANGED vars
      BY <1>4 DEF StartScan
    <2>2. Scan!IsFunction(LiveIntervals)
      BY <2>1, IntervalsScanned DEF RegInv
    <2>3. Scan!StartScan(LiveIntervals) /\ func' = LiveIntervals
      BY <2>1, SameStart
    <2>4. Scan!IInv'
      BY <2>2, <2>3, ScanAssumption, Scan!StartScanIInv DEF RegInv
    <2>5. phase' = "done" /\ LiveIntervals' = LiveIntervals
      BY <2>1, IntervalsStay DEF vars
    <2> QED BY <1>1, <1>2, <2>3, <2>4, <2>5 DEF RegInv
  <1>5. CASE ScanNext
    <2>1. PICK v \in todo : RaInt!Skip(v) \/ RaInt!Assign(v) \/ RaInt!LeaveInMemory(v) \/ RaInt!TakeRegister(v)
      BY <1>5 DEF ScanNext
    <2>2. Scan!IInv' /\ UNCHANGED <<func, runs>>
      <3>1. CASE RaInt!Skip(v)
        BY <3>1, SameSkip, ScanAssumption, Scan!SkipIInv DEF RegInv
      <3>2. CASE RaInt!Assign(v)
        BY <3>2, SameAssign, ScanAssumption, Scan!AssignIInv DEF RegInv
      <3>3. CASE RaInt!LeaveInMemory(v)
        BY <3>3, SameLeaveInMemory, ScanAssumption, Scan!LeaveInMemoryIInv DEF RegInv
      <3>4. CASE RaInt!TakeRegister(v)
        BY <3>4, SameTakeRegister, ScanAssumption, Scan!TakeRegisterIInv DEF RegInv
      <3> QED BY <2>1, <3>1, <3>2, <3>3, <3>4
    <2>3. UNCHANGED vars
      BY <1>5 DEF ScanNext
    <2>4. LiveIntervals' = LiveIntervals /\ phase' = phase
      BY <2>3, IntervalsStay DEF vars
    <2> QED BY <1>1, <1>2, <2>2, <2>4 DEF RegInv
  <1>6. CASE UNCHANGED allVars
    <2>1. UNCHANGED vars /\ UNCHANGED scanVars
      BY <1>6 DEF allVars
    <2>2. Scan!IInv'
      BY <2>1 DEF RegInv, scanVars, Scan!IInv, Scan!TypeOK, Scan!ActiveInRegister, Scan!RegistersAccounted,
         Scan!UnvisitedFree, Scan!ExpiredInThePast, Scan!NoOverlap, Scan!InRegister, Scan!Overlap
    <2>3. LiveIntervals' = LiveIntervals /\ phase' = phase /\ runs' = runs /\ func' = func
      BY <2>1, IntervalsStay DEF vars, scanVars
    <2> QED BY <1>1, <1>2, <2>2, <2>3 DEF RegInv
  <1> QED BY <1>3, <1>4, <1>5, <1>6 DEF AllocationStep

(* The analysis and the scan, composed. *)
THEOREM RegisterInvariance == RegisterSpec => []RegInv
  BY RegInit, RegNext, PTL DEF RegisterSpec

-----------------------------------------------------------------------------
(* What the composition promises. *)
LEMMA ConflictsAre ==
  ASSUME NEW pair \in Conflicts(Live)
  PROVE  \E l, m \in Live : l[2] = m[2] /\ pair[1] = l[1] /\ pair[2] = m[1]
  <1> DEFINE At(p) == {l[1] : l \in {k \in Live : k[2] = p}}
  <1>1. PICK p \in Points : pair \in At(p) \X At(p)
    BY DEF Conflicts
  <1>2. pair[1] \in At(p) /\ pair[2] \in At(p)
    BY <1>1
  <1> HIDE DEF At
  <1>3. (\E l \in Live : l[2] = p /\ pair[1] = l[1]) /\ (\E m \in Live : m[2] = p /\ pair[2] = m[1])
    BY <1>2 DEF At
  <1> QED BY <1>3

PlacesKept ==
    Allocated =>
        \A pair \in conflicts :
            pair[1] # pair[2] =>
                /\ pair[1] \in Values /\ pair[2] \in Values
                /\ \/ reg_map[Address[pair[1]]] = 0
                   \/ reg_map[Address[pair[1]]] # reg_map[Address[pair[2]]]

(* When the scan is over, values in conflict share no register. *)
LEMMA PlacesKeep == RegInv /\ EntryCopiesDiffer(prog) => PlacesKept
  <1> SUFFICES ASSUME RegInv, Allocated, EntryCopiesDiffer(prog), NEW pair \in conflicts, pair[1] # pair[2]
               PROVE  /\ pair[1] \in Values /\ pair[2] \in Values
                      /\ \/ reg_map[Address[pair[1]]] = 0
                         \/ reg_map[Address[pair[1]]] # reg_map[Address[pair[2]]]
    BY DEF PlacesKept
  <1>1. LiveInv /\ phase = "done" /\ func = LiveIntervals /\ Scan!NoOverlap /\ pair \in Conflicts(Live)
    BY DEF RegInv, Allocated, Scan!IInv
  <1>2. InterferenceKept
    BY <1>1, DoneInterference
  <1>3. PICK l \in Live, m \in Live : l[2] = m[2] /\ pair[1] = l[1] /\ pair[2] = m[1]
    BY <1>1, ConflictsAre
  <1> DEFINE u == pair[1]
             v == pair[2]
             D == DOMAIN interval_map
  <1>4. /\ u \in D /\ v \in D
        /\ interval_map[u].start <= interval_map[v].end
        /\ interval_map[v].start <= interval_map[u].end
    BY <1>1, <1>2, <1>3 DEF InterferenceKept
  <1>5. /\ Address[u] \in func.values /\ Address[v] \in func.values
        /\ func.start[Address[u]] = interval_map[u].start /\ func.end[Address[u]] = interval_map[u].end
        /\ func.start[Address[v]] = interval_map[v].start /\ func.end[Address[v]] = interval_map[v].end
    BY <1>1, <1>4, IntervalsScanned
  <1>6. u \in Values /\ v \in Values /\ u \in DOMAIN Address /\ v \in DOMAIN Address /\ u # v
    BY <1>1, <1>4, IntervalsAre
  <1>7. Address[u] # Address[v]
    BY <1>6, RegisterAssumption
  <1> HIDE DEF u, v
  <1>8. Scan!Overlap(func, Address[u], Address[v])
    BY <1>4, <1>5 DEF Scan!Overlap
  <1>9. reg_map[Address[u]] = 0 \/ reg_map[Address[u]] # reg_map[Address[v]]
    BY <1>1, <1>5, <1>7, <1>8 DEF Scan!NoOverlap, Scan!InRegister
  <1> QED BY <1>6, <1>9 DEF u, v

(* The step of the promise that a step of the allocation is. *)
AllocationRefined == [Promise!Allocate]_(Promise!vars)

EntriesDiffer == EntryCopiesDiffer(prog)

(* The function does not change. *)
LEMMA RegEntries ==
  ASSUME EntriesDiffer, [AllocationStep \/ (Allocated /\ UNCHANGED allVars)]_allVars
  PROVE  EntriesDiffer'
  <1>1. prog' = prog
    BY DEF AllocationStep, Analyze, StartScan, ScanNext, allVars, Step, Traverse, MakeId, SweepStart,
       VisitBlock, MakeInterval, vars
  <1> QED BY <1>1 DEF EntriesDiffer

(* The step that ends the scan is the allocation, any other a stutter. *)
LEMMA RegRefines ==
  ASSUME RegInv, PlacesKept',
         [AllocationStep \/ (Allocated /\ UNCHANGED allVars)]_allVars
  PROVE  AllocationRefined
  <1>1. conflicts' = conflicts /\ prog' = prog
    BY DEF AllocationStep, Analyze, StartScan, ScanNext, allVars, Step, Traverse, MakeId, SweepStart,
       VisitBlock, MakeInterval, vars
  <1>2. CASE Allocated
    <2>1. UNCHANGED allVars
      <3>1. phase = "done" /\ runs = 1 /\ todo = {}
        BY <1>2 DEF RegInv, Allocated
      <3>2. ~Step
        BY <3>1 DEF Step, Traverse, MakeId, SweepStart, VisitBlock, MakeInterval
      <3> QED BY <3>1, <3>2 DEF AllocationStep, Analyze, StartScan, ScanNext
    <2>2. Place' = Place
      BY <2>1 DEF Place, Allocated, Values, allVars, vars, scanVars
    <2> QED BY <1>1, <2>2 DEF AllocationRefined, Promise!vars
  <1>3. CASE ~Allocated /\ ~Allocated'
    <2>1. Place' = Place
      BY <1>3 DEF Place
    <2> QED BY <1>1, <2>1 DEF AllocationRefined, Promise!vars
  <1>4. CASE ~Allocated /\ Allocated'
    <2>1. Place = <<>>
      BY <1>4 DEF Place
    <2>2. Place' = [v \in Values' |-> reg_map'[Address[v]]]
      BY <1>4 DEF Place
    <2>3. ASSUME NEW pair \in conflicts', pair[1] # pair[2]
          PROVE  /\ pair[1] \in Values' /\ pair[2] \in Values'
                 /\ \/ reg_map'[Address[pair[1]]] = 0
                    \/ reg_map'[Address[pair[1]]] # reg_map'[Address[pair[2]]]
      BY <1>4, <2>3 DEF PlacesKept
    <2>4. ASSUME NEW pair \in conflicts', pair[1] # pair[2]
          PROVE  Place'[pair[1]] = 0 \/ Place'[pair[1]] # Place'[pair[2]]
      BY <2>2, <2>3, <2>4
    <2>5. Promise!Keeps(Place')
      BY <1>1, <2>4 DEF Promise!Keeps, Promise!Memory
    <2>6. CASE Place' = <<>>
      BY <1>1, <2>1, <2>6 DEF AllocationRefined, Promise!vars
    <2>7. CASE Place' # <<>>
      BY <1>1, <2>1, <2>5, <2>7 DEF AllocationRefined, Promise!vars, Promise!Allocate, Promise!Unknown
    <2> QED BY <2>6, <2>7
  <1> QED BY <1>2, <1>3, <1>4

(* Whatever the function and the registers, if every block with copies only  *)
(* has a first copy of its own: values that are live at a common point, by   *)
(* the definition of liveness, are not in one register when linear_scan has *)
(* ended.  This is the safety part of ImplementsAllocation.                 *)
THEOREM RefinesAllocation ==
  RegisterSpec /\ EntryCopiesDiffer(prog) => Promise!AllocationSafety
  <1>1. RegisterInit => Promise!AllocationInit
    BY DEF RegisterInit, RaInt!Init, Promise!AllocationInit, Promise!Unknown, Place, Allocated
  <1>2. EntriesDiffer /\ [AllocationStep \/ (Allocated /\ UNCHANGED allVars)]_allVars => EntriesDiffer'
    BY RegEntries
  <1>3. RegInv /\ EntriesDiffer => PlacesKept
    BY PlacesKeep DEF EntriesDiffer
  <1>4. RegInv /\ PlacesKept' /\ [AllocationStep \/ (Allocated /\ UNCHANGED allVars)]_allVars
        => [Promise!Allocate]_(Promise!vars)
    BY RegRefines DEF AllocationRefined
  <1>5. EntryCopiesDiffer(prog) => EntriesDiffer
    BY DEF EntriesDiffer
  <1> QED BY <1>1, <1>2, <1>3, <1>4, <1>5, RegisterInvariance, PTL
             DEF RegisterSpec, Promise!AllocationSafety
=============================================================================
