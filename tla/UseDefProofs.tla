---------------------------- MODULE UseDefProofs ----------------------------
(***************************************************************************)
(* For every set of values, and every length of the operand lists, the use *)
(* lists agree with the operands, and the calls do to the operands what    *)
(* OperandGraph says.                                                      *)
(***************************************************************************)
EXTENDS UseDef, SequenceTheorems, TLAPS

Operand == Values \cup {Null}

(* Operand i of u is v. *)
Names(u, i, v) == i \in DOMAIN operands[u] /\ operands[u][i] = v

(* The entries Use(u, i) of v.  Within remove_operand the operands from the *)
(* one removed up to next are renumbered: the use of operand i + 1 counts   *)
(* as that of operand i, and only the removed operand keeps its own.        *)
Count(v, u, i) ==
    IF job.op # "remove" \/ u # job.user \/ i < Head(job.calls) \/ i >= job.next
    THEN IF Names(u, i, v) THEN 1 ELSE 0
    ELSE IF i = Head(job.calls)
    THEN (IF Names(u, i, v) THEN 1 ELSE 0)
         + (IF i + 1 < job.next /\ Names(u, i + 1, v) THEN 1 ELSE 0)
    ELSE IF i + 1 < job.next /\ Names(u, i + 1, v) THEN 1 ELSE 0

Counted ==
    \A v \in Values, u \in Users, i \in 1 .. MaxOps : uses[v][<<u, i>>] = Count(v, u, i)

(* The second remove_operand of a pair is running. *)
HalfRemoved(u) == job.op = "remove" /\ u = job.user /\ Len(job.calls) = 1

(* A phi alternates values and labels; half removed, from the operand that *)
(* is to go on the other way round.                                        *)
Alternates ==
    \A u \in Phis :
        /\ Len(operands[u]) % 2 = IF HalfRemoved(u) THEN 1 ELSE 0
        /\ \A i \in DOMAIN operands[u] : operands[u][i] # Null =>
              (operands[u][i] \in Labels <=>
                 i % 2 = IF HalfRemoved(u) /\ i >= Head(job.calls) THEN 1 ELSE 0)

ReplaceInv ==
    job.op = "replace" =>
        /\ job.old \in alive /\ job.old # job.new
        /\ job.dtor => /\ job.new = Null
                       /\ job.old \in Users => DOMAIN operands[job.old] = {}
        /\ ~job.dtor => job.new \in alive /\ SameType(job.old, job.new)

ReplaceIfInv ==
    job.op = "replace_if" =>
        /\ {job.old, job.new} \subseteq alive /\ job.old # job.new
        /\ SameType(job.old, job.new)
        /\ \A s \in job.todo : Names(s[1], s[2], job.old)

RemoveInv ==
    job.op = "remove" =>
        LET i    == Head(job.calls)
            list == operands[job.user]
        IN  /\ job.user \in alive
            /\ \A j \in DOMAIN list : list[j] # Null
            /\ i \in 1 .. MaxOps /\ i % 2 = 1
            /\ \/ job.calls = <<i, i>> /\ i + 1 \in DOMAIN list
               \/ job.calls = <<i>> /\ i \in DOMAIN list
            /\ job.next \in i + 1 .. Len(list) + 1

(* A destroyed value is no operand and has none. *)
Gone ==
    \A d \in Values \ alive :
        /\ \A u \in Users : \A i \in DOMAIN operands[u] : operands[u][i] # d
        /\ d \in Users => DOMAIN operands[d] = {}

(* UsesExact is not inductive: the renumbering loop of remove_operand breaks *)
(* it and restores it only because two operands in a row are not the same.   *)
IInv ==
    /\ TypeOK
    /\ Counted
    /\ Alternates
    /\ ReplaceInv
    /\ ReplaceIfInv
    /\ RemoveInv
    /\ Gone

-----------------------------------------------------------------------------
(* Facts about sequences. *)

LEMMA RemoveAtFacts ==
  ASSUME NEW S, NEW s \in Seq(S), NEW i \in 1 .. Len(s)
  PROVE  /\ RemoveAt(s, i) \in Seq(S)
         /\ Len(RemoveAt(s, i)) = Len(s) - 1
         /\ \A j \in 1 .. Len(s) - 1 :
                RemoveAt(s, i)[j] = IF j < i THEN s[j] ELSE s[j + 1]
  <1> DEFINE n     == Len(s)
             front == SubSeq(s, 1, i - 1)
             back  == SubSeq(s, i + 1, n)
  <1>1. n \in Nat /\ i \in Nat /\ 1 <= i /\ i <= n
    BY LenProperties
  <1>2. \A j \in 1 .. n : s[j] \in S
    BY ElementOfSeq
  <1> HIDE DEF n
  <1>3. /\ front \in Seq(S) /\ Len(front) = i - 1
        /\ \A j \in 1 .. i - 1 : front[j] = s[j]
    <2>1. \A j \in 1 .. i - 1 : s[j] \in S
      BY <1>1, <1>2
    <2>2. /\ front \in Seq(S)
          /\ Len(front) = IF 1 <= i - 1 THEN i - 1 - 1 + 1 ELSE 0
          /\ \A j \in 1 .. i - 1 - 1 + 1 : front[j] = s[1 + j - 1]
      BY <1>1, <2>1, SubSeqProperties
    <2> HIDE DEF front
    <2> QED BY <1>1, <2>2
  <1>4. /\ back \in Seq(S) /\ Len(back) = n - i
        /\ \A j \in 1 .. n - i : back[j] = s[i + j]
    <2>1. \A j \in i + 1 .. n : s[j] \in S
      BY <1>1, <1>2
    <2>2. /\ back \in Seq(S)
          /\ Len(back) = IF i + 1 <= n THEN n - (i + 1) + 1 ELSE 0
          /\ \A j \in 1 .. n - (i + 1) + 1 : back[j] = s[i + 1 + j - 1]
      BY <1>1, <2>1, SubSeqProperties
    <2> HIDE DEF back
    <2> QED BY <1>1, <2>2
  <1> HIDE DEF front, back
  <1>5. /\ front \o back \in Seq(S)
        /\ Len(front \o back) = Len(front) + Len(back)
        /\ \A j \in 1 .. Len(front) + Len(back) :
              (front \o back)[j] = IF j <= Len(front) THEN front[j] ELSE back[j - Len(front)]
    BY <1>3, <1>4, ConcatProperties
  <1>6. ASSUME NEW j \in 1 .. n - 1
        PROVE  (front \o back)[j] = IF j < i THEN s[j] ELSE s[j + 1]
    <2>1. (front \o back)[j] = IF j <= i - 1 THEN front[j] ELSE back[j - (i - 1)]
      BY <1>1, <1>3, <1>4, <1>5
    <2>2. CASE j < i
      BY <1>1, <1>3, <2>1, <2>2
    <2>3. CASE ~(j < i)
      <3>1. j - (i - 1) \in 1 .. n - i /\ i + (j - (i - 1)) = j + 1
        BY <1>1, <2>3
      <3> QED BY <1>1, <1>4, <2>1, <2>3, <3>1
    <2> QED BY <2>2, <2>3
  <1>7. RemoveAt(s, i) = front \o back
    BY DEF RemoveAt, front, back, n
  <1>8. Len(front \o back) = n - 1
    BY <1>1, <1>3, <1>4, <1>5
  <1> QED BY <1>5, <1>6, <1>7, <1>8 DEF n

LEMMA ListFacts ==
  ASSUME NEW list
  PROVE  list \in OperandLists <=> list \in Seq(Operand) /\ Len(list) <= MaxOps
  <1>1. ASSUME list \in OperandLists
        PROVE  list \in Seq(Operand) /\ Len(list) <= MaxOps
    <2>1. PICK n \in 0 .. MaxOps : list \in [1 .. n -> Operand]
      BY <1>1 DEF OperandLists, Operand
    <2>2. n \in Nat /\ n <= MaxOps
      BY <2>1, UseDefAssumption
    <2> QED BY <2>1, <2>2
  <1>2. ASSUME list \in Seq(Operand), Len(list) <= MaxOps
        PROVE  list \in OperandLists
    <2>1. Len(list) \in 0 .. MaxOps /\ list \in [1 .. Len(list) -> Operand]
      BY <1>2, UseDefAssumption, LenProperties
    <2> QED BY <2>1 DEF OperandLists, Operand
  <1> QED BY <1>1, <1>2

LEMMA Lists ==
  ASSUME TypeOK, NEW u \in Users
  PROVE  /\ operands[u] \in Seq(Operand)
         /\ Len(operands[u]) \in Nat /\ Len(operands[u]) <= MaxOps
         /\ DOMAIN operands[u] = 1 .. Len(operands[u])
         /\ DOMAIN operands[u] \subseteq 1 .. MaxOps
         /\ \A i \in DOMAIN operands[u] : operands[u][i] \in Operand
  <1>1. operands[u] \in OperandLists
    BY DEF TypeOK
  <1>2. operands[u] \in Seq(Operand) /\ Len(operands[u]) <= MaxOps
    BY <1>1, ListFacts
  <1>3. /\ Len(operands[u]) \in Nat
        /\ DOMAIN operands[u] = 1 .. Len(operands[u])
    BY <1>2, LenProperties
  <1>4. \A i \in DOMAIN operands[u] : operands[u][i] \in Operand
    BY <1>2, <1>3, ElementOfSeq
  <1> QED BY <1>2, <1>3, <1>4, UseDefAssumption

LEMMA NullNotValue == Null \notin Values /\ Phis \subseteq Users /\ Users \subseteq Values
                      /\ Labels \subseteq Values
  BY UseDefAssumption DEF Values, Users

-----------------------------------------------------------------------------
(* Facts about use lists. *)

UseLists == [Values -> [Slots -> Nat]]

LEMMA AddUseFacts ==
  ASSUME NEW us \in UseLists, NEW v \in Operand, NEW s \in Slots
  PROVE  /\ AddUse(us, v, s) \in UseLists
         /\ \A w \in Values, t \in Slots :
                AddUse(us, v, s)[w][t] = IF w = v /\ t = s THEN us[w][t] + 1 ELSE us[w][t]
  BY NullNotValue DEF AddUse, UseLists, Operand

LEMMA RemoveUseFacts ==
  ASSUME NEW us \in UseLists, NEW v \in Operand, NEW s \in Slots
  PROVE  /\ RemoveUse(us, v, s) \in UseLists
         /\ \A w \in Values, t \in Slots :
                RemoveUse(us, v, s)[w][t] = IF w = v /\ t = s THEN 0 ELSE us[w][t]
  BY NullNotValue DEF RemoveUse, UseLists, Operand

(* What Counted says outside of remove_operand. *)
AllExact == \A v \in Values, u \in Users, i \in 1 .. MaxOps : Exact(v, u, i)

LEMMA CountedIsExact ==
  ASSUME job.op # "remove"
  PROVE  Counted <=> AllExact
  BY DEF Counted, Count, Names, AllExact, Exact

LEMMA UsesNat ==
  ASSUME TypeOK
  PROVE  uses \in UseLists
  BY DEF TypeOK, UseLists

(* Back from the counts to the type. *)
LEMMA UsesBounded ==
  ASSUME NEW us \in UseLists,
         \A v \in Values, u \in Users, i \in 1 .. MaxOps : us[v][<<u, i>>] \in 0 .. 2
  PROVE  us \in [Values -> [Slots -> 0 .. 2]]
  <1>1. ASSUME NEW v \in Values, NEW s \in Slots
        PROVE  us[v][s] \in 0 .. 2
    <2>1. PICK u \in Users, i \in 1 .. MaxOps : s = <<u, i>>
      BY DEF Slots
    <2> QED BY <2>1
  <1> QED BY <1>1 DEF UseLists

(* User::set_operand moves one use. *)
LEMMA SetOperandFacts ==
  ASSUME TypeOK, NEW u \in Users, NEW i \in DOMAIN operands[u], NEW v \in Operand,
         SetOperandAt(u, i, v)
  PROVE  /\ operands' \in [Users -> OperandLists]
         /\ \A w \in Users : DOMAIN operands'[w] = DOMAIN operands[w]
                             /\ Len(operands'[w]) = Len(operands[w])
         /\ \A w \in Users : \A j \in DOMAIN operands[w] :
                operands'[w][j] = IF w = u /\ j = i THEN v ELSE operands[w][j]
         /\ uses' \in UseLists
  <1>1. operands \in [Users -> OperandLists] /\ i \in 1 .. MaxOps
    BY Lists DEF TypeOK
  <1>2. operands' = [operands EXCEPT ![u][i] = v]
    BY DEF SetOperandAt
  <1>3. /\ operands' = [operands EXCEPT ![u] = [operands[u] EXCEPT ![i] = v]]
        /\ [operands[u] EXCEPT ![i] = v] \in Seq(Operand)
        /\ Len([operands[u] EXCEPT ![i] = v]) = Len(operands[u])
    <2>1. operands[u] \in Seq(Operand) /\ i \in 1 .. Len(operands[u])
      BY Lists
    <2> QED BY <1>2, <2>1, ExceptSeq
  <1>4. [operands[u] EXCEPT ![i] = v] \in OperandLists
    BY <1>3, Lists, ListFacts
  <1>5. operands' \in [Users -> OperandLists]
    BY <1>1, <1>3, <1>4
  <1>6. \A w \in Users : operands'[w] = IF w = u THEN [operands[u] EXCEPT ![i] = v]
                                        ELSE operands[w]
    BY <1>1, <1>3
  <1>7. uses' \in UseLists
    <2>1. <<u, i>> \in Slots /\ operands[u][i] \in Operand
      BY <1>1, Lists DEF Slots
    <2>2. RemoveUse(uses, operands[u][i], <<u, i>>) \in UseLists
      BY <2>1, UsesNat, RemoveUseFacts
    <2> QED BY <2>1, <2>2, AddUseFacts DEF SetOperandAt
  <1> QED BY <1>3, <1>5, <1>6, <1>7

LEMMA SetOperandExact ==
  ASSUME TypeOK, AllExact, NEW u \in Users, NEW i \in DOMAIN operands[u], NEW v \in Operand,
         SetOperandAt(u, i, v)
  PROVE  AllExact'
  <1> DEFINE old == operands[u][i]
             mid == RemoveUse(uses, old, <<u, i>>)
  <1>1. <<u, i>> \in Slots /\ old \in Operand
    BY Lists DEF Slots
  <1>2. /\ mid \in UseLists
        /\ \A w \in Values, t \in Slots :
              mid[w][t] = IF w = old /\ t = <<u, i>> THEN 0 ELSE uses[w][t]
    BY <1>1, UsesNat, RemoveUseFacts
  <1>3. uses' = AddUse(mid, v, <<u, i>>)
    BY DEF SetOperandAt
  <1> HIDE DEF mid
  <1>4. \A w \in Values, t \in Slots :
            uses'[w][t] = IF w = v /\ t = <<u, i>> THEN mid[w][t] + 1 ELSE mid[w][t]
    BY <1>1, <1>2, <1>3, AddUseFacts
  <1>5. SUFFICES ASSUME NEW w \in Values, NEW x \in Users, NEW j \in 1 .. MaxOps
                 PROVE  Exact(w, x, j)'
    BY DEF AllExact
  <1>6. <<x, j>> \in Slots /\ Exact(w, x, j) /\ Exact(w, u, i)
    BY <1>1 DEF Slots, AllExact
  <1>7. /\ DOMAIN operands'[x] = DOMAIN operands[x]
        /\ \A k \in DOMAIN operands[x] :
              operands'[x][k] = IF x = u /\ k = i THEN v ELSE operands[x][k]
    BY SetOperandFacts
  <1>8. CASE x = u /\ j = i
    BY <1>1, <1>2, <1>4, <1>6, <1>7, <1>8 DEF Exact
  <1>9. CASE ~(x = u /\ j = i)
    <2>1. <<x, j>> # <<u, i>>
      BY <1>9
    <2> QED BY <1>2, <1>4, <1>6, <1>7, <1>9, <2>1 DEF Exact
  <1> QED BY <1>8, <1>9

-----------------------------------------------------------------------------
(* The calls without a loop. *)

Edited == Alternates /\ ReplaceInv /\ ReplaceIfInv /\ RemoveInv /\ Gone

(* Nothing but the operands of one live user changes, while no loop runs. *)
LEMMA EditKeeps ==
  ASSUME TypeOK, Alternates, Gone, job = Idle, job' = job, alive' = alive,
         NEW u \in Users, u \in alive,
         \A w \in Users \ {u} : operands'[w] = operands[w],
         \A i \in DOMAIN operands'[u] : operands'[u][i] \in alive \/ operands'[u][i] = Null
                                        \/ \E j \in DOMAIN operands[u] : operands'[u][i] = operands[u][j],
         u \in Phis => /\ Len(operands'[u]) % 2 = 0
                       /\ \A i \in DOMAIN operands'[u] : operands'[u][i] # Null =>
                              (operands'[u][i] \in Labels <=> i % 2 = 0)
  PROVE  Edited'
  <1>1. job.op = "idle" /\ job'.op = "idle"
    BY DEF Idle
  <1>2. ReplaceInv' /\ ReplaceIfInv' /\ RemoveInv'
    BY <1>1 DEF ReplaceInv, ReplaceIfInv, RemoveInv
  <1>3. Alternates'
    BY <1>1, NullNotValue DEF Alternates, HalfRemoved
  <1>4. Gone'
    BY NullNotValue DEF Gone
  <1> QED BY <1>2, <1>3, <1>4 DEF Edited

(* The type, after a step that keeps the counts. *)
LEMMA CountedType ==
  ASSUME Counted', operands' \in [Users -> OperandLists], uses' \in UseLists,
         alive' \subseteq Values, job' \in Jobs
  PROVE  TypeOK'
  <1>1. ASSUME NEW v \in Values, NEW u \in Users, NEW i \in 1 .. MaxOps
        PROVE  uses'[v][<<u, i>>] \in 0 .. 2
    <2>1. Count(v, u, i)' \in 0 .. 2
      BY DEF Count
    <2> QED BY <2>1 DEF Counted
  <1>2. uses' \in [Values -> [Slots -> 0 .. 2]]
    BY <1>1, UsesBounded
  <1> QED BY <1>2 DEF TypeOK

LEMMA ExactIsCounted ==
  ASSUME job'.op # "remove", AllExact'
  PROVE  Counted'
  <1>1. SUFFICES ASSUME NEW v \in Values, NEW u \in Users, NEW i \in 1 .. MaxOps
                 PROVE  uses'[v][<<u, i>>] = Count(v, u, i)'
    BY DEF Counted
  <1>2. Count(v, u, i)' = IF Names(u, i, v)' THEN 1 ELSE 0
    BY DEF Count
  <1>3. Exact(v, u, i)'
    BY DEF AllExact
  <1> QED BY <1>2, <1>3 DEF Names, Exact

LEMMA ToIInv ==
  ASSUME job'.op # "remove", AllExact', Edited',
         operands' \in [Users -> OperandLists], uses' \in UseLists,
         alive' \subseteq Values, job' \in Jobs
  PROVE  IInv'
  BY ExactIsCounted, CountedType DEF IInv, Edited

ExactIn(lists, us) ==
    \A v \in Values, u \in Users, i \in 1 .. MaxOps :
        us[v][<<u, i>>] = IF i \in DOMAIN lists[u] /\ lists[u][i] = v THEN 1 ELSE 0

LEMMA AppendExact ==
  ASSUME NEW lists \in [Users -> OperandLists], NEW us \in UseLists, ExactIn(lists, us),
         NEW u \in Users, NEW v \in Operand, Len(lists[u]) < MaxOps
  PROVE  /\ [lists EXCEPT ![u] = Append(@, v)] \in [Users -> OperandLists]
         /\ AddUse(us, v, <<u, Len(lists[u]) + 1>>) \in UseLists
         /\ ExactIn([lists EXCEPT ![u] = Append(@, v)],
                    AddUse(us, v, <<u, Len(lists[u]) + 1>>))
  <1> DEFINE n    == Len(lists[u])
             list == Append(lists[u], v)
             us2  == AddUse(us, v, <<u, n + 1>>)
  <1>1. lists[u] \in Seq(Operand) /\ n \in Nat /\ DOMAIN lists[u] = 1 .. n
    BY ListFacts, LenProperties
  <1>2. n + 1 \in 1 .. MaxOps /\ <<u, n + 1>> \in Slots
    BY <1>1, UseDefAssumption DEF Slots
  <1>3. /\ list \in Seq(Operand) /\ Len(list) = n + 1 /\ DOMAIN list = 1 .. n + 1
        /\ \A i \in 1 .. n : list[i] = lists[u][i]
        /\ list[n + 1] = v
    BY <1>1, AppendProperties, LenProperties
  <1>4. /\ us2 \in UseLists
        /\ \A w \in Values, t \in Slots :
              us2[w][t] = IF w = v /\ t = <<u, n + 1>> THEN us[w][t] + 1 ELSE us[w][t]
    BY <1>2, AddUseFacts
  <1> HIDE DEF n, list, us2
  <1>5. list \in OperandLists
    BY <1>2, <1>3, ListFacts
  <1>6. /\ [lists EXCEPT ![u] = list] \in [Users -> OperandLists]
        /\ \A x \in Users : [lists EXCEPT ![u] = list][x] = IF x = u THEN list ELSE lists[x]
    BY <1>5
  <1>7. ASSUME NEW w \in Values, NEW x \in Users, NEW i \in 1 .. MaxOps
        PROVE  us2[w][<<x, i>>] = IF /\ i \in DOMAIN [lists EXCEPT ![u] = list][x]
                                     /\ [lists EXCEPT ![u] = list][x][i] = w THEN 1 ELSE 0
    <2>1. <<x, i>> \in Slots
      BY DEF Slots
    <2>2. us[w][<<x, i>>] = IF i \in DOMAIN lists[x] /\ lists[x][i] = w THEN 1 ELSE 0
      BY DEF ExactIn
    <2>3. CASE x # u
      BY <1>4, <1>6, <2>1, <2>2, <2>3
    <2>4. CASE x = u /\ i # n + 1
      <3>1. us2[w][<<x, i>>] = us[w][<<x, i>>]
        BY <1>4, <2>1, <2>4
      <3>2. i \in 1 .. n + 1 <=> i \in 1 .. n
        BY <1>1, <2>4
      <3> QED BY <1>1, <1>3, <1>6, <2>2, <2>4, <3>1, <3>2
    <2>5. CASE x = u /\ i = n + 1
      <3>1. us[w][<<x, i>>] = 0
        BY <1>1, <2>2, <2>5
      <3>2. us2[w][<<x, i>>] = IF w = v THEN 1 ELSE 0
        BY <1>4, <2>1, <2>5, <3>1
      <3>3. i \in DOMAIN list /\ list[i] = v
        BY <1>1, <1>3, <2>5
      <3> QED BY <1>6, <2>5, <3>2, <3>3
    <2> QED BY <2>3, <2>4, <2>5
  <1> QED BY <1>4, <1>6, <1>7 DEF ExactIn, n, list, us2

LEMMA AddOperandKeeps ==
  ASSUME IInv, NEW u \in Insts, NEW v \in Values, AddOperand(u, v)
  PROVE  IInv'
  <1>1. /\ job = Idle /\ job' = job /\ alive' = alive /\ u \in alive /\ v \in alive
        /\ u \in Users /\ u \notin Phis /\ v \in Operand
        /\ operands' = [operands EXCEPT ![u] = Append(@, v)]
        /\ uses' = AddUse(uses, v, <<u, Len(operands[u]) + 1>>)
        /\ operands \in [Users -> OperandLists]
    BY UseDefAssumption DEF AddOperand, IsIdle, Users, Operand, IInv, TypeOK
  <1>2. Len(operands[u]) < MaxOps
    BY <1>1, Lists, UseDefAssumption DEF AddOperand, IInv
  <1>3. ExactIn(operands, uses)
    BY <1>1, CountedIsExact DEF IInv, Idle, AllExact, Exact, ExactIn
  <1>4. operands' \in [Users -> OperandLists] /\ uses' \in UseLists /\ ExactIn(operands', uses')
    BY <1>1, <1>2, <1>3, AppendExact, UsesNat DEF IInv
  <1>5. Edited'
    <2>1. \A w \in Users \ {u} : operands'[w] = operands[w]
      BY <1>1
    <2>2. operands'[u] = Append(operands[u], v)
      BY <1>1
    <2>3. \A i \in DOMAIN operands'[u] : operands'[u][i] = v
                                         \/ \E j \in DOMAIN operands[u] : operands'[u][i] = operands[u][j]
      <3>1. operands[u] \in Seq(Operand)
        BY <1>1, Lists DEF IInv
      <3> QED BY <1>1, <2>2, <3>1, AppendProperties, LenProperties
    <2> QED BY <1>1, <2>1, <2>3, EditKeeps DEF IInv
  <1> QED BY <1>1, <1>4, <1>5, ToIInv DEF IInv, TypeOK, Idle, ExactIn, AllExact, Exact

LEMMA AddPhiPairKeeps ==
  ASSUME IInv, NEW u \in Phis, NEW v \in Values \ Labels, NEW b \in Labels,
         AddPhiPair(u, v, b)
  PROVE  IInv'
  <1> DEFINE n     == Len(operands[u])
             lists == [operands EXCEPT ![u] = Append(@, v)]
             us    == AddUse(uses, v, <<u, n + 1>>)
             list  == operands[u] \o <<v, b>>
  <1>1. /\ job = Idle /\ job' = job /\ alive' = alive /\ {u, v, b} \subseteq alive
        /\ u \in Users /\ v \in Operand /\ b \in Operand /\ v # Null /\ b # Null
        /\ n + 1 < MaxOps
        /\ operands' = [operands EXCEPT ![u] = list]
        /\ uses' = AddUse(us, b, <<u, n + 2>>)
        /\ operands \in [Users -> OperandLists]
    BY NullNotValue DEF AddPhiPair, IsIdle, Operand, IInv, TypeOK
  <1>2. operands[u] \in Seq(Operand) /\ n \in Nat /\ DOMAIN operands[u] = 1 .. n
    BY <1>1, Lists DEF IInv
  <1>3. /\ <<v, b>> \in Seq(Operand) /\ Len(<<v, b>>) = 2
        /\ <<v, b>>[1] = v /\ <<v, b>>[2] = b
    BY <1>1
  <1>4. /\ list \in Seq(Operand) /\ Len(list) = n + 2 /\ DOMAIN list = 1 .. n + 2
        /\ \A i \in 1 .. n : list[i] = operands[u][i]
        /\ list[n + 1] = v /\ list[n + 2] = b
    <2>1. /\ list \in Seq(Operand) /\ Len(list) = n + 2
          /\ \A i \in 1 .. n + 2 :
                list[i] = IF i <= n THEN operands[u][i] ELSE <<v, b>>[i - n]
      BY <1>2, <1>3, ConcatProperties
    <2>2. n + 1 - n = 1 /\ n + 2 - n = 2 /\ ~(n + 1 <= n) /\ ~(n + 2 <= n)
      BY <1>2
    <2>3. DOMAIN list = 1 .. n + 2
      BY <2>1, LenProperties
    <2> HIDE DEF n, list
    <2>4. list[n + 1] = v /\ list[n + 2] = b
      BY <1>2, <1>3, <2>1, <2>2
    <2> QED BY <1>2, <2>1, <2>3, <2>4
  <1>5. ExactIn(operands, uses) /\ n < MaxOps
    <2>1. n < MaxOps
      BY <1>1, <1>2, UseDefAssumption
    <2> QED BY <1>1, <2>1, CountedIsExact DEF IInv, Idle, AllExact, Exact, ExactIn
  <1>6. lists \in [Users -> OperandLists] /\ us \in UseLists /\ ExactIn(lists, us)
    BY <1>1, <1>5, AppendExact, UsesNat DEF IInv
  <1>7. /\ lists[u] = Append(operands[u], v)
        /\ Append(operands[u], v) \in Seq(Operand)
        /\ Len(Append(operands[u], v)) = n + 1
        /\ \A i \in 1 .. n : Append(operands[u], v)[i] = operands[u][i]
        /\ Append(operands[u], v)[n + 1] = v
    BY <1>1, <1>2, AppendProperties
  <1>8. Append(lists[u], b) = list
    <2> DEFINE l2 == Append(operands[u], v)
               l3 == Append(l2, b)
    <2>1. /\ l3 \in Seq(Operand) /\ Len(l3) = n + 1 + 1
          /\ \A i \in 1 .. n + 1 : l3[i] = l2[i]
          /\ l3[n + 1 + 1] = b
      BY <1>1, <1>7, AppendProperties
    <2> HIDE DEF l2, l3, list, n
    <2>2. ASSUME NEW i \in 1 .. n + 2 PROVE l3[i] = list[i]
      <3>1. i \in 1 .. n \/ i = n + 1 \/ i = n + 2
        BY <1>2
      <3>2. CASE i \in 1 .. n
        BY <1>2, <1>4, <1>7, <2>1, <3>2 DEF l2
      <3>3. CASE i = n + 1
        BY <1>2, <1>4, <1>7, <2>1, <3>3 DEF l2
      <3>4. CASE i = n + 2
        BY <1>2, <1>4, <2>1, <3>4
      <3> QED BY <3>1, <3>2, <3>3, <3>4
    <2>3. Len(l3) = Len(list)
      BY <1>2, <1>4, <2>1
    <2>4. l3 = list
      BY <1>2, <1>4, <2>1, <2>2, <2>3, SeqEqual
    <2> QED BY <1>7, <2>4 DEF l2, l3
  <1> HIDE DEF n, list, lists, us
  <1>9. operands' = [lists EXCEPT ![u] = Append(@, b)]
    BY <1>1, <1>8 DEF lists
  <1>10. uses' = AddUse(us, b, <<u, Len(lists[u]) + 1>>)
    <2>1. Len(lists[u]) + 1 = n + 2
      BY <1>2, <1>7
    <2> QED BY <1>1, <2>1
  <1>11. operands' \in [Users -> OperandLists] /\ uses' \in UseLists /\ ExactIn(operands', uses')
    <2>1. Len(lists[u]) < MaxOps
      BY <1>1, <1>7
    <2>2. /\ [lists EXCEPT ![u] = Append(@, b)] \in [Users -> OperandLists]
          /\ AddUse(us, b, <<u, Len(lists[u]) + 1>>) \in UseLists
          /\ ExactIn([lists EXCEPT ![u] = Append(@, b)],
                     AddUse(us, b, <<u, Len(lists[u]) + 1>>))
      <3> HIDE <1>9, <1>10
      <3>1. u \in Users /\ b \in Operand
        BY <1>1
      <3> QED BY <1>6, <2>1, <3>1, AppendExact
    <2> QED BY <1>9, <1>10, <2>2
  <1>12. Edited'
    <2>1. /\ \A w \in Users \ {u} : operands'[w] = operands[w]
          /\ operands'[u] = list
      BY <1>1
    <2>2. \A i \in 1 .. n + 2 : i \in 1 .. n \/ i = n + 1 \/ i = n + 2
      BY <1>2
    <2>3. \A i \in DOMAIN operands'[u] : \/ operands'[u][i] \in {v, b}
                                         \/ \E j \in DOMAIN operands[u] : operands'[u][i] = operands[u][j]
      BY <1>2, <1>4, <2>1, <2>2
    <2>4. /\ n % 2 = 0
          /\ \A i \in 1 .. n : operands[u][i] # Null => (operands[u][i] \in Labels <=> i % 2 = 0)
      BY <1>1, <1>2 DEF IInv, Alternates, HalfRemoved, Idle, n
    <2>5. (n + 2) % 2 = 0 /\ (n + 1) % 2 # 0
      BY <1>2, <2>4
    <2>6. \A i \in DOMAIN operands'[u] : operands'[u][i] # Null =>
              (operands'[u][i] \in Labels <=> i % 2 = 0)
      BY <1>4, <2>1, <2>2, <2>4, <2>5
    <2>7. Len(operands'[u]) % 2 = 0
      BY <1>4, <2>1, <2>5
    <2> QED BY <1>1, <2>1, <2>3, <2>6, <2>7, EditKeeps DEF IInv
  <1> QED BY <1>1, <1>11, <1>12, ToIInv DEF IInv, TypeOK, Idle, ExactIn, AllExact, Exact

LEMMA SetOperandKeeps ==
  ASSUME IInv, NEW u \in Users, NEW i \in 1 .. MaxOps, NEW v \in Values, SetOperand(u, i, v)
  PROVE  IInv'
  <1>1. /\ job = Idle /\ job' = job /\ alive' = alive /\ {u, v} \subseteq alive
        /\ i \in DOMAIN operands[u] /\ SetOperandAt(u, i, v) /\ v \in Operand
        /\ u \in Phis => (v \in Labels <=> i % 2 = 0)
    BY DEF SetOperand, IsIdle, Fits, Operand
  <1>2. AllExact'
    BY <1>1, CountedIsExact, SetOperandExact DEF IInv, Idle
  <1>3. /\ operands' \in [Users -> OperandLists]
        /\ \A w \in Users : DOMAIN operands'[w] = DOMAIN operands[w]
                            /\ Len(operands'[w]) = Len(operands[w])
        /\ \A w \in Users : \A j \in DOMAIN operands[w] :
                operands'[w][j] = IF w = u /\ j = i THEN v ELSE operands[w][j]
        /\ uses' \in UseLists
    BY <1>1, SetOperandFacts DEF IInv
  <1>4. \A w \in Users \ {u} : operands'[w] = operands[w]
    BY <1>1 DEF SetOperandAt, IInv, TypeOK
  <1>5. Edited'
    <2>1. u \in Phis => /\ Len(operands[u]) % 2 = 0
                        /\ \A j \in DOMAIN operands[u] : operands[u][j] # Null =>
                              (operands[u][j] \in Labels <=> j % 2 = 0)
      BY <1>1 DEF IInv, Alternates, HalfRemoved, Idle
    <2>2. u \in Phis => /\ Len(operands'[u]) % 2 = 0
                        /\ \A j \in DOMAIN operands'[u] : operands'[u][j] # Null =>
                              (operands'[u][j] \in Labels <=> j % 2 = 0)
      BY <1>1, <1>3, <2>1
    <2> QED BY <1>1, <1>3, <1>4, <2>2, EditKeeps DEF IInv
  <1> QED BY <1>1, <1>2, <1>3, <1>5, ToIInv DEF IInv, TypeOK, Idle

(* remove_all_operands releases every use of u. *)
LEMMA ReleasedFacts ==
  ASSUME TypeOK, AllExact, NEW u \in Users
  PROVE  /\ Released(u) \in UseLists
         /\ [operands EXCEPT ![u] = <<>>] \in [Users -> OperandLists]
         /\ ExactIn([operands EXCEPT ![u] = <<>>], Released(u))
  <1>1. Released(u) \in UseLists
    BY UsesNat DEF Released, UseLists
  <1>2. <<>> \in OperandLists
    <2>1. <<>> \in Seq(Operand) /\ Len(<<>>) = 0 /\ 0 <= MaxOps
      BY UseDefAssumption
    <2> QED BY <2>1, ListFacts
  <1>3. /\ [operands EXCEPT ![u] = <<>>] \in [Users -> OperandLists]
        /\ \A x \in Users : [operands EXCEPT ![u] = <<>>][x] = IF x = u THEN <<>> ELSE operands[x]
    BY <1>2 DEF TypeOK
  <1>4. ASSUME NEW v \in Values, NEW x \in Users, NEW i \in 1 .. MaxOps
        PROVE  Released(u)[v][<<x, i>>] = IF /\ i \in DOMAIN [operands EXCEPT ![u] = <<>>][x]
                                             /\ [operands EXCEPT ![u] = <<>>][x][i] = v
                                          THEN 1 ELSE 0
    <2>1. <<x, i>> \in Slots /\ <<x, i>>[1] = x /\ <<x, i>>[2] = i
      BY DEF Slots
    <2>2. Released(u)[v][<<x, i>>] =
              IF x = u /\ i \in DOMAIN operands[u] /\ operands[u][i] = v THEN 0
              ELSE uses[v][<<x, i>>]
      BY <2>1 DEF Released
    <2>3. uses[v][<<x, i>>] = IF i \in DOMAIN operands[x] /\ operands[x][i] = v THEN 1 ELSE 0
      BY DEF AllExact, Exact
    <2>4. DOMAIN <<>> = {}
      OBVIOUS
    <2>5. CASE x = u
      BY <1>3, <2>2, <2>3, <2>4, <2>5
    <2>6. CASE x # u
      BY <1>3, <2>2, <2>3, <2>6
    <2> QED BY <2>5, <2>6
  <1> QED BY <1>1, <1>3, <1>4 DEF ExactIn

LEMMA RemoveAllOperandsKeeps ==
  ASSUME IInv, NEW u \in Users, RemoveAllOperands(u)
  PROVE  IInv'
  <1>1. /\ job = Idle /\ job' = job /\ alive' = alive /\ u \in alive
        /\ operands' = [operands EXCEPT ![u] = <<>>] /\ uses' = Released(u)
    BY DEF RemoveAllOperands, IsIdle
  <1>2. /\ operands' \in [Users -> OperandLists] /\ uses' \in UseLists
        /\ ExactIn(operands', uses')
    BY <1>1, CountedIsExact, ReleasedFacts DEF IInv, Idle
  <1>3. Edited'
    <2>1. /\ \A w \in Users \ {u} : operands'[w] = operands[w]
          /\ operands'[u] = <<>>
      BY <1>1 DEF IInv, TypeOK
    <2>2. DOMAIN operands'[u] = {} /\ Len(operands'[u]) = 0
      BY <2>1
    <2>3. Len(operands'[u]) % 2 = 0
      BY <2>2
    <2> QED BY <1>1, <2>1, <2>2, <2>3, EditKeeps DEF IInv
  <1> QED BY <1>1, <1>2, <1>3, ToIInv DEF IInv, TypeOK, Idle, ExactIn, AllExact, Exact

-----------------------------------------------------------------------------
(* The calls that start a loop, and the replacement loops. *)

LEMMA IdleExact ==
  ASSUME IInv, IsIdle
  PROVE  AllExact /\ ExactIn(operands, uses)
  BY CountedIsExact DEF IInv, IsIdle, Idle, AllExact, Exact, ExactIn

(* No phi is half removed, before and after. *)
LEMMA WholeKeeps ==
  ASSUME Alternates, UNCHANGED operands, \A u : ~HalfRemoved(u), \A u : ~HalfRemoved(u)'
  PROVE  Alternates'
  BY DEF Alternates

LEMMA ReplaceAllUseWithKeeps ==
  ASSUME IInv, NEW old \in Values, NEW new \in Values, ReplaceAllUseWith(old, new)
  PROVE  IInv'
  <1>1. /\ IsIdle /\ old \in alive /\ new \in alive /\ SameType(old, new) /\ old # new
        /\ job' = [op |-> "replace", old |-> old, new |-> new, dtor |-> FALSE]
        /\ operands' = operands /\ uses' = uses /\ alive' = alive
    BY DEF ReplaceAllUseWith
  <1>2. /\ job.op = "idle" /\ job'.op = "replace" /\ job'.old = old /\ job'.new = new
        /\ job'.dtor = FALSE /\ job' \in Jobs
    BY <1>1 DEF IsIdle, Idle, Jobs
  <1>3. AllExact /\ AllExact'
    <2>1. AllExact
      BY <1>1, IdleExact
    <2> QED BY <1>1, <2>1 DEF AllExact, Exact
  <1>4. Edited'
    <2>1. ReplaceInv'
      BY <1>1, <1>2 DEF ReplaceInv, SameType
    <2>2. ReplaceIfInv' /\ RemoveInv'
      BY <1>2 DEF ReplaceIfInv, RemoveInv
    <2>3. Alternates'
      BY <1>1, <1>2, WholeKeeps DEF IInv, HalfRemoved
    <2>4. Gone'
      BY <1>1 DEF IInv, Gone
    <2> QED BY <2>1, <2>2, <2>3, <2>4 DEF Edited
  <1> QED BY <1>1, <1>2, <1>3, <1>4, ToIInv, UsesNat DEF IInv, TypeOK

LEMMA ReplaceUseWithIfKeeps ==
  ASSUME IInv, NEW old \in Values, NEW new \in Values,
         NEW S \in SUBSET {s \in Slots : uses[old][s] > 0}, ReplaceUseWithIf(old, new, S)
  PROVE  IInv'
  <1>1. /\ IsIdle /\ old \in alive /\ new \in alive /\ SameType(old, new) /\ old # new
        /\ job' = [op |-> "replace_if", old |-> old, new |-> new, todo |-> S]
        /\ operands' = operands /\ uses' = uses /\ alive' = alive
    BY DEF ReplaceUseWithIf
  <1>2. /\ job.op = "idle" /\ job'.op = "replace_if" /\ job'.old = old /\ job'.new = new
        /\ job'.todo = S /\ job' \in Jobs
    BY <1>1 DEF IsIdle, Idle, Jobs
  <1>3. AllExact /\ AllExact'
    BY <1>1, IdleExact DEF AllExact, Exact
  <1>4. \A s \in S : Names(s[1], s[2], old)
    <2>1. SUFFICES ASSUME NEW u \in Users, NEW i \in 1 .. MaxOps, uses[old][<<u, i>>] > 0
                   PROVE  Names(u, i, old)
      BY DEF Slots
    <2>2. Exact(old, u, i)
      BY <1>3 DEF AllExact
    <2> QED BY <2>1, <2>2 DEF Exact, Names
  <1>5. Edited'
    <2>1. ReplaceIfInv'
      BY <1>1, <1>2, <1>4 DEF ReplaceIfInv, SameType, Names
    <2>2. ReplaceInv' /\ RemoveInv'
      BY <1>2 DEF ReplaceInv, RemoveInv
    <2>3. Alternates'
      BY <1>1, <1>2, WholeKeeps DEF IInv, HalfRemoved
    <2>4. Gone'
      BY <1>1 DEF IInv, Gone
    <2> QED BY <2>1, <2>2, <2>3, <2>4 DEF Edited
  <1> QED BY <1>1, <1>2, <1>3, <1>5, ToIInv, UsesNat DEF IInv, TypeOK

LEMMA DestroyKeeps ==
  ASSUME IInv, NEW v \in Values, Destroy(v)
  PROVE  IInv'
  <1>1. /\ IsIdle /\ v \in alive /\ alive' = alive
        /\ job' = [op |-> "replace", old |-> v, new |-> Null, dtor |-> TRUE]
        /\ operands' = IF v \in Users THEN [operands EXCEPT ![v] = <<>>] ELSE operands
        /\ uses' = IF v \in Users THEN Released(v) ELSE uses
    BY DEF Destroy
  <1>2. /\ job.op = "idle" /\ job'.op = "replace" /\ job'.old = v /\ job'.new = Null
        /\ job'.dtor = TRUE /\ job' \in Jobs
    BY <1>1 DEF IsIdle, Idle, Jobs
  <1>3. /\ operands' \in [Users -> OperandLists] /\ uses' \in UseLists
        /\ ExactIn(operands', uses')
    BY <1>1, IdleExact, ReleasedFacts, UsesNat DEF IInv, TypeOK
  <1>4. \A w \in Users : operands'[w] = IF w = v THEN <<>> ELSE operands[w]
    BY <1>1 DEF IInv, TypeOK
  <1>5. DOMAIN <<>> = {} /\ Len(<<>>) % 2 = 0
    OBVIOUS
  <1>6. Edited'
    <2>1. ReplaceInv'
      BY <1>1, <1>2, <1>4, <1>5, NullNotValue DEF ReplaceInv
    <2>2. ReplaceIfInv' /\ RemoveInv'
      BY <1>2 DEF ReplaceIfInv, RemoveInv
    <2>3. Alternates'
      BY <1>2, <1>4, <1>5, NullNotValue DEF IInv, Alternates, HalfRemoved
    <2>4. Gone'
      BY <1>1, <1>4, <1>5, NullNotValue DEF IInv, Gone
    <2> QED BY <2>1, <2>2, <2>3, <2>4 DEF Edited
  <1> QED BY <1>1, <1>2, <1>3, <1>6, ToIInv DEF IInv, TypeOK, ExactIn, AllExact, Exact

(* One iteration of a replacement loop, on an operand that is old. *)
LEMMA ReplaceFacts ==
  ASSUME IInv, job.op \in {"replace", "replace_if"}, job'.op # "remove", alive' = alive,
         NEW u \in Users, NEW i \in 1 .. MaxOps, Names(u, i, job.old),
         SetOperandAt(u, i, job.new)
  PROVE  /\ AllExact' /\ Alternates' /\ Gone'
         /\ operands' \in [Users -> OperandLists] /\ uses' \in UseLists
         /\ \A w \in Users : DOMAIN operands'[w] = DOMAIN operands[w]
         /\ \A w \in Users : \A j \in DOMAIN operands[w] :
                operands'[w][j] = IF w = u /\ j = i THEN job.new ELSE operands[w][j]
  <1>1. /\ i \in DOMAIN operands[u] /\ operands[u][i] = job.old /\ job.old \in Values
        /\ job.new \in Operand
    BY DEF Names, IInv, TypeOK, Jobs, Operand, Idle
  <1>2. job.new = Null \/ (job.new \in alive /\ SameType(job.old, job.new))
    BY DEF IInv, ReplaceInv, ReplaceIfInv
  <1>3. AllExact'
    BY <1>1, CountedIsExact, SetOperandExact DEF IInv
  <1>4. /\ operands' \in [Users -> OperandLists]
        /\ \A w \in Users : DOMAIN operands'[w] = DOMAIN operands[w]
                            /\ Len(operands'[w]) = Len(operands[w])
        /\ \A w \in Users : \A j \in DOMAIN operands[w] :
                operands'[w][j] = IF w = u /\ j = i THEN job.new ELSE operands[w][j]
        /\ uses' \in UseLists
    BY <1>1, SetOperandFacts DEF IInv
  <1>5. Alternates'
    <2>1. \A w \in Phis : Len(operands[w]) % 2 = 0
                          /\ \A j \in DOMAIN operands[w] : operands[w][j] # Null =>
                                (operands[w][j] \in Labels <=> j % 2 = 0)
      BY DEF IInv, Alternates, HalfRemoved
    <2>2. job.new # Null => (job.new \in Labels <=> job.old \in Labels) /\ job.old # Null
      BY <1>1, <1>2, NullNotValue DEF SameType
    <2>3. SUFFICES ASSUME NEW w \in Phis
                   PROVE  Len(operands'[w]) % 2 = 0
                          /\ \A j \in DOMAIN operands'[w] : operands'[w][j] # Null =>
                                (operands'[w][j] \in Labels <=> j % 2 = 0)
      BY DEF Alternates, HalfRemoved
    <2>4. w \in Users /\ Len(operands'[w]) = Len(operands[w])
          /\ DOMAIN operands'[w] = DOMAIN operands[w]
      BY <1>4, NullNotValue
    <2>5. ASSUME NEW j \in DOMAIN operands[w], operands'[w][j] # Null
          PROVE  operands'[w][j] \in Labels <=> j % 2 = 0
      <3>1. operands'[w][j] = IF w = u /\ j = i THEN job.new ELSE operands[w][j]
        BY <1>4, <2>4
      <3> QED BY <1>1, <2>1, <2>2, <2>5, <3>1
    <2> QED BY <2>1, <2>4, <2>5
  <1>6. Gone'
    BY <1>2, <1>4, NullNotValue DEF IInv, Gone
  <1> QED BY <1>3, <1>4, <1>5, <1>6

LEMMA ReplaceOneKeeps ==
  ASSUME IInv, NEW s \in Slots, ReplaceOne(s)
  PROVE  IInv'
  <1>1. PICK u \in Users, i \in 1 .. MaxOps : s = <<u, i>>
    BY DEF Slots
  <1>2. /\ job.op = "replace" /\ uses[job.old][<<u, i>>] > 0
        /\ SetOperandAt(u, i, job.new) /\ job' = job /\ alive' = alive
    BY <1>1 DEF ReplaceOne
  <1>3. Names(u, i, job.old)
    <2>1. Exact(job.old, u, i)
      BY <1>2, CountedIsExact DEF IInv, AllExact, TypeOK, Jobs, Idle
    <2> QED BY <1>2, <2>1 DEF Exact, Names
  <1>4. /\ AllExact' /\ Alternates' /\ Gone'
        /\ operands' \in [Users -> OperandLists] /\ uses' \in UseLists
        /\ \A w \in Users : DOMAIN operands'[w] = DOMAIN operands[w]
    BY <1>2, <1>3, ReplaceFacts
  <1>5. ReplaceInv' /\ ReplaceIfInv' /\ RemoveInv'
    BY <1>2, <1>4 DEF IInv, ReplaceInv, ReplaceIfInv, RemoveInv
  <1> QED BY <1>2, <1>4, <1>5, ToIInv DEF Edited, IInv, TypeOK

LEMMA ReplaceIfOneKeeps ==
  ASSUME IInv, NEW s \in Slots, ReplaceIfOne(s)
  PROVE  IInv'
  <1>1. PICK u \in Users, i \in 1 .. MaxOps : s = <<u, i>>
    BY DEF Slots
  <1>2. /\ job.op = "replace_if" /\ s \in job.todo
        /\ SetOperandAt(u, i, job.new) /\ alive' = alive
        /\ job' = [job EXCEPT !.todo = @ \ {s}]
    BY <1>1 DEF ReplaceIfOne
  <1>3. Names(u, i, job.old)
    BY <1>1, <1>2 DEF IInv, ReplaceIfInv
  <1>4. /\ job \in [op : {"replace_if"}, old : Values, new : Values, todo : SUBSET Slots]
        /\ job'.op = "replace_if" /\ job'.old = job.old /\ job'.new = job.new
        /\ job'.todo = job.todo \ {s} /\ job' \in Jobs
    <2>1. job \in [op : {"replace_if"}, old : Values, new : Values, todo : SUBSET Slots]
      BY <1>2 DEF IInv, TypeOK, Jobs, Idle
    <2> QED BY <1>2, <2>1 DEF Jobs
  <1>5. /\ AllExact' /\ Alternates' /\ Gone'
        /\ operands' \in [Users -> OperandLists] /\ uses' \in UseLists
        /\ \A w \in Users : DOMAIN operands'[w] = DOMAIN operands[w]
        /\ \A w \in Users : \A j \in DOMAIN operands[w] :
                operands'[w][j] = IF w = u /\ j = i THEN job.new ELSE operands[w][j]
    BY <1>2, <1>3, <1>4, ReplaceFacts
  <1>6. \A t \in job'.todo : Names(t[1], t[2], job.old)'
    <2>1. SUFFICES ASSUME NEW w \in Users, NEW j \in 1 .. MaxOps, <<w, j>> \in job.todo,
                          <<w, j>> # <<u, i>>
                   PROVE  j \in DOMAIN operands'[w] /\ operands'[w][j] = job.old
      <3>1. \A t \in job.todo : \E w \in Users, j \in 1 .. MaxOps : t = <<w, j>>
        BY <1>4 DEF Slots
      <3> QED BY <1>1, <1>4, <3>1 DEF Names
    <2>2. Names(w, j, job.old)
      BY <1>2, <2>1 DEF IInv, ReplaceIfInv
    <2> QED BY <1>5, <2>1, <2>2 DEF Names
  <1>7. ReplaceIfInv'
    BY <1>2, <1>4, <1>6 DEF IInv, ReplaceIfInv, SameType, Names
  <1>8. ReplaceInv' /\ RemoveInv'
    BY <1>4 DEF ReplaceInv, RemoveInv
  <1> QED BY <1>2, <1>4, <1>5, <1>7, <1>8, ToIInv DEF Edited, IInv, TypeOK

(* The list of old is empty: no operand is old any more. *)
LEMMA ReplaceEndKeeps ==
  ASSUME IInv, ReplaceEnd
  PROVE  IInv'
  <1>1. /\ job.op = "replace" /\ \A s \in Slots : uses[job.old][s] = 0
        /\ alive' = IF job.dtor THEN alive \ {job.old} ELSE alive
        /\ job' = Idle /\ operands' = operands /\ uses' = uses
    BY DEF ReplaceEnd
  <1>2. job'.op = "idle" /\ job' \in Jobs /\ job.old \in Values
    BY <1>1 DEF Idle, Jobs, IInv, TypeOK
  <1>3. AllExact /\ AllExact'
    BY <1>1, CountedIsExact DEF IInv, AllExact, Exact
  <1>4. \A u \in Users : \A i \in DOMAIN operands[u] : operands[u][i] # job.old
    <2>1. SUFFICES ASSUME NEW u \in Users, NEW i \in DOMAIN operands[u]
                   PROVE  operands[u][i] # job.old
      OBVIOUS
    <2>2. i \in 1 .. MaxOps
      BY Lists DEF IInv
    <2>3. <<u, i>> \in Slots
      BY <2>2 DEF Slots
    <2>4. Exact(job.old, u, i)
      BY <1>2, <1>3, <2>2 DEF AllExact
    <2> QED BY <1>1, <2>3, <2>4 DEF Exact
  <1>5. Gone'
    BY <1>1, <1>4 DEF IInv, Gone, ReplaceInv
  <1>6. Alternates'
    BY <1>1, <1>2, WholeKeeps DEF IInv, HalfRemoved
  <1>7. ReplaceInv' /\ ReplaceIfInv' /\ RemoveInv'
    BY <1>2 DEF ReplaceInv, ReplaceIfInv, RemoveInv
  <1> QED BY <1>1, <1>2, <1>3, <1>5, <1>6, <1>7, ToIInv, UsesNat DEF Edited, IInv, TypeOK

LEMMA ReplaceIfEndKeeps ==
  ASSUME IInv, ReplaceIfEnd
  PROVE  IInv'
  <1>1. /\ job.op = "replace_if" /\ job' = Idle
        /\ operands' = operands /\ uses' = uses /\ alive' = alive
    BY DEF ReplaceIfEnd
  <1>2. job'.op = "idle" /\ job' \in Jobs
    BY <1>1 DEF Idle, Jobs
  <1>3. AllExact'
    <2>1. AllExact
      BY <1>1, CountedIsExact DEF IInv
    <2>2. \A v \in Values, u \in Users, i \in 1 .. MaxOps : Exact(v, u, i)' <=> Exact(v, u, i)
      BY <1>1 DEF Exact
    <2> QED BY <2>1, <2>2 DEF AllExact
  <1>4. Gone' /\ Alternates'
    BY <1>1, <1>2, WholeKeeps DEF IInv, HalfRemoved, Gone
  <1>5. ReplaceInv' /\ ReplaceIfInv' /\ RemoveInv'
    BY <1>2 DEF ReplaceInv, ReplaceIfInv, RemoveInv
  <1> QED BY <1>1, <1>2, <1>3, <1>4, <1>5, ToIInv, UsesNat DEF Edited, IInv, TypeOK

-----------------------------------------------------------------------------
(* remove_operand. *)

LEMMA DropIncomingPairKeeps ==
  ASSUME IInv, NEW u \in Phis, NEW i \in 1 .. MaxOps, DropIncomingPair(u, i)
  PROVE  IInv'
  <1>1. /\ IsIdle /\ u \in alive /\ i % 2 = 1 /\ i + 1 \in DOMAIN operands[u]
        /\ \A j \in DOMAIN operands[u] : operands[u][j] # Null
        /\ job' = [op |-> "remove", user |-> u, calls |-> <<i, i>>, next |-> i + 1]
        /\ operands' = operands /\ uses' = uses /\ alive' = alive
    BY DEF DropIncomingPair, RemoveCalls
  <1>2. /\ job.op = "idle" /\ job'.op = "remove" /\ job'.user = u
        /\ job'.calls = <<i, i>> /\ job'.next = i + 1
        /\ Head(job'.calls) = i /\ Len(job'.calls) = 2
    BY <1>1 DEF IsIdle, Idle
  <1>3. /\ Len(operands[u]) \in Nat /\ Len(operands[u]) <= MaxOps
        /\ DOMAIN operands[u] = 1 .. Len(operands[u])
    BY NullNotValue, Lists DEF IInv
  <1>4. job' \in Jobs
    <2>1. i + 1 \in 1 .. MaxOps + 1
      BY UseDefAssumption
    <2> QED BY <1>1, <2>1 DEF Jobs
  <1>5. AllExact
    BY <1>1, IdleExact
  <1>6. Counted'
    <2>1. SUFFICES ASSUME NEW v \in Values, NEW w \in Users, NEW j \in 1 .. MaxOps
                   PROVE  uses'[v][<<w, j>>] = Count(v, w, j)'
      BY DEF Counted
    <2>2. Count(v, w, j)' = IF Names(w, j, v)' THEN 1 ELSE 0
      <3>1. j < i \/ j >= i + 1 \/ (j = i /\ ~(i + 1 < i + 1))
        OBVIOUS
      <3> QED BY <1>2, <3>1 DEF Count
    <2>3. Exact(v, w, j)
      BY <1>5 DEF AllExact
    <2> QED BY <1>1, <2>2, <2>3 DEF Names, Exact
  <1>7. Alternates'
    BY <1>1, <1>2, WholeKeeps DEF IInv, HalfRemoved
  <1>8. RemoveInv'
    BY <1>1, <1>2, <1>3 DEF RemoveInv
  <1>9. ReplaceInv' /\ ReplaceIfInv'
    BY <1>2 DEF ReplaceInv, ReplaceIfInv
  <1>10. Gone'
    BY <1>1 DEF IInv, Gone
  <1>11. TypeOK'
    BY <1>1, <1>4, <1>6, CountedType, UsesNat DEF IInv, TypeOK
  <1> QED BY <1>6, <1>7, <1>8, <1>9, <1>10, <1>11 DEF IInv

(* The job while operands are removed. *)
LEMMA RemoveFacts ==
  ASSUME IInv, job.op = "remove"
  PROVE  LET u == job.user
             i == Head(job.calls)
             n == Len(operands[u])
         IN  /\ u \in Phis /\ u \in Users /\ u \in alive
             /\ operands[u] \in Seq(Operand) /\ n \in Nat /\ n <= MaxOps
             /\ DOMAIN operands[u] = 1 .. n
             /\ \A j \in 1 .. n : operands[u][j] \in Values
             /\ i \in 1 .. n /\ i \in Nat /\ i \in 1 .. MaxOps
             /\ job.next \in Nat /\ i < job.next /\ job.next <= n + 1
             /\ \/ Len(job.calls) = 2 /\ job.calls = <<i, i>> /\ i + 1 <= n
                \/ Len(job.calls) = 1 /\ job.calls = <<i>>
             /\ i + 1 <= n => operands[u][i] # operands[u][i + 1]
  <1> DEFINE u == job.user
             i == Head(job.calls)
             n == Len(operands[u])
  <1>1. u \in Phis /\ u \in Users
    BY NullNotValue DEF IInv, TypeOK, Jobs, Idle
  <1>2. /\ operands[u] \in Seq(Operand) /\ n \in Nat /\ n <= MaxOps
        /\ DOMAIN operands[u] = 1 .. n
        /\ \A j \in 1 .. n : operands[u][j] \in Operand
    BY <1>1, Lists DEF IInv
  <1>3. /\ u \in alive /\ \A j \in 1 .. n : operands[u][j] # Null
        /\ i \in 1 .. MaxOps /\ i % 2 = 1
        /\ \/ job.calls = <<i, i>> /\ i + 1 \in 1 .. n
           \/ job.calls = <<i>> /\ i \in 1 .. n
        /\ job.next \in i + 1 .. n + 1
    BY <1>2 DEF IInv, RemoveInv
  <1>4. /\ i \in Nat /\ i \in 1 .. n
        /\ job.next \in Nat /\ i < job.next /\ job.next <= n + 1
    BY <1>2, <1>3
  <1>5. \/ Len(job.calls) = 2 /\ job.calls = <<i, i>> /\ i + 1 <= n
        \/ Len(job.calls) = 1 /\ job.calls = <<i>>
    <2> HIDE DEF i, u
    <2>1. Len(<<i, i>>) = 2 /\ Len(<<i>>) = 1
      OBVIOUS
    <2>2. i + 1 \in 1 .. n => i + 1 <= n
      BY <1>2, <1>4
    <2> QED BY <1>3, <2>1, <2>2
  <1>6. ASSUME i + 1 <= n PROVE operands[u][i] # operands[u][i + 1]
    <2> DEFINE half == IF HalfRemoved(u) THEN 1 ELSE 0
    <2>1. i + 1 \in 1 .. n /\ i >= i /\ i + 1 >= i
      BY <1>2, <1>4, <1>6
    <2>2. \A j \in 1 .. n : j >= i => (operands[u][j] \in Labels <=> j % 2 = half)
      BY <1>1, <1>2, <1>3 DEF IInv, Alternates
    <2>3. operands[u][i] \in Labels <=> i % 2 = half
      BY <1>4, <2>1, <2>2
    <2>4. operands[u][i + 1] \in Labels <=> (i + 1) % 2 = half
      BY <2>1, <2>2
    <2>5. i % 2 = 1 /\ (i + 1) % 2 = 0
      BY <1>3, <1>4
    <2> QED BY <2>3, <2>4, <2>5
  <1> QED BY <1>1, <1>2, <1>3, <1>4, <1>5, <1>6 DEF Operand

LEMMA RenumberOneKeeps ==
  ASSUME IInv, RenumberOne
  PROVE  IInv'
  <1> DEFINE u == job.user
             i == Head(job.calls)
             n == Len(operands[u])
             k == job.next
             x == operands[u][k]
             mid == RemoveUse(uses, x, <<u, k>>)
  <1>1. /\ job.op = "remove" /\ k \in DOMAIN operands[u]
        /\ uses' = AddUse(mid, x, <<u, k - 1>>)
        /\ job' = [job EXCEPT !.next = @ + 1]
        /\ operands' = operands /\ alive' = alive
    BY DEF RenumberOne
  <1>2. /\ u \in Phis /\ u \in Users /\ u \in alive
        /\ n \in Nat /\ n <= MaxOps
        /\ DOMAIN operands[u] = 1 .. n
        /\ \A j \in 1 .. n : operands[u][j] \in Values
        /\ i \in 1 .. n /\ i \in Nat
        /\ k \in Nat /\ i < k /\ k <= n + 1
    BY <1>1, RemoveFacts
  <1>3. /\ job' = [op |-> "remove", user |-> u, calls |-> job.calls, next |-> k + 1]
        /\ job' \in Jobs
    <2>1. job \in [op : {"remove"}, user : Phis,
                   calls : (1 .. MaxOps) \X (1 .. MaxOps) \cup [{1} -> 1 .. MaxOps],
                   next : 1 .. MaxOps + 1]
      BY <1>1 DEF IInv, TypeOK, Jobs, Idle
    <2>2. k + 1 \in 1 .. MaxOps + 1
      BY <1>1, <1>2, UseDefAssumption
    <2>3. job' = [op |-> "remove", user |-> u, calls |-> job.calls, next |-> k + 1]
      BY <1>1, <2>1
    <2> QED BY <2>1, <2>2, <2>3 DEF Jobs
  <1>4. /\ k \in 1 .. n /\ x \in Values /\ x \in Operand
        /\ <<u, k>> \in Slots /\ <<u, k - 1>> \in Slots
    <2> HIDE DEF n, k, u, i
    <2>1. k \in 1 .. n /\ k \in 1 .. MaxOps /\ k - 1 \in 1 .. MaxOps
      BY <1>1, <1>2, UseDefAssumption
    <2>2. x \in Values
      BY <1>2, <2>1
    <2> QED BY <1>2, <2>1, <2>2 DEF Operand, Slots
  <1>5. /\ mid \in UseLists
        /\ \A w \in Values, t \in Slots :
              mid[w][t] = IF w = x /\ t = <<u, k>> THEN 0 ELSE uses[w][t]
    <2> HIDE DEF x, k, u
    <2>1. uses \in UseLists
      BY UsesNat DEF IInv
    <2> QED BY <1>4, <2>1, RemoveUseFacts, SMTT(20)
  <1> HIDE DEF mid, x, k, n, i, u
  <1>6. /\ uses' \in UseLists
        /\ \A w \in Values, t \in Slots :
              uses'[w][t] = IF w = x /\ t = <<u, k - 1>> THEN mid[w][t] + 1 ELSE mid[w][t]
    BY <1>1, <1>4, <1>5, AddUseFacts
  <1>7. /\ job'.op = "remove" /\ job'.user = u /\ job'.calls = job.calls /\ job'.next = k + 1
        /\ Head(job'.calls) = i
    BY <1>3 DEF i
  <1>8. Counted'
    <2>1. SUFFICES ASSUME NEW v \in Values, NEW w \in Users, NEW j \in 1 .. MaxOps
                   PROVE  uses'[v][<<w, j>>] = Count(v, w, j)'
      BY DEF Counted
    <2>2. /\ uses[v][<<w, j>>] = Count(v, w, j)
          /\ <<w, j>> \in Slots
      BY DEF IInv, Counted, Slots
    <2>3. \A m \in 1 .. n : Names(u, m, v) <=> operands[u][m] = v
      BY <1>2 DEF Names
    <2>4. \A m : Names(w, m, v)' <=> Names(w, m, v)
      BY <1>1 DEF Names
    <2>5. Count(v, w, j) =
              IF w # u \/ j < i \/ j >= k THEN IF Names(w, j, v) THEN 1 ELSE 0
              ELSE IF j = i
              THEN (IF Names(w, j, v) THEN 1 ELSE 0)
                   + (IF j + 1 < k /\ Names(w, j + 1, v) THEN 1 ELSE 0)
              ELSE IF j + 1 < k /\ Names(w, j + 1, v) THEN 1 ELSE 0
      BY <1>1 DEF Count, u, i, k
    <2>6. Count(v, w, j)' =
              IF w # u \/ j < i \/ j >= k + 1 THEN IF Names(w, j, v) THEN 1 ELSE 0
              ELSE IF j = i
              THEN (IF Names(w, j, v) THEN 1 ELSE 0)
                   + (IF j + 1 < k + 1 /\ Names(w, j + 1, v) THEN 1 ELSE 0)
              ELSE IF j + 1 < k + 1 /\ Names(w, j + 1, v) THEN 1 ELSE 0
      BY <1>7, <2>4 DEF Count
    <2>7. CASE w # u \/ j < k - 1 \/ j > k
      <3>1. <<w, j>> # <<u, k>> /\ <<w, j>> # <<u, k - 1>>
        BY <1>2, <2>7
      <3>2. uses'[v][<<w, j>>] = uses[v][<<w, j>>]
        BY <1>5, <1>6, <2>2, <3>1
      <3> QED BY <1>2, <2>2, <2>5, <2>6, <2>7, <3>2
    <2>8. CASE w = u /\ j = k
      <3>1. <<w, j>> = <<u, k>> /\ <<w, j>> # <<u, k - 1>>
        BY <1>2, <2>8
      <3>2. uses'[v][<<w, j>>] = IF v = x THEN 0 ELSE uses[v][<<w, j>>]
        BY <1>5, <1>6, <2>2, <3>1
      <3>3. Names(u, k, v) <=> x = v
        BY <1>4, <2>3 DEF x
      <3>4. Count(v, w, j) = IF x = v THEN 1 ELSE 0
        BY <1>2, <2>5, <2>8, <3>3
      <3>5. Count(v, w, j)' = 0
        BY <1>2, <2>6, <2>8
      <3> QED BY <2>2, <3>2, <3>4, <3>5
    <2>9. CASE w = u /\ j = k - 1
      <3>1. <<w, j>> # <<u, k>> /\ <<w, j>> = <<u, k - 1>>
        BY <1>2, <2>9
      <3>2. mid[v][<<w, j>>] = Count(v, w, j)
        BY <1>5, <2>2, <3>1
      <3>3. uses'[v][<<w, j>>] = IF v = x THEN Count(v, w, j) + 1 ELSE Count(v, w, j)
        BY <1>6, <2>2, <3>1, <3>2
      <3>4. Names(u, k, v) <=> x = v
        BY <1>4, <2>3 DEF x
      <3>5. j + 1 = k /\ ~(j + 1 < k) /\ j + 1 < k + 1 /\ ~(j >= k) /\ ~(j >= k + 1) /\ ~(j < i)
        BY <1>2, <2>9
      <3>6. Count(v, w, j) = IF j = i /\ Names(w, j, v) THEN 1 ELSE 0
        BY <2>5, <2>9, <3>5
      <3>7. Count(v, w, j)' = (IF j = i /\ Names(w, j, v) THEN 1 ELSE 0)
                              + (IF x = v THEN 1 ELSE 0)
        BY <2>6, <2>9, <3>4, <3>5
      <3> QED BY <3>3, <3>6, <3>7
    <2>10. w # u \/ j < k - 1 \/ j > k \/ j = k \/ j = k - 1
      BY <1>2
    <2> QED BY <2>7, <2>8, <2>9, <2>10
  <1>9. Alternates'
    <2>1. \A w : HalfRemoved(w)' <=> HalfRemoved(w)
      BY <1>1, <1>7 DEF HalfRemoved, u
    <2>2. Head(job'.calls) = Head(job.calls)
      BY <1>7
    <2> QED BY <1>1, <2>1, <2>2 DEF IInv, Alternates
  <1>10. RemoveInv'
    <2>1. k + 1 \in i + 1 .. n + 1
      BY <1>2, <1>4
    <2> QED BY <1>1, <1>7, <2>1 DEF IInv, RemoveInv, u, i, n
  <1>11. ReplaceInv' /\ ReplaceIfInv'
    BY <1>7 DEF ReplaceInv, ReplaceIfInv
  <1>12. Gone'
    BY <1>1 DEF IInv, Gone
  <1>13. TypeOK'
    BY <1>1, <1>3, <1>6, <1>8, CountedType DEF IInv, TypeOK
  <1> QED BY <1>8, <1>9, <1>10, <1>11, <1>12, <1>13 DEF IInv

(* What the end of a remove_operand leaves. *)
LEMMA RemoveEndFacts ==
  ASSUME IInv, RemoveEnd
  PROVE  LET u == job.user
             i == Head(job.calls)
             n == Len(operands[u])
         IN  /\ operands' \in [Users -> OperandLists] /\ uses' \in UseLists
             /\ operands' = [operands EXCEPT ![u] = RemoveAt(@, i)]
             /\ \A w \in Users \ {u} : operands'[w] = operands[w]
             /\ Len(operands'[u]) = n - 1 /\ DOMAIN operands'[u] = 1 .. n - 1
             /\ \A j \in 1 .. n - 1 :
                    operands'[u][j] = IF j < i THEN operands[u][j] ELSE operands[u][j + 1]
             /\ AllExact'
             /\ alive' = alive
             /\ \/ Len(job.calls) = 1 /\ job' = Idle
                \/ /\ Len(job.calls) = 2 /\ i + 1 <= n
                   /\ job' = [op |-> "remove", user |-> u, calls |-> <<i>>, next |-> i + 1]
  <1> DEFINE u == job.user
             i == Head(job.calls)
             n == Len(operands[u])
             x == operands[u][i]
  <1>1. /\ job.op = "remove" /\ ~(job.next \in DOMAIN operands[u])
        /\ uses' = RemoveUse(uses, x, <<u, i>>)
        /\ operands' = [operands EXCEPT ![u] = RemoveAt(@, i)]
        /\ job' = IF Len(job.calls) = 1 THEN Idle
                  ELSE [job EXCEPT !.calls = Tail(@), !.next = job.calls[2] + 1]
        /\ alive' = alive
    BY DEF RemoveEnd
  <1>2. /\ u \in Phis /\ u \in Users /\ u \in alive
        /\ operands[u] \in Seq(Operand) /\ n \in Nat /\ n <= MaxOps
        /\ DOMAIN operands[u] = 1 .. n
        /\ \A j \in 1 .. n : operands[u][j] \in Values
        /\ i \in 1 .. n /\ i \in Nat /\ i \in 1 .. MaxOps
        /\ job.next \in Nat /\ i < job.next /\ job.next <= n + 1
        /\ \/ Len(job.calls) = 2 /\ job.calls = <<i, i>> /\ i + 1 <= n
           \/ Len(job.calls) = 1 /\ job.calls = <<i>>
        /\ i + 1 <= n => operands[u][i] # operands[u][i + 1]
    BY <1>1, RemoveFacts
  <1>3. \/ Len(job.calls) = 1 /\ job' = Idle
        \/ /\ Len(job.calls) = 2 /\ i + 1 <= n
           /\ job' = [op |-> "remove", user |-> u, calls |-> <<i>>, next |-> i + 1]
    <2>1. ASSUME Len(job.calls) = 2
          PROVE  job' = [op |-> "remove", user |-> u, calls |-> <<i>>, next |-> i + 1]
      <3>1. job \in [op : {"remove"}, user : Phis,
                     calls : (1 .. MaxOps) \X (1 .. MaxOps) \cup [{1} -> 1 .. MaxOps],
                     next : 1 .. MaxOps + 1]
        BY <1>1 DEF IInv, TypeOK, Jobs, Idle
      <3>2. job.calls = <<i, i>>
        BY <1>2, <2>1
      <3> HIDE DEF i
      <3>3. Tail(job.calls) = <<i>> /\ job.calls[2] = i
        BY <3>2
      <3>4. job' = [job EXCEPT !.calls = <<i>>, !.next = i + 1]
        <4>1. job' = [job EXCEPT !.calls = Tail(job.calls), !.next = job.calls[2] + 1]
          BY <2>1 DEF RemoveEnd
        <4> QED BY <3>3, <4>1
      <3> QED BY <3>1, <3>4
    <2> QED BY <1>1, <1>2, <2>1
  <1>4. job.next = n + 1 /\ i < n + 1
    <2>1. /\ job.next \in Nat /\ i < job.next /\ job.next <= n + 1 /\ i \in Nat /\ n \in Nat
      BY <1>2
    <2>2. ~(job.next \in 1 .. n)
      BY <1>1, <1>2
    <2> HIDE DEF n, u, i
    <2> QED BY <2>1, <2>2
  <1>5. <<u, i>> \in Slots /\ x \in Values /\ x \in Operand
    BY <1>2 DEF Slots, Operand
  <1>6. /\ RemoveAt(operands[u], i) \in Seq(Operand)
        /\ Len(RemoveAt(operands[u], i)) = n - 1
        /\ \A j \in 1 .. n - 1 : RemoveAt(operands[u], i)[j] =
               IF j < i THEN operands[u][j] ELSE operands[u][j + 1]
    <2> HIDE DEF u, i
    <2> QED BY <1>2, RemoveAtFacts
  <1>7. /\ RemoveAt(operands[u], i) \in OperandLists
        /\ DOMAIN RemoveAt(operands[u], i) = 1 .. n - 1
    <2> HIDE DEF u, i
    <2>1. n - 1 <= MaxOps
      BY <1>2, UseDefAssumption
    <2> QED BY <1>6, <2>1, ListFacts, LenProperties
  <1>8. /\ uses' \in UseLists
        /\ \A w \in Values, t \in Slots :
              uses'[w][t] = IF w = x /\ t = <<u, i>> THEN 0 ELSE uses[w][t]
    <2> HIDE DEF x, u, i
    <2>1. uses \in UseLists
      BY UsesNat DEF IInv
    <2> QED BY <1>1, <1>5, <2>1, RemoveUseFacts
  <1> HIDE DEF u, i, n, x
  <1>9. /\ operands' \in [Users -> OperandLists]
        /\ operands'[u] = RemoveAt(operands[u], i)
        /\ \A w \in Users \ {u} : operands'[w] = operands[w]
    BY <1>1, <1>2, <1>7 DEF IInv, TypeOK
  <1>10. AllExact'
    <2>1. SUFFICES ASSUME NEW v \in Values, NEW w \in Users, NEW j \in 1 .. MaxOps
                   PROVE  Exact(v, w, j)'
      BY DEF AllExact
    <2>2. /\ uses[v][<<w, j>>] = Count(v, w, j)
          /\ <<w, j>> \in Slots
      BY DEF IInv, Counted, Slots
    <2>3. Count(v, w, j) =
              IF w # u \/ j < i \/ j >= n + 1 THEN IF Names(w, j, v) THEN 1 ELSE 0
              ELSE IF j = i
              THEN (IF Names(w, j, v) THEN 1 ELSE 0)
                   + (IF j + 1 < n + 1 /\ Names(w, j + 1, v) THEN 1 ELSE 0)
              ELSE IF j + 1 < n + 1 /\ Names(w, j + 1, v) THEN 1 ELSE 0
      BY <1>1, <1>4 DEF Count, u, i
    <2>4. \A m \in Nat \ {0} : Names(u, m, v) <=> m <= n /\ operands[u][m] = v
      BY <1>2 DEF Names
    <2>5. CASE w # u
      <3>1. <<w, j>> # <<u, i>>
        BY <2>5
      <3>2. uses'[v][<<w, j>>] = uses[v][<<w, j>>]
        BY <1>8, <2>2, <3>1
      <3> QED BY <1>9, <2>2, <2>3, <2>5, <3>2 DEF Names, Exact
    <2>6. CASE w = u /\ j # i
      <3>1. <<w, j>> # <<u, i>>
        BY <2>6
      <3>2. uses'[v][<<w, j>>] = Count(v, w, j)
        BY <1>8, <2>2, <3>1
      <3>3. operands'[w] = RemoveAt(operands[u], i) /\ DOMAIN operands'[w] = 1 .. n - 1
        BY <1>7, <1>9, <2>6
      <3>4. CASE j < i
        <4>1. j \in 1 .. n - 1 /\ operands'[w][j] = operands[u][j] /\ j <= n
          BY <1>2, <1>6, <3>3, <3>4
        <4>2. Names(w, j, v) <=> operands[u][j] = v
          BY <2>4, <2>6, <4>1
        <4> QED BY <2>3, <3>2, <3>3, <3>4, <4>1, <4>2 DEF Exact
      <3>5. CASE j > i /\ j <= n - 1
        <4>1. /\ j \in 1 .. n - 1 /\ operands'[w][j] = operands[u][j + 1]
              /\ j + 1 <= n /\ j + 1 < n + 1 /\ ~(j < i) /\ ~(j >= n + 1) /\ j + 1 \in Nat \ {0}
          BY <1>2, <1>6, <3>3, <3>5
        <4>2. Names(w, j + 1, v) <=> operands[u][j + 1] = v
          BY <2>4, <2>6, <4>1
        <4> QED BY <2>3, <2>6, <3>2, <3>3, <4>1, <4>2 DEF Exact
      <3>6. CASE j >= n
        <4>1. ~(j \in 1 .. n - 1) /\ ~(j + 1 < n + 1) /\ ~(j < i)
          BY <1>2, <2>6, <3>6
        <4>2. j >= n + 1 => ~Names(w, j, v)
          BY <1>2, <2>4, <2>6
        <4>3. Count(v, w, j) = 0
          BY <2>3, <2>6, <4>1, <4>2
        <4> QED BY <3>2, <3>3, <4>1, <4>3 DEF Exact
      <3> QED BY <1>2, <2>6, <3>4, <3>5, <3>6
    <2>7. CASE w = u /\ j = i
      <3>1. <<w, j>> = <<u, i>> /\ ~(j < i) /\ ~(j >= n + 1)
        BY <1>2, <1>4, <2>7
      <3>2. uses'[v][<<w, j>>] = IF v = x THEN 0 ELSE Count(v, w, j)
        BY <1>8, <2>2, <3>1
      <3>3. operands'[w] = RemoveAt(operands[u], i) /\ DOMAIN operands'[w] = 1 .. n - 1
        BY <1>7, <1>9, <2>7
      <3>4. Names(w, j, v) <=> v = x
        BY <1>2, <2>4, <2>7 DEF x
      <3>5. CASE i + 1 <= n
        <4>1. /\ j \in 1 .. n - 1 /\ operands'[w][j] = operands[u][i + 1]
              /\ j + 1 < n + 1 /\ i + 1 \in Nat \ {0}
          BY <1>2, <1>6, <2>7, <3>3, <3>5
        <4>2. Names(w, j + 1, v) <=> operands[u][i + 1] = v
          BY <2>4, <2>7, <3>5, <4>1
        <4>3. x # operands[u][i + 1]
          BY <1>2, <3>5 DEF x
        <4>4. v # x => Count(v, w, j) = IF operands[u][i + 1] = v THEN 1 ELSE 0
          BY <2>3, <2>7, <3>1, <3>4, <4>1, <4>2
        <4> QED BY <3>2, <3>3, <4>1, <4>3, <4>4 DEF Exact
      <3>6. CASE ~(i + 1 <= n)
        <4>1. ~(j \in 1 .. n - 1) /\ ~(j + 1 < n + 1)
          BY <1>2, <2>7, <3>6
        <4>2. v # x => Count(v, w, j) = 0
          BY <2>3, <2>7, <3>1, <3>4, <4>1
        <4> QED BY <3>2, <3>3, <4>1, <4>2 DEF Exact
      <3> QED BY <3>5, <3>6
    <2> QED BY <2>5, <2>6, <2>7
  <1> QED BY <1>1, <1>3, <1>6, <1>7, <1>8, <1>9, <1>10 DEF u, i, n

LEMMA RemoveEndKeeps ==
  ASSUME IInv, RemoveEnd
  PROVE  IInv'
  <1> DEFINE u == job.user
             i == Head(job.calls)
             n == Len(operands[u])
  <1>1. /\ operands' \in [Users -> OperandLists] /\ uses' \in UseLists
        /\ \A w \in Users \ {u} : operands'[w] = operands[w]
        /\ Len(operands'[u]) = n - 1 /\ DOMAIN operands'[u] = 1 .. n - 1
        /\ \A j \in 1 .. n - 1 :
               operands'[u][j] = IF j < i THEN operands[u][j] ELSE operands[u][j + 1]
        /\ AllExact'
        /\ alive' = alive
        /\ \/ Len(job.calls) = 1 /\ job' = Idle
           \/ /\ Len(job.calls) = 2 /\ i + 1 <= n
              /\ job' = [op |-> "remove", user |-> u, calls |-> <<i>>, next |-> i + 1]
    BY RemoveEndFacts
  <1>2. /\ u \in Phis /\ u \in Users /\ u \in alive
        /\ n \in Nat /\ n <= MaxOps
        /\ DOMAIN operands[u] = 1 .. n
        /\ \A j \in 1 .. n : operands[u][j] \in Values
        /\ i \in 1 .. n /\ i \in Nat /\ i \in 1 .. MaxOps
    BY RemoveFacts DEF RemoveEnd
  <1>3. job.op = "remove" /\ i % 2 = 1
    BY DEF RemoveEnd, IInv, RemoveInv
  <1>4. /\ n % 2 = IF HalfRemoved(u) THEN 1 ELSE 0
        /\ \A j \in 1 .. n : operands[u][j] \in Labels <=>
              j % 2 = IF HalfRemoved(u) /\ j >= i THEN 1 ELSE 0
    BY <1>2, NullNotValue DEF IInv, Alternates
  <1>5. HalfRemoved(u) <=> Len(job.calls) = 1
    BY <1>3 DEF HalfRemoved
  <1> HIDE DEF u, i, n
  <1>6. ASSUME NEW j \in 1 .. n - 1
        PROVE  /\ operands'[u][j] \in Values
               /\ operands'[u][j] \in Labels <=>
                     j % 2 = IF Len(job.calls) = 2 /\ j >= i THEN 1 ELSE 0
    <2>1. j \in 1 .. n /\ j + 1 \in 1 .. n /\ j \in Nat
      BY <1>2
    <2>2. (j + 1) % 2 = 1 <=> j % 2 = 0
      BY <2>1
    <2>3. j % 2 \in {0, 1} /\ (j + 1) % 2 \in {0, 1}
      BY <2>1
    <2>4. CASE j < i
      BY <1>1, <1>2, <1>4, <2>1, <2>4
    <2>5. CASE j >= i /\ Len(job.calls) = 1
      <3>1. operands'[u][j] = operands[u][j + 1] /\ j + 1 >= i
        BY <1>1, <1>2, <2>1, <2>5
      <3> QED BY <1>2, <1>4, <1>5, <2>1, <2>2, <2>3, <2>5, <3>1
    <2>6. CASE j >= i /\ Len(job.calls) = 2
      <3>1. operands'[u][j] = operands[u][j + 1]
        BY <1>1, <1>2, <2>1, <2>6
      <3> QED BY <1>2, <1>4, <1>5, <2>1, <2>2, <2>3, <2>6, <3>1
    <2> QED BY <1>1, <1>2, <2>1, <2>4, <2>5, <2>6
  <1>7. Gone'
    <2>1. \A j \in 1 .. n - 1 : \E k \in 1 .. n : operands'[u][j] = operands[u][k]
      BY <1>1, <1>2
    <2>2. \A d \in Values \ alive : \A w \in Users : \A j \in DOMAIN operands[w] : operands[w][j] # d
      BY DEF IInv, Gone
    <2>3. \A d \in Values \ alive : d \in Users => DOMAIN operands[d] = {}
      BY DEF IInv, Gone
    <2>4. SUFFICES ASSUME NEW d \in Values \ alive
                   PROVE  /\ \A w \in Users : \A j \in DOMAIN operands'[w] : operands'[w][j] # d
                          /\ d \in Users => DOMAIN operands'[d] = {}
      BY <1>1 DEF Gone
    <2>5. ASSUME NEW w \in Users, NEW j \in DOMAIN operands'[w]
          PROVE  operands'[w][j] # d
      <3>1. CASE w = u
        BY <1>1, <1>2, <2>1, <2>2, <2>5, <3>1
      <3>2. CASE w # u
        BY <1>1, <2>2, <2>5, <3>2
      <3> QED BY <3>1, <3>2
    <2> QED BY <1>1, <1>2, <2>3, <2>5
  <1>8. CASE Len(job.calls) = 1 /\ job' = Idle
    <2>1. job'.op = "idle" /\ job' \in Jobs
      BY <1>8 DEF Idle, Jobs
    <2>2. (n - 1) % 2 = 0
      BY <1>2, <1>4, <1>5, <1>8
    <2>3. Alternates'
      <3>1. SUFFICES ASSUME NEW w \in Phis
                     PROVE  /\ Len(operands'[w]) % 2 = 0
                            /\ \A j \in DOMAIN operands'[w] : operands'[w][j] # Null =>
                                  (operands'[w][j] \in Labels <=> j % 2 = 0)
        BY <2>1 DEF Alternates, HalfRemoved
      <3>2. CASE w = u
        <4>1. Len(operands'[w]) % 2 = 0 /\ DOMAIN operands'[w] = 1 .. n - 1
          BY <1>1, <2>2, <3>2
        <4>2. Len(job.calls) # 2
          BY <1>8
        <4> QED BY <1>6, <3>2, <4>1, <4>2
      <3>3. CASE w # u
        <4>1. operands'[w] = operands[w] /\ ~HalfRemoved(w)
          BY <1>1, <3>3, NullNotValue DEF HalfRemoved, u
        <4> QED BY <4>1 DEF IInv, Alternates
      <3> QED BY <3>2, <3>3
    <2>4. Edited'
      BY <1>7, <2>1, <2>3 DEF Edited, ReplaceInv, ReplaceIfInv, RemoveInv
    <2> QED BY <1>1, <2>1, <2>4, ToIInv DEF IInv, TypeOK
  <1>9. CASE /\ Len(job.calls) = 2 /\ i + 1 <= n
             /\ job' = [op |-> "remove", user |-> u, calls |-> <<i>>, next |-> i + 1]
    <2>1. /\ job'.op = "remove" /\ job'.user = u /\ job'.calls = <<i>> /\ job'.next = i + 1
          /\ Head(job'.calls) = i /\ Len(job'.calls) = 1
      BY <1>9
    <2>2. job' \in Jobs
      <3>1. <<i>> \in [{1} -> 1 .. MaxOps]
        BY <1>2
      <3>2. i + 1 \in 1 .. MaxOps + 1
        BY <1>2, UseDefAssumption
      <3> QED BY <1>2, <1>9, <3>1, <3>2 DEF Jobs
    <2>3. Counted'
      <3>1. SUFFICES ASSUME NEW v \in Values, NEW w \in Users, NEW j \in 1 .. MaxOps
                     PROVE  uses'[v][<<w, j>>] = Count(v, w, j)'
        BY DEF Counted
      <3>2. Count(v, w, j)' = IF Names(w, j, v)' THEN 1 ELSE 0
        <4>1. j < i \/ j >= i + 1 \/ (j = i /\ ~(i + 1 < i + 1))
          BY <1>2
        <4> QED BY <2>1, <4>1 DEF Count
      <3>3. Exact(v, w, j)'
        BY <1>1 DEF AllExact
      <3> QED BY <3>2, <3>3 DEF Names, Exact
    <2>4. (n - 1) % 2 = 1
      BY <1>2, <1>4, <1>5, <1>9
    <2>5. Alternates'
      <3>1. SUFFICES ASSUME NEW w \in Phis
                     PROVE  /\ Len(operands'[w]) % 2 = IF w = u THEN 1 ELSE 0
                            /\ \A j \in DOMAIN operands'[w] : operands'[w][j] # Null =>
                                  (operands'[w][j] \in Labels <=>
                                     j % 2 = IF w = u /\ j >= i THEN 1 ELSE 0)
        BY <2>1 DEF Alternates, HalfRemoved
      <3>2. CASE w = u
        BY <1>1, <1>6, <1>9, <2>4, <3>2
      <3>3. CASE w # u
        <4>1. operands'[w] = operands[w] /\ ~HalfRemoved(w)
          BY <1>1, <3>3, NullNotValue DEF HalfRemoved, u
        <4> QED BY <3>3, <4>1 DEF IInv, Alternates
      <3> QED BY <3>2, <3>3
    <2>6. RemoveInv'
      <3>1. /\ \A j \in DOMAIN operands'[u] : operands'[u][j] # Null
            /\ i \in DOMAIN operands'[u] /\ i + 1 \in i + 1 .. Len(operands'[u]) + 1
        BY <1>1, <1>2, <1>6, <1>9, NullNotValue
      <3> QED BY <1>1, <1>2, <1>3, <2>1, <3>1 DEF RemoveInv, i
    <2>7. ReplaceInv' /\ ReplaceIfInv'
      BY <2>1 DEF ReplaceInv, ReplaceIfInv
    <2>8. TypeOK'
      BY <1>1, <2>2, <2>3, CountedType DEF IInv, TypeOK
    <2> QED BY <1>7, <2>3, <2>5, <2>6, <2>7, <2>8 DEF IInv
  <1> QED BY <1>1, <1>8, <1>9

-----------------------------------------------------------------------------
(* The invariants. *)

LEMMA InitIInv ==
  ASSUME Init
  PROVE  IInv
  <1>1. /\ operands = [u \in Users |-> <<>>] /\ alive = Values
        /\ uses = [v \in Values |-> [s \in Slots |-> 0]]
        /\ job.op = "idle" /\ job \in Jobs
    BY DEF Init, Idle, Jobs
  <1>2. <<>> \in OperandLists /\ DOMAIN <<>> = {} /\ Len(<<>>) % 2 = 0
    <2>1. <<>> \in Seq(Operand) /\ Len(<<>>) = 0 /\ 0 <= MaxOps
      BY UseDefAssumption
    <2>2. <<>> \in OperandLists
      BY <2>1, ListFacts
    <2> QED BY <2>2
  <1>3. \A u \in Users : operands[u] = <<>>
    BY <1>1
  <1>4. TypeOK
    BY <1>1, <1>2 DEF TypeOK
  <1>5. Counted
    <2>1. \A u \in Users, i \in 1 .. MaxOps : <<u, i>> \in Slots
      BY DEF Slots
    <2>2. AllExact
      BY <1>1, <1>2, <1>3, <2>1 DEF AllExact, Exact
    <2> QED BY <1>1, <2>2, CountedIsExact
  <1>6. Alternates
    BY <1>1, <1>2, <1>3, NullNotValue DEF Alternates, HalfRemoved
  <1>7. ReplaceInv /\ ReplaceIfInv /\ RemoveInv /\ Gone
    BY <1>1 DEF ReplaceInv, ReplaceIfInv, RemoveInv, Gone
  <1> QED BY <1>4, <1>5, <1>6, <1>7 DEF IInv

LEMMA StepIInv ==
  ASSUME IInv, [Next]_vars
  PROVE  IInv'
  <1>1. CASE Call
    BY <1>1, AddOperandKeeps, AddPhiPairKeeps, SetOperandKeeps, RemoveAllOperandsKeeps,
       ReplaceAllUseWithKeeps, ReplaceUseWithIfKeeps, DestroyKeeps, DropIncomingPairKeeps
       DEF Call
  <1>2. CASE Loop
    BY <1>2, ReplaceOneKeeps, ReplaceEndKeeps, ReplaceIfOneKeeps, ReplaceIfEndKeeps,
       RenumberOneKeeps, RemoveEndKeeps DEF Loop
  <1>3. CASE UNCHANGED vars
    <2>1. operands' = operands /\ uses' = uses /\ alive' = alive /\ job' = job
      BY <1>3 DEF vars
    <2>2. TypeOK' /\ Gone'
      BY <2>1 DEF IInv, TypeOK, Gone
    <2>3. \A v, u, i : Count(v, u, i)' = Count(v, u, i)
      BY <2>1 DEF Count, Names
    <2>4. Counted'
      BY <2>1, <2>3 DEF IInv, Counted
    <2>5. Alternates'
      BY <2>1 DEF IInv, Alternates, HalfRemoved
    <2>6. ReplaceInv' /\ ReplaceIfInv' /\ RemoveInv'
      BY <2>1 DEF IInv, ReplaceInv, ReplaceIfInv, RemoveInv, Names
    <2> QED BY <2>2, <2>4, <2>5, <2>6 DEF IInv
  <1> QED BY <1>1, <1>2, <1>3 DEF Next

(* Whatever calls are made on the def-use graph (User.cpp, Value.cpp), in   *)
(* any order, the counts of the use lists are known at every iteration of   *)
(* every loop, the renumbering of remove_operand included.                  *)
THEOREM BookkeepingInvariance == Spec => []IInv
  <1>1. Init => IInv
    BY InitIInv
  <1>2. IInv /\ [Next]_vars => IInv'
    BY StepIInv
  <1> QED BY <1>1, <1>2, PTL DEF Spec

(* Operand lists, use lists and the jobs of the loops stay within their     *)
(* types: a use is never entered three times.                               *)
THEOREM TypeCorrect == Spec => []TypeOK
  <1>1. IInv => TypeOK
    BY DEF IInv
  <1> QED BY <1>1, BookkeepingInvariance, PTL

(* A use list holds Use(u, i) once if operand i of u is the value and never *)
(* otherwise ("who use this value"), between calls and within the           *)
(* replacement loops: set_operand, add_operand, remove_operand,             *)
(* remove_all_operands, the replacements and the destructors agree.         *)
THEOREM UseListsAreExact == Spec => []UsesExact
  <1>1. IInv => UsesExact
    BY CountedIsExact DEF IInv, UsesExact, AllExact
  <1> QED BY <1>1, BookkeepingInvariance, PTL

(* After ~Value no operand and no use list of a live object names it.       *)
THEOREM NothingDangles == Spec => []NoDangling
  <1>1. IInv => NoDangling
    <2> SUFFICES ASSUME IInv, NEW d \in Values \ alive
                 PROVE  /\ \A u \in Users : \A i \in DOMAIN operands[u] : operands[u][i] # d
                        /\ \A v \in alive, s \in Slots : s[1] = d => uses[v][s] = 0
      BY DEF NoDangling
    <2>1. ASSUME NEW v \in alive, NEW u \in Users, NEW i \in 1 .. MaxOps, u = d
          PROVE  uses[v][<<u, i>>] = 0
      <3>1. DOMAIN operands[u] = {} /\ v \in Values
        BY <2>1 DEF IInv, Gone, TypeOK
      <3>2. job.op = "remove" => job.user # u
        BY <2>1 DEF IInv, RemoveInv
      <3>3. Count(v, u, i) = 0
        BY <3>1, <3>2 DEF Count, Names
      <3> QED BY <3>1, <3>3 DEF IInv, Counted
    <2>2. \A v \in alive, s \in Slots : s[1] = d => uses[v][s] = 0
      BY <2>1 DEF Slots
    <2> QED BY <2>2 DEF IInv, Gone
  <1> QED BY <1>1, BookkeepingInvariance, PTL

-----------------------------------------------------------------------------
(* The calls implement those of OperandGraph. *)

AbstractStep == Abstract!Next \/ UNCHANGED Abstract!vars

ReplacedIn(S) ==
    [u \in Users |-> [i \in DOMAIN operands[u] |->
        IF operands[u][i] = job.old /\ <<u, i>> \in S THEN job.new ELSE operands[u][i]]]

(* What the operands will be, by the loop in progress. *)
LEMMA FinalIdle ==
  ASSUME job.op = "idle"
  PROVE  FinalOperands = operands /\ FinalAlive = alive
  BY DEF FinalOperands, FinalAlive

LEMMA FinalReplace ==
  ASSUME job.op = "replace"
  PROVE  /\ FinalOperands = ReplacedIn(Slots)
         /\ FinalAlive = IF job.dtor THEN alive \ {job.old} ELSE alive
  BY DEF FinalOperands, FinalAlive, ReplacedIn, Graph!Replaced

LEMMA FinalReplaceIf ==
  ASSUME job.op = "replace_if"
  PROVE  FinalOperands = ReplacedIn(job.todo) /\ FinalAlive = alive
  BY DEF FinalOperands, FinalAlive, ReplacedIn, Graph!Replaced

LEMMA FinalRemove ==
  ASSUME job.op = "remove", NEW i, job.calls = <<i, i>> \/ job.calls = <<i>>
  PROVE  /\ FinalOperands =
                IF job.calls = <<i, i>>
                THEN [operands EXCEPT ![job.user] = RemoveAt(RemoveAt(@, i), i)]
                ELSE [operands EXCEPT ![job.user] = RemoveAt(@, i)]
         /\ FinalAlive = alive
  <1>1. <<i, i>> # <<i>> /\ Len(<<i, i>>) = 2 /\ Len(<<i>>) = 1
        /\ <<i, i>>[1] = i /\ <<i, i>>[2] = i /\ <<i>>[1] = i
    OBVIOUS
  <1>2. CASE job.calls = <<i, i>>
    BY <1>1, <1>2 DEF FinalOperands, FinalAlive
  <1>3. CASE job.calls = <<i>>
    BY <1>1, <1>3 DEF FinalOperands, FinalAlive
  <1> QED BY <1>2, <1>3

LEMMA SameNames ==
  /\ Abstract!Users = Users /\ Abstract!Values = Values /\ Abstract!Slots = Slots
  BY DEF Abstract!Users, Abstract!Values, Abstract!Slots, Users, Values, Slots

(* A list is the function of its elements. *)
LEMMA ListIsFunction ==
  ASSUME TypeOK
  PROVE  operands = [u \in Users |-> [i \in DOMAIN operands[u] |-> operands[u][i]]]
  <1>1. \A u \in Users : operands[u] = [i \in DOMAIN operands[u] |-> operands[u][i]]
    <2> SUFFICES ASSUME NEW u \in Users
                 PROVE  operands[u] = [i \in DOMAIN operands[u] |-> operands[u][i]]
      OBVIOUS
    <2>1. \E n \in 0 .. MaxOps : operands[u] \in [1 .. n -> Values \cup {Null}]
      BY DEF TypeOK, OperandLists
    <2> QED BY <2>1
  <1> QED BY <1>1 DEF TypeOK

LEMMA AddOperandRefines ==
  ASSUME IInv, NEW u \in Insts, NEW v \in Values, AddOperand(u, v)
  PROVE  AbstractStep
  <1>1. /\ job.op = "idle" /\ job'.op = "idle" /\ u \in alive /\ u \in Users
        /\ operands' = [operands EXCEPT ![u] = Append(@, v)] /\ alive' = alive
        /\ Len(operands[u]) < MaxInstOps
    BY DEF AddOperand, IsIdle, Idle, Users
  <1>2. operands[u] \in Seq(Operand) /\ Len(operands[u]) \in Nat /\ v \in Operand
    BY <1>1, Lists DEF IInv, Operand
  <1>3. Append(operands[u], v) = operands[u] \o <<v>>
    BY <1>2, AppendIsConcat
  <1>4. Len(operands[u]) + Len(<<v>>) <= MaxOps
    BY <1>1, <1>2, UseDefAssumption
  <1>5. /\ FinalOperands = operands /\ FinalAlive = alive
        /\ FinalOperands' = operands' /\ FinalAlive' = alive'
    BY <1>1 DEF FinalOperands, FinalAlive
  <1>6. operands' = [operands EXCEPT ![u] = operands[u] \o <<v>>]
    BY <1>1, <1>3
  <1>7. Abstract!Extend(u, <<v>>)
    BY <1>1, <1>4, <1>5, <1>6 DEF Abstract!Extend
  <1> QED BY <1>1, <1>7, SameNames DEF AbstractStep, Abstract!Next

LEMMA AddPhiPairRefines ==
  ASSUME IInv, NEW u \in Phis, NEW v \in Values \ Labels, NEW b \in Labels,
         AddPhiPair(u, v, b)
  PROVE  AbstractStep
  <1>1. /\ job.op = "idle" /\ job'.op = "idle" /\ u \in alive /\ u \in Users
        /\ operands' = [operands EXCEPT ![u] = @ \o <<v, b>>] /\ alive' = alive
        /\ Len(operands[u]) + 1 < MaxOps
    BY DEF AddPhiPair, IsIdle, Idle, Users
  <1>2. Len(operands[u]) \in Nat
    BY <1>1, Lists DEF IInv
  <1>3. Len(operands[u]) + Len(<<v, b>>) <= MaxOps
    BY <1>1, <1>2, UseDefAssumption
  <1>4. /\ FinalOperands = operands /\ FinalAlive = alive
        /\ FinalOperands' = operands' /\ FinalAlive' = alive'
    BY <1>1 DEF FinalOperands, FinalAlive
  <1>5. Abstract!Extend(u, <<v, b>>)
    BY <1>1, <1>3, <1>4 DEF Abstract!Extend
  <1> QED BY <1>5, SameNames DEF AbstractStep, Abstract!Next

LEMMA SetOperandRefines ==
  ASSUME IInv, NEW u \in Users, NEW i \in 1 .. MaxOps, NEW v \in Values, SetOperand(u, i, v)
  PROVE  AbstractStep
  <1>1. /\ job.op = "idle" /\ job'.op = "idle" /\ u \in alive /\ i \in DOMAIN operands[u]
        /\ operands' = [operands EXCEPT ![u][i] = v] /\ alive' = alive
    BY DEF SetOperand, SetOperandAt, IsIdle, Idle
  <1>2. /\ FinalOperands = operands /\ FinalAlive = alive
        /\ FinalOperands' = operands' /\ FinalAlive' = alive'
    BY <1>1 DEF FinalOperands, FinalAlive
  <1>3. Abstract!Set(u, i, v)
    BY <1>1, <1>2 DEF Abstract!Set
  <1> QED BY <1>3, SameNames DEF AbstractStep, Abstract!Next

LEMMA RemoveAllOperandsRefines ==
  ASSUME IInv, NEW u \in Users, RemoveAllOperands(u)
  PROVE  AbstractStep
  <1>1. /\ job.op = "idle" /\ job'.op = "idle" /\ u \in alive
        /\ operands' = [operands EXCEPT ![u] = <<>>] /\ alive' = alive
    BY DEF RemoveAllOperands, IsIdle, Idle
  <1>2. /\ FinalOperands = operands /\ FinalAlive = alive
        /\ FinalOperands' = operands' /\ FinalAlive' = alive'
    BY <1>1 DEF FinalOperands, FinalAlive
  <1>3. Abstract!Clear(u)
    BY <1>1, <1>2 DEF Abstract!Clear
  <1> QED BY <1>3, SameNames DEF AbstractStep, Abstract!Next

(* A replacement of the uses in S, all of them operands that are old. *)
LEMMA SubstituteRefines ==
  ASSUME TypeOK, job.op = "idle", job'.op \in {"replace", "replace_if"},
         NEW old \in Values, NEW new \in Values, NEW S,
         job'.old = old, job'.new = new,
         operands' = operands, alive' = alive,
         FinalOperands' = ReplacedIn(S)', FinalAlive' = alive',
         NEW T \in SUBSET Abstract!UsersOf(old),
         \A u \in Users : \A i \in DOMAIN operands[u] :
            operands[u][i] = old => (<<u, i>> \in S <=> <<u, i>> \in T)
  PROVE  AbstractStep
  <1>1. FinalOperands = operands /\ FinalAlive = alive
    BY FinalIdle
  <1>2. FinalOperands' = [u \in Users |-> [i \in DOMAIN operands[u] |->
            IF operands[u][i] = old /\ <<u, i>> \in S THEN new ELSE operands[u][i]]]
    BY DEF ReplacedIn
  <1>3. FinalOperands' = [u \in Users |-> [i \in DOMAIN operands[u] |->
            IF operands[u][i] = old /\ <<u, i>> \in T THEN new ELSE operands[u][i]]]
    BY <1>2
  <1>4. Abstract!Substitute(old, new, T)
    BY <1>1, <1>3, SameNames DEF Abstract!Substitute, Abstract!Replaced
  <1> QED BY <1>4, SameNames DEF AbstractStep, Abstract!Next

LEMMA ReplaceAllUseWithRefines ==
  ASSUME IInv, NEW old \in Values, NEW new \in Values, ReplaceAllUseWith(old, new)
  PROVE  AbstractStep
  <1> DEFINE T == Abstract!UsersOf(old)
  <1>1. /\ IsIdle /\ operands' = operands /\ alive' = alive
        /\ job' = [op |-> "replace", old |-> old, new |-> new, dtor |-> FALSE]
    BY DEF ReplaceAllUseWith
  <1>2. /\ job.op = "idle" /\ job'.op = "replace" /\ job'.old = old /\ job'.new = new
        /\ job'.dtor = FALSE
    BY <1>1 DEF IsIdle, Idle
  <1>3. FinalOperands = operands
    BY <1>2, FinalIdle
  <1>4. \A u \in Users : \A i \in DOMAIN operands[u] :
            operands[u][i] = old => (<<u, i>> \in Slots <=> <<u, i>> \in T)
    BY <1>3, SameNames DEF Abstract!UsersOf
  <1>5. FinalOperands' = ReplacedIn(Slots)' /\ FinalAlive' = alive'
    BY <1>2 DEF FinalOperands, FinalAlive, ReplacedIn, Graph!Replaced
  <1> HIDE DEF T
  <1> QED BY <1>1, <1>2, <1>4, <1>5, SubstituteRefines DEF IInv, T

LEMMA ReplaceUseWithIfRefines ==
  ASSUME IInv, NEW old \in Values, NEW new \in Values,
         NEW S \in SUBSET {s \in Slots : uses[old][s] > 0}, ReplaceUseWithIf(old, new, S)
  PROVE  AbstractStep
  <1>1. /\ IsIdle /\ operands' = operands /\ alive' = alive
        /\ job' = [op |-> "replace_if", old |-> old, new |-> new, todo |-> S]
    BY DEF ReplaceUseWithIf
  <1>2. /\ job.op = "idle" /\ job'.op = "replace_if" /\ job'.old = old /\ job'.new = new
        /\ job'.todo = S
    BY <1>1 DEF IsIdle, Idle
  <1>3. FinalOperands = operands
    BY <1>2, FinalIdle
  <1>4. S \in SUBSET Abstract!UsersOf(old)
    <2>1. SUFFICES ASSUME NEW u \in Users, NEW i \in 1 .. MaxOps, <<u, i>> \in S
                   PROVE  i \in DOMAIN operands[u] /\ operands[u][i] = old
      BY <1>3, SameNames DEF Abstract!UsersOf, Slots
    <2>2. Exact(old, u, i) /\ uses[old][<<u, i>>] > 0
      BY <1>1, <2>1, IdleExact DEF AllExact
    <2> QED BY <2>2 DEF Exact
  <1>5. FinalOperands' = ReplacedIn(S)' /\ FinalAlive' = alive'
    BY <1>2 DEF FinalOperands, FinalAlive, ReplacedIn, Graph!Replaced
  <1> QED BY <1>1, <1>2, <1>4, <1>5, SubstituteRefines DEF IInv

LEMMA DestroyRefines ==
  ASSUME IInv, NEW v \in Values, Destroy(v)
  PROVE  AbstractStep
  <1>1. /\ IsIdle /\ v \in alive /\ alive' = alive
        /\ job' = [op |-> "replace", old |-> v, new |-> Null, dtor |-> TRUE]
        /\ operands' = IF v \in Users THEN [operands EXCEPT ![v] = <<>>] ELSE operands
    BY DEF Destroy
  <1>2. /\ job.op = "idle" /\ job'.op = "replace" /\ job'.old = v /\ job'.new = Null
        /\ job'.dtor = TRUE
    BY <1>1 DEF IsIdle, Idle
  <1>3. FinalOperands = operands /\ FinalAlive = alive
    BY <1>2, FinalIdle
  <1>4. /\ FinalOperands' = [u \in Users |-> [i \in DOMAIN operands'[u] |->
               IF operands'[u][i] = v /\ <<u, i>> \in Slots THEN Null ELSE operands'[u][i]]]
        /\ FinalAlive' = alive \ {v}
    BY <1>1, <1>2 DEF FinalOperands, FinalAlive, Graph!Replaced
  <1>5. \A u \in Users : operands'[u] = IF u = v THEN <<>> ELSE operands[u]
    BY <1>1 DEF IInv, TypeOK
  <1>6. [i \in DOMAIN <<>> |->
            IF <<>>[i] = v /\ <<v, i>> \in Slots THEN Null ELSE <<>>[i]] = <<>>
    OBVIOUS
  <1>7. FinalOperands' = [u \in Users |-> IF u = v THEN <<>>
            ELSE [i \in DOMAIN operands[u] |->
                    IF operands[u][i] = v /\ <<u, i>> \in Slots THEN Null ELSE operands[u][i]]]
    BY <1>4, <1>5, <1>6
  <1>8. Abstract!Destroy(v)
    BY <1>1, <1>3, <1>4, <1>7, SameNames DEF Abstract!Destroy, Abstract!Replaced
  <1> QED BY <1>8, SameNames DEF AbstractStep, Abstract!Next

LEMMA ReplaceOneRefines ==
  ASSUME IInv, NEW s \in Slots, ReplaceOne(s)
  PROVE  AbstractStep
  <1>1. PICK u \in Users, i \in 1 .. MaxOps : s = <<u, i>>
    BY DEF Slots
  <1>2. /\ job.op = "replace" /\ uses[job.old][<<u, i>>] > 0
        /\ SetOperandAt(u, i, job.new) /\ job' = job /\ alive' = alive
    BY <1>1 DEF ReplaceOne
  <1>3. Names(u, i, job.old)
    <2>1. Exact(job.old, u, i)
      BY <1>2, CountedIsExact DEF IInv, AllExact, TypeOK, Jobs, Idle
    <2> QED BY <1>2, <2>1 DEF Exact, Names
  <1>4. /\ \A w \in Users : DOMAIN operands'[w] = DOMAIN operands[w]
        /\ \A w \in Users : \A j \in DOMAIN operands[w] :
                operands'[w][j] = IF w = u /\ j = i THEN job.new ELSE operands[w][j]
    BY <1>2, <1>3, ReplaceFacts
  <1>5. /\ FinalOperands = ReplacedIn(Slots) /\ FinalOperands' = ReplacedIn(Slots)'
        /\ FinalAlive' = FinalAlive
    BY <1>2 DEF FinalOperands, FinalAlive, ReplacedIn, Graph!Replaced
  <1>6. \A w \in Users :
            [j \in DOMAIN operands'[w] |->
                IF operands'[w][j] = job.old /\ <<w, j>> \in Slots THEN job.new ELSE operands'[w][j]]
            = [j \in DOMAIN operands[w] |->
                IF operands[w][j] = job.old /\ <<w, j>> \in Slots THEN job.new ELSE operands[w][j]]
    BY <1>1, <1>3, <1>4 DEF Names
  <1>7. ReplacedIn(Slots)' = ReplacedIn(Slots)
    BY <1>2, <1>6 DEF ReplacedIn
  <1> QED BY <1>5, <1>7 DEF AbstractStep, Abstract!vars

LEMMA ReplaceIfOneRefines ==
  ASSUME IInv, NEW s \in Slots, ReplaceIfOne(s)
  PROVE  AbstractStep
  <1>1. PICK u \in Users, i \in 1 .. MaxOps : s = <<u, i>>
    BY DEF Slots
  <1>2. /\ job.op = "replace_if" /\ s \in job.todo
        /\ SetOperandAt(u, i, job.new) /\ alive' = alive
        /\ job' = [job EXCEPT !.todo = @ \ {s}]
    BY <1>1 DEF ReplaceIfOne
  <1>3. Names(u, i, job.old) /\ job.old # job.new
    BY <1>1, <1>2 DEF IInv, ReplaceIfInv
  <1>4. /\ job'.op = "replace_if" /\ job'.old = job.old /\ job'.new = job.new
        /\ job'.todo = job.todo \ {s}
    <2>1. job \in [op : {"replace_if"}, old : Values, new : Values, todo : SUBSET Slots]
      BY <1>2 DEF IInv, TypeOK, Jobs, Idle
    <2> QED BY <1>2, <2>1
  <1>5. /\ \A w \in Users : DOMAIN operands'[w] = DOMAIN operands[w]
        /\ \A w \in Users : \A j \in DOMAIN operands[w] :
                operands'[w][j] = IF w = u /\ j = i THEN job.new ELSE operands[w][j]
    BY <1>2, <1>3, <1>4, ReplaceFacts
  <1>6. /\ FinalOperands = ReplacedIn(job.todo) /\ FinalOperands' = ReplacedIn(job.todo)'
        /\ FinalAlive' = FinalAlive
    BY <1>2, <1>4 DEF FinalOperands, FinalAlive, ReplacedIn, Graph!Replaced
  <1>7. \A w \in Users :
            [j \in DOMAIN operands'[w] |->
                IF operands'[w][j] = job.old /\ <<w, j>> \in job.todo \ {s}
                THEN job.new ELSE operands'[w][j]]
            = [j \in DOMAIN operands[w] |->
                IF operands[w][j] = job.old /\ <<w, j>> \in job.todo
                THEN job.new ELSE operands[w][j]]
    BY <1>1, <1>2, <1>3, <1>5 DEF Names
  <1>8. FinalOperands' = FinalOperands
    <2>1. ReplacedIn(job.todo)' =
            [w \in Users |-> [j \in DOMAIN operands'[w] |->
                IF operands'[w][j] = job.old /\ <<w, j>> \in job.todo \ {s}
                THEN job.new ELSE operands'[w][j]]]
      BY <1>4 DEF ReplacedIn
    <2> QED BY <1>6, <1>7, <2>1 DEF ReplacedIn
  <1> QED BY <1>6, <1>8 DEF AbstractStep, Abstract!vars

LEMMA ReplaceEndRefines ==
  ASSUME IInv, ReplaceEnd
  PROVE  AbstractStep
  <1>1. /\ job.op = "replace" /\ \A s \in Slots : uses[job.old][s] = 0
        /\ alive' = IF job.dtor THEN alive \ {job.old} ELSE alive
        /\ job'.op = "idle" /\ operands' = operands
    BY DEF ReplaceEnd, Idle
  <1>2. \A u \in Users : \A i \in DOMAIN operands[u] :
            ~(operands[u][i] = job.old /\ <<u, i>> \in Slots)
    <2>1. SUFFICES ASSUME NEW u \in Users, NEW i \in DOMAIN operands[u], <<u, i>> \in Slots
                   PROVE  operands[u][i] # job.old
      OBVIOUS
    <2>2. i \in 1 .. MaxOps
      BY Lists DEF IInv
    <2>3. Exact(job.old, u, i)
      BY <1>1, <2>2, CountedIsExact DEF IInv, AllExact, TypeOK, Jobs, Idle
    <2> QED BY <1>1, <2>1, <2>3 DEF Exact
  <1>3. FinalOperands = operands
    <2>1. FinalOperands = ReplacedIn(Slots)
      BY <1>1, FinalReplace
    <2>2. ReplacedIn(Slots) = [u \in Users |-> [i \in DOMAIN operands[u] |-> operands[u][i]]]
      BY <1>2 DEF ReplacedIn
    <2> QED BY <2>1, <2>2, ListIsFunction DEF IInv
  <1>4. FinalAlive = alive'
    BY <1>1, FinalReplace
  <1>5. FinalOperands' = operands' /\ FinalAlive' = alive'
    BY <1>1 DEF FinalOperands, FinalAlive
  <1> QED BY <1>1, <1>3, <1>4, <1>5 DEF AbstractStep, Abstract!vars

LEMMA ReplaceIfEndRefines ==
  ASSUME IInv, ReplaceIfEnd
  PROVE  AbstractStep
  <1>1. /\ job.op = "replace_if" /\ job.todo = {} /\ job'.op = "idle"
        /\ operands' = operands /\ alive' = alive
    BY DEF ReplaceIfEnd, Idle
  <1>2. FinalOperands = operands /\ FinalAlive = alive
    <2>1. FinalOperands = ReplacedIn(job.todo) /\ FinalAlive = alive
      BY <1>1, FinalReplaceIf
    <2>2. ReplacedIn(job.todo) = [u \in Users |-> [i \in DOMAIN operands[u] |-> operands[u][i]]]
      BY <1>1 DEF ReplacedIn
    <2> QED BY <2>1, <2>2, ListIsFunction DEF IInv
  <1>3. FinalOperands' = operands' /\ FinalAlive' = alive'
    BY <1>1 DEF FinalOperands, FinalAlive
  <1> QED BY <1>1, <1>2, <1>3 DEF AbstractStep, Abstract!vars

LEMMA DropIncomingPairRefines ==
  ASSUME IInv, NEW u \in Phis, NEW i \in 1 .. MaxOps, DropIncomingPair(u, i)
  PROVE  AbstractStep
  <1>1. /\ IsIdle /\ u \in alive /\ i + 1 \in DOMAIN operands[u]
        /\ job' = [op |-> "remove", user |-> u, calls |-> <<i, i>>, next |-> i + 1]
        /\ operands' = operands /\ alive' = alive
    BY DEF DropIncomingPair, RemoveCalls
  <1>2. /\ job.op = "idle" /\ job'.op = "remove" /\ job'.user = u /\ job'.calls = <<i, i>>
        /\ Len(job'.calls) = 2 /\ job'.calls[1] = i /\ job'.calls[2] = i
    BY <1>1 DEF IsIdle, Idle
  <1>3. FinalOperands = operands /\ FinalAlive = alive
    BY <1>2, FinalIdle
  <1>4. /\ FinalOperands' = [operands' EXCEPT ![u] = RemoveAt(RemoveAt(@, i), i)]
        /\ FinalAlive' = alive'
    BY <1>2 DEF FinalOperands, FinalAlive
  <1>5. FinalOperands' = [FinalOperands EXCEPT ![u] = Abstract!WithoutPair(@, i)]
    <2>1. \A ops : Abstract!WithoutPair(ops, i) = RemoveAt(RemoveAt(ops, i), i)
      BY DEF Abstract!WithoutPair, Abstract!RemoveAt, RemoveAt
    <2>2. FinalOperands' = [operands EXCEPT ![u] = RemoveAt(RemoveAt(@, i), i)]
      BY <1>1, <1>4
    <2> QED BY <1>3, <2>1, <2>2
  <1>6. u \in FinalAlive /\ i + 1 \in DOMAIN FinalOperands[u] /\ FinalAlive' = FinalAlive
    BY <1>1, <1>3, <1>4
  <1>7. Abstract!RemovePair(u, i)
    BY <1>5, <1>6 DEF Abstract!RemovePair
  <1> QED BY <1>7, SameNames DEF AbstractStep, Abstract!Next

LEMMA RenumberOneRefines ==
  ASSUME IInv, RenumberOne
  PROVE  AbstractStep
  <1>1. /\ job.op = "remove" /\ job' = [job EXCEPT !.next = @ + 1]
        /\ operands' = operands /\ alive' = alive
    BY DEF RenumberOne
  <1>2. job'.op = "remove" /\ job'.user = job.user /\ job'.calls = job.calls
    <2>1. job \in [op : {"remove"}, user : Phis,
                   calls : (1 .. MaxOps) \X (1 .. MaxOps) \cup [{1} -> 1 .. MaxOps],
                   next : 1 .. MaxOps + 1]
      BY <1>1 DEF IInv, TypeOK, Jobs, Idle
    <2> QED BY <1>1, <2>1
  <1>3. FinalOperands' = FinalOperands /\ FinalAlive' = FinalAlive
    BY <1>1, <1>2 DEF FinalOperands, FinalAlive
  <1> QED BY <1>3 DEF AbstractStep, Abstract!vars

LEMMA RemoveEndRefines ==
  ASSUME IInv, RemoveEnd
  PROVE  AbstractStep
  <1> DEFINE u == job.user
             i == Head(job.calls)
  <1>1. /\ operands' = [operands EXCEPT ![u] = RemoveAt(@, i)]
        /\ alive' = alive
        /\ \/ Len(job.calls) = 1 /\ job' = Idle
           \/ /\ Len(job.calls) = 2
              /\ job' = [op |-> "remove", user |-> u, calls |-> <<i>>, next |-> i + 1]
    BY RemoveEndFacts
  <1>2. /\ job.op = "remove" /\ u \in Users
        /\ \/ Len(job.calls) = 2 /\ job.calls = <<i, i>>
           \/ Len(job.calls) = 1 /\ job.calls = <<i>>
    BY RemoveFacts DEF RemoveEnd
  <1> HIDE DEF i
  <1>3. /\ FinalOperands =
                IF job.calls = <<i, i>>
                THEN [operands EXCEPT ![u] = RemoveAt(RemoveAt(@, i), i)]
                ELSE [operands EXCEPT ![u] = RemoveAt(@, i)]
        /\ FinalAlive = alive
    BY <1>2, FinalRemove
  <1>4. <<i, i>> # <<i>> /\ Len(<<i>>) = 1 /\ <<i>>[1] = i
    OBVIOUS
  <1>5. CASE Len(job.calls) = 1 /\ job' = Idle
    <2>1. FinalOperands' = operands' /\ FinalAlive' = alive'
      BY <1>5 DEF FinalOperands, FinalAlive, Idle
    <2>2. FinalOperands = operands'
      BY <1>1, <1>2, <1>3, <1>4, <1>5
    <2> QED BY <1>1, <1>3, <2>1, <2>2 DEF AbstractStep, Abstract!vars
  <1>6. CASE /\ Len(job.calls) = 2
             /\ job' = [op |-> "remove", user |-> u, calls |-> <<i>>, next |-> i + 1]
    <2>1. job'.op = "remove" /\ job'.user = u /\ job'.calls = <<i>>
      BY <1>6
    <2>2. /\ FinalOperands' = [operands' EXCEPT ![u] = RemoveAt(@, i)]
          /\ FinalAlive' = alive'
      BY <1>4, <2>1 DEF FinalOperands, FinalAlive
    <2>3. FinalOperands = [operands EXCEPT ![u] = RemoveAt(RemoveAt(@, i), i)]
      BY <1>2, <1>3, <1>6
    <2>4. FinalOperands' = FinalOperands
      BY <1>1, <1>2, <2>2, <2>3 DEF IInv, TypeOK
    <2> QED BY <1>1, <1>3, <2>2, <2>4 DEF AbstractStep, Abstract!vars
  <1> QED BY <1>1, <1>5, <1>6

(* Every call has, on the operand lists, the effect it has in OperandGraph,  *)
(* at once: replace_all_use_with reaches every user, remove_operand takes    *)
(* only the pair, ~Value leaves null where the object was, and no iteration  *)
(* of a loop shows.                                                          *)
THEOREM RefinesOperandGraph == Spec => ImplementsOperandGraph
  <1>1. Init => Abstract!Init
    <2> SUFFICES ASSUME Init PROVE Abstract!Init
      OBVIOUS
    <2>1. FinalOperands = operands /\ FinalAlive = alive
      BY FinalIdle DEF Init, Idle
    <2> QED BY <2>1, SameNames DEF Init, Abstract!Init
  <1>2. IInv /\ [Next]_vars => [Abstract!Next]_(Abstract!vars)
    <2> SUFFICES ASSUME IInv, [Next]_vars PROVE AbstractStep
      BY DEF AbstractStep
    <2>1. CASE Call
      BY <2>1, AddOperandRefines, AddPhiPairRefines, SetOperandRefines,
         RemoveAllOperandsRefines, ReplaceAllUseWithRefines, ReplaceUseWithIfRefines,
         DestroyRefines, DropIncomingPairRefines DEF Call
    <2>2. CASE Loop
      BY <2>2, ReplaceOneRefines, ReplaceEndRefines, ReplaceIfOneRefines,
         ReplaceIfEndRefines, RenumberOneRefines, RemoveEndRefines DEF Loop
    <2>3. CASE UNCHANGED vars
      BY <2>3 DEF vars, AbstractStep, Abstract!vars, FinalOperands, FinalAlive
    <2> QED BY <2>1, <2>2, <2>3 DEF Next
  <1> QED BY <1>1, <1>2, BookkeepingInvariance, PTL DEF Spec, ImplementsOperandGraph, Abstract!Spec
=============================================================================
