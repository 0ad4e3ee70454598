------------------------------- MODULE Lemmas --------------------------------
(***************************************************************************)
(* What the proofs share: induction, what recursive functions define,      *)
(* facts about sequences, and what Reached computes.                       *)
(***************************************************************************)
EXTENDS Integers, Dominance, SequenceTheorems, FiniteSetTheorems, NaturalsInduction,
        WellFoundedInduction, TLAPS

-----------------------------------------------------------------------------
(* Induction up to N, and what recursive definitions over 0 .. N define.    *)

LEMMA UpTo ==
  ASSUME NEW N \in Nat, NEW T, 0 \in T, \A n \in 1 .. N : n - 1 \in T => n \in T
  PROVE  0 .. N \subseteq T
  <1> DEFINE Out == {n \in 0 .. N : n \notin T}
  <1> SUFFICES ASSUME Out # {} PROVE FALSE
    OBVIOUS
  <1>1. Out \in SUBSET Nat
    OBVIOUS
  <1>2. PICK m \in Out : \A l \in Out : <<l, m>> \notin OpToRel(<, Nat)
    <2> HIDE DEF Out
    <2> QED BY <1>1, NatLessThanWellFounded, WFMin, Zenon
  <1>3. m \in 1 .. N /\ m - 1 \in Nat /\ m - 1 < m
    OBVIOUS
  <1>4. m - 1 \in Out
    BY <1>3
  <1> QED BY <1>1, <1>2, <1>3, <1>4 DEF OpToRel

Steps(N, S) == [1 .. N -> [S -> S]]

IsRun(f, N, S, base, step) ==
    f \in [0 .. N -> S] /\ f[0] = base /\ \A i \in 1 .. N : f[i] = step[i][f[i - 1]]

(* What a recursive definition over 0 .. N defines. *)
LEMMA Run ==
  ASSUME NEW N \in Nat, NEW S, NEW base \in S, NEW step \in Steps(N, S)
  PROVE  \E f : IsRun(f, N, S, base, step)
  <1> USE DEF Steps
  <1> DEFINE T == {n \in 0 .. N : \E f \in [0 .. n -> S] :
                     \A i \in 0 .. n : f[i] = IF i = 0 THEN base ELSE step[i][f[i - 1]]}
  <1>1. 0 \in T
    <2> DEFINE e == [i \in 0 .. 0 |-> base]
    <2>1. e \in [0 .. 0 -> S] /\ e[0] = base /\ \A i \in 0 .. 0 : i = 0
      OBVIOUS
    <2> HIDE DEF e
    <2>2. \A i \in 0 .. 0 : e[i] = IF i = 0 THEN base ELSE step[i][e[i - 1]]
      BY <2>1
    <2> QED BY <2>1, <2>2
  <1>2. ASSUME NEW n \in 1 .. N, n - 1 \in T PROVE n \in T
    <2>1. PICK f \in [0 .. n - 1 -> S] :
                     \A i \in 0 .. n - 1 : f[i] = IF i = 0 THEN base ELSE step[i][f[i - 1]]
      BY <1>2
    <2> DEFINE g == [i \in 0 .. n |-> IF i = n THEN step[n][f[n - 1]] ELSE f[i]]
    <2>2. n - 1 \in 0 .. n - 1 /\ f[n - 1] \in S /\ step[n][f[n - 1]] \in S
      OBVIOUS
    <2>3. g \in [0 .. n -> S]
      BY <2>2
    <2>4. \A i \in 0 .. n : g[i] = IF i = 0 THEN base ELSE step[i][g[i - 1]]
      BY <2>1, <2>2
    <2> HIDE DEF g
    <2>5. \E h \in [0 .. n -> S] : \A i \in 0 .. n : h[i] = IF i = 0 THEN base ELSE step[i][h[i - 1]]
      BY <2>3, <2>4
    <2>6. n \in 0 .. N
      OBVIOUS
    <2> QED BY <2>5, <2>6, Zenon
  <1> HIDE DEF T
  <1>3. N \in T
    <2>1. 0 .. N \subseteq T
      BY <1>1, <1>2, UpTo
    <2> QED BY <2>1
  <1>4. PICK f \in [0 .. N -> S] :
                     \A i \in 0 .. N : f[i] = IF i = 0 THEN base ELSE step[i][f[i - 1]]
    BY <1>3 DEF T
  <1>5. f[0] = base /\ \A i \in 1 .. N : f[i] = step[i][f[i - 1]]
    BY <1>4
  <1> QED BY <1>5 DEF IsRun

(* Where the sequences lie in what FlattenSeq makes of them. *)
IsLayout(off, seqs, flat) ==
    /\ off \in [0 .. Len(seqs) -> Nat]
    /\ off[0] = 0
    /\ \A i \in 1 .. Len(seqs) : off[i] = off[i - 1] + Len(seqs[i])
    /\ Len(flat) = off[Len(seqs)]
    /\ \A i \in 1 .. Len(seqs) : \A k \in 1 .. Len(seqs[i]) :
            off[i - 1] + k \in 1 .. Len(flat) /\ flat[off[i - 1] + k] = seqs[i][k]

LEMMA FlattenLayout ==
  ASSUME NEW S, NEW seqs \in Seq(Seq(S)), seqs # <<>>
  PROVE  FlattenSeq(seqs) \in Seq(S) /\ \E off : IsLayout(off, seqs, FlattenSeq(seqs))
  <1> DEFINE n == Len(seqs)
             flat == CHOOSE f : f = [i \in 1 .. n |-> IF i = 1 THEN seqs[i] ELSE f[i - 1] \o seqs[i]]
             step == [i \in 1 .. n - 1 |-> [s \in Seq(S) |-> s \o seqs[i + 1]]]
  <1>1. n \in Nat \ {0} /\ \A i \in 1 .. n : seqs[i] \in Seq(S) /\ Len(seqs[i]) \in Nat
    OBVIOUS
  <1>2. step \in [1 .. n - 1 -> [Seq(S) -> Seq(S)]]
    <2> SUFFICES ASSUME NEW i \in 1 .. n - 1, NEW s \in Seq(S) PROVE s \o seqs[i + 1] \in Seq(S)
      OBVIOUS
    <2>1. seqs[i + 1] \in Seq(S)
      BY <1>1
    <2> QED BY <2>1
  <1>3. PICK g \in [0 .. n - 1 -> Seq(S)] :
            g[0] = seqs[1] /\ \A i \in 1 .. n - 1 : g[i] = step[i][g[i - 1]]
    <2> DEFINE N == n - 1
               R == Seq(S)
               b == seqs[1]
    <2>1. N \in Nat /\ b \in R /\ step \in Steps(N, R)
      BY <1>1, <1>2 DEF Steps
    <2> HIDE DEF step, N, R, b
    <2>2. \E h : IsRun(h, N, R, b, step)
      BY <2>1, Run, Zenon
    <2> QED BY <2>2 DEF N, R, b, IsRun
  <1> DEFINE f == [i \in 1 .. n |-> g[i - 1]]
  <1>4. f = [i \in 1 .. n |-> IF i = 1 THEN seqs[i] ELSE f[i - 1] \o seqs[i]]
    <2> SUFFICES ASSUME NEW i \in 1 .. n
                 PROVE  f[i] = IF i = 1 THEN seqs[i] ELSE f[i - 1] \o seqs[i]
      OBVIOUS
    <2>1. CASE i = 1
      <3>1. g[0] = seqs[1]
        BY <1>1, <1>3
      <3> QED BY <1>1, <2>1, <3>1
    <2>2. CASE i # 1
      <3>1. i - 1 \in 1 .. n - 1 /\ i - 2 \in 0 .. n - 1 /\ i - 1 \in 1 .. n
        BY <2>2
      <3>2. g[i - 1] = step[i - 1][g[i - 2]]
        <4>1. i - 1 \in 0 .. n - 1 /\ i - 1 # 0 /\ (i - 1) - 1 = i - 2
          BY <3>1
        <4> HIDE DEF step
        <4> QED BY <1>3, <4>1
      <3>3. step[i - 1][g[i - 2]] = g[i - 2] \o seqs[i]
        <4>1. g[i - 2] \in Seq(S) /\ (i - 1) + 1 = i
          <5>1. (i - 1) + 1 = i
            OBVIOUS
          <5> HIDE DEF n, f
          <5> QED BY <3>1, <5>1
        <4>2. step[i - 1] = [s \in Seq(S) |-> s \o seqs[(i - 1) + 1]]
          BY <3>1
        <4> HIDE DEF step
        <4> QED BY <4>1, <4>2
      <3>4. f[i - 1] = g[i - 2] /\ f[i] = g[i - 1]
        BY <3>1
      <3> QED BY <2>2, <3>2, <3>3, <3>4
    <2> QED BY <2>1, <2>2
  <1>5. flat = [i \in 1 .. n |-> IF i = 1 THEN seqs[i] ELSE flat[i - 1] \o seqs[i]]
    <2> HIDE DEF f
    <2> QED BY <1>4
  <1> HIDE DEF flat
  <1>6. DOMAIN flat = 1 .. n
    BY <1>5
  <1>17. flat[1] = seqs[1] /\ \A i \in 2 .. n : flat[i] = flat[i - 1] \o seqs[i]
    <2>1. \A i \in 1 .. n : flat[i] = IF i = 1 THEN seqs[i] ELSE flat[i - 1] \o seqs[i]
      BY <1>5, Zenon
    <2>2. \A i \in 2 .. n : i \in 1 .. n /\ i # 1
      BY <1>1
    <2>3. 1 \in 1 .. n
      BY <1>1
    <2> HIDE DEF n
    <2> QED BY <2>1, <2>2, <2>3, Zenon
  <1> DEFINE off == [i \in 0 .. n |-> IF i = 0 THEN 0 ELSE Len(flat[i])]
             Flat(i) == /\ flat[i] \in Seq(S)
                        /\ off[i] = off[i - 1] + Len(seqs[i])
                        /\ \A j \in 1 .. i : \A k \in 1 .. Len(seqs[j]) :
                               off[j - 1] + k \in 1 .. off[i] /\ flat[i][off[j - 1] + k] = seqs[j][k]
             T == {m \in 0 .. n : \A i \in 1 .. m : Flat(i)}
  <1>7. 0 \in T
    BY <1>1
  <1>8. ASSUME NEW m \in 1 .. n, m - 1 \in T PROVE m \in T
    <2>1. CASE m = 1
      <3>1. flat[1] = seqs[1] /\ seqs[1] \in Seq(S) /\ off[0] = 0 /\ off[1] = Len(seqs[1]) /\ Len(seqs[1]) \in Nat
        BY <1>1, <1>17
      <3> HIDE DEF off
      <3>2. \A i \in 1 .. m : i = 1
        BY <2>1
      <3>3. /\ flat[1] \in Seq(S) /\ off[1] = off[1 - 1] + Len(seqs[1])
            /\ \A j \in 1 .. 1 : \A k \in 1 .. Len(seqs[j]) :
                    off[j - 1] + k \in 1 .. off[1] /\ flat[1][off[j - 1] + k] = seqs[j][k]
        BY <3>1
      <3>4. m \in 0 .. n
        OBVIOUS
      <3>5. Flat(1)
        BY <3>3
      <3> HIDE DEF Flat
      <3>6. \A i \in 1 .. m : Flat(i)
        BY <3>2, <3>5
      <3> QED BY <3>4, <3>6
    <2>2. CASE m # 1
      <3> DEFINE p == flat[m - 1]
      <3>0. m - 1 \in 1 .. m - 1 /\ m \in 2 .. n
        BY <2>2
      <3>1. /\ p \in Seq(S) /\ off[m - 1] = Len(p) /\ Len(p) \in Nat
            /\ \A j \in 1 .. m - 1 : \A k \in 1 .. Len(seqs[j]) :
                    off[j - 1] + k \in 1 .. Len(p) /\ p[off[j - 1] + k] = seqs[j][k]
        <4>1. off[m - 1] = Len(p)
          BY <3>0
        <4>2. p \in Seq(S)
          BY <1>8, <3>0
        <4> HIDE DEF p
        <4> HIDE DEF off
        <4>3. \A j \in 1 .. m - 1 : \A k \in 1 .. Len(seqs[j]) :
                    off[j - 1] + k \in 1 .. off[m - 1] /\ p[off[j - 1] + k] = seqs[j][k]
          BY <1>8, <3>0 DEF p
        <4> QED BY <4>1, <4>2, <4>3
      <3>2. flat[m] = p \o seqs[m] /\ seqs[m] \in Seq(S) /\ Len(seqs[m]) \in Nat
        BY <1>1, <1>17, <3>0
      <3>3. off[m] = Len(p \o seqs[m])
        <4>1. off[m] = Len(flat[m])
          BY <2>2
        <4> HIDE DEF p, off
        <4> QED BY <3>2, <4>1
      <3> HIDE DEF off, p
      <3>4. off[m] = off[m - 1] + Len(seqs[m]) /\ flat[m] \in Seq(S)
        BY <3>1, <3>2, <3>3
      <3>5. ASSUME NEW j \in 1 .. m, NEW k \in 1 .. Len(seqs[j])
            PROVE  off[j - 1] + k \in 1 .. off[m] /\ flat[m][off[j - 1] + k] = seqs[j][k]
        <4>1. CASE j = m
          <5>1. k \in 1 .. Len(seqs[m]) /\ off[m - 1] \in Nat
            BY <3>1, <4>1
          <5>2. off[m - 1] + k \in 1 .. off[m]
            <6>1. off[m] = off[m - 1] + Len(seqs[m]) /\ Len(seqs[m]) \in Nat
              BY <3>2, <3>4
            <6> QED BY <5>1, <6>1
          <5>3. (p \o seqs[m])[Len(p) + k] = seqs[m][k]
            BY <3>1, <3>2, <5>1
          <5> QED BY <3>1, <3>2, <4>1, <5>2, <5>3
        <4>2. CASE j # m
          <5>1. j \in 1 .. m - 1
            BY <4>2
          <5>2. off[j - 1] + k \in 1 .. Len(p) /\ p[off[j - 1] + k] = seqs[j][k]
            BY <3>1, <5>1
          <5>3. off[j - 1] + k \in 1 .. off[m]
            <6> DEFINE x == off[j - 1] + k
            <6>1. x \in 1 .. Len(p)
              BY <5>2
            <6>2. off[m] = Len(p) + Len(seqs[m]) /\ Len(p) \in Nat /\ Len(seqs[m]) \in Nat
              BY <3>1, <3>2, <3>4
            <6> HIDE DEF x
            <6>3. x \in 1 .. off[m]
              BY <6>1, <6>2
            <6> QED BY <6>3 DEF x
          <5>4. flat[m][off[j - 1] + k] = p[off[j - 1] + k]
            <6> DEFINE x == off[j - 1] + k
            <6>1. x \in 1 .. Len(p)
              BY <5>2
            <6> HIDE DEF x
            <6>2. (p \o seqs[m])[x] = p[x]
              BY <3>1, <3>2, <6>1
            <6> QED BY <3>2, <6>2 DEF x
          <5> QED BY <5>2, <5>3, <5>4
        <4> QED BY <4>1, <4>2
      <3>6. \A i \in 1 .. m : i = m \/ i \in 1 .. m - 1
        OBVIOUS
      <3>10. Flat(m)
        BY <3>4, <3>5
      <3> HIDE DEF Flat
      <3>7. \A i \in 1 .. m - 1 : Flat(i)
        BY <1>8
      <3>8. \A i \in 1 .. m : Flat(i)
        BY <3>6, <3>7, <3>10
      <3>9. m \in 0 .. n
        OBVIOUS
      <3> QED BY <3>8, <3>9
    <2> QED BY <2>1, <2>2
  <1> HIDE DEF T
  <1>9. n \in T
    <2>1. 0 .. n \subseteq T
      BY <1>1, <1>7, <1>8, UpTo
    <2> QED BY <1>1, <2>1
  <1>10. FlattenSeq(seqs) = flat[n]
    BY <1>1 DEF FlattenSeq, flat
  <1>11. /\ \A i \in 1 .. n :
                     /\ flat[i] \in Seq(S)
                     /\ off[i] = off[i - 1] + Len(seqs[i])
         /\ \A j \in 1 .. n : \A k \in 1 .. Len(seqs[j]) :
                            off[j - 1] + k \in 1 .. off[n] /\ flat[n][off[j - 1] + k] = seqs[j][k]
    <2>1. \A i \in 1 .. n :
                     /\ flat[i] \in Seq(S)
                     /\ off[i] = off[i - 1] + Len(seqs[i])
                     /\ \A j \in 1 .. i : \A k \in 1 .. Len(seqs[j]) :
                            off[j - 1] + k \in 1 .. off[i] /\ flat[i][off[j - 1] + k] = seqs[j][k]
      BY <1>9, Zenon DEF T
    <2> HIDE DEF off, n
    <2>2. n \in 1 .. n
      BY <1>1
    <2> QED BY <2>1, <2>2, Zenon
  <1>12. off \in [0 .. n -> Nat] /\ off[0] = 0 /\ off[n] = Len(flat[n])
    BY <1>1, <1>11
  <1> HIDE DEF off
  <1>13. IsLayout(off, seqs, flat[n])
    BY <1>11, <1>12 DEF IsLayout
  <1> QED BY <1>1, <1>10, <1>11, <1>13

Lengths(seqs) == Len(seqs) \in Nat /\ \A i \in 1 .. Len(seqs) : Len(seqs[i]) \in Nat

Covers(off, seqs, flat) ==
    \A p \in 1 .. Len(flat) :
        \E i \in 1 .. Len(seqs) : \E k \in 1 .. Len(seqs[i]) : p = off[i - 1] + k

LEMMA LayoutCovers ==
  ASSUME NEW seqs, NEW off, NEW flat, IsLayout(off, seqs, flat),
         Lengths(seqs)
  PROVE  Covers(off, seqs, flat)
  <1> USE DEF Lengths, Covers
  <1> DEFINE n == Len(seqs)
             T == {m \in 0 .. n : \A p \in 1 .. off[m] :
                    \E i \in 1 .. n : \E k \in 1 .. Len(seqs[i]) : p = off[i - 1] + k}
  <1>1. n \in Nat /\ \A i \in 1 .. n : Len(seqs[i]) \in Nat
    OBVIOUS
  <1>2. /\ off \in [0 .. n -> Nat] /\ off[0] = 0 /\ Len(flat) = off[n]
        /\ \A i \in 1 .. n : off[i] = off[i - 1] + Len(seqs[i])
    BY DEF IsLayout
  <1>3. 0 \in T
    BY <1>1, <1>2
  <1>4. ASSUME NEW m \in 1 .. n, m - 1 \in T PROVE m \in T
    <2>1. SUFFICES ASSUME NEW p \in 1 .. off[m]
                   PROVE  \E i \in 1 .. n : \E k \in 1 .. Len(seqs[i]) : p = off[i - 1] + k
      OBVIOUS
    <2>11. m - 1 \in 0 .. n /\ m \in 0 .. n
      BY <1>1
    <2> HIDE DEF n, T
    <2>2. off[m] = off[m - 1] + Len(seqs[m]) /\ off[m - 1] \in Nat /\ Len(seqs[m]) \in Nat /\ off[m] \in Nat
      BY <1>1, <1>2, <2>11
    <2>3. CASE p <= off[m - 1]
      <3>1. p \in 1 .. off[m - 1]
        BY <2>2, <2>3
      <3> QED BY <1>4, <3>1 DEF T
    <2>4. CASE ~(p <= off[m - 1])
      <3>1. p - off[m - 1] \in 1 .. Len(seqs[m]) /\ p = off[m - 1] + (p - off[m - 1])
        BY <2>2, <2>4
      <3> QED BY <3>1
    <2> QED BY <2>3, <2>4
  <1> HIDE DEF T
  <1>5. n \in T
    <2>1. 0 .. n \subseteq T
      BY <1>1, <1>3, <1>4, UpTo
    <2> QED BY <1>1, <2>1
  <1> QED BY <1>2, <1>5 DEF T

(* The elements of FlattenSeq are those of the sequences; it repeats none   *)
(* if no sequence does and no two share one.                                *)
LEMMA FlattenFacts ==
  ASSUME NEW S, NEW seqs \in Seq(Seq(S))
  PROVE  /\ FlattenSeq(seqs) \in Seq(S)
         /\ ToSet(FlattenSeq(seqs)) = {x \in S : \E i \in DOMAIN seqs : x \in ToSet(seqs[i])}
         /\ ( /\ \A i \in DOMAIN seqs : IsInjective(seqs[i])
              /\ \A i, j \in DOMAIN seqs : \A x \in ToSet(seqs[i]) \cap ToSet(seqs[j]) : i = j )
            => IsInjective(FlattenSeq(seqs))
  <1>1. CASE seqs = <<>>
    <2>1. FlattenSeq(seqs) = seqs /\ seqs \in Seq(S)
      BY <1>1 DEF FlattenSeq
    <2>2. DOMAIN seqs = {}
      BY <1>1
    <2> QED BY <2>1, <2>2 DEF ToSet, IsInjective
  <1>2. CASE seqs # <<>>
    <2> DEFINE flat == FlattenSeq(seqs)
    <2>1. flat \in Seq(S) /\ \E off : IsLayout(off, seqs, flat)
      BY <1>2, FlattenLayout
    <2>2. PICK off : IsLayout(off, seqs, flat)
      BY <2>1
    <2> HIDE DEF flat
    <2>3. /\ DOMAIN seqs = 1 .. Len(seqs) /\ DOMAIN flat = 1 .. Len(flat)
          /\ \A i \in DOMAIN seqs : seqs[i] \in Seq(S)
      BY <2>1
    <2>12. \A i \in DOMAIN seqs : DOMAIN seqs[i] = 1 .. Len(seqs[i])
      BY <2>3
    <2>4. \A p \in DOMAIN flat : \E i \in DOMAIN seqs : \E k \in DOMAIN seqs[i] : p = off[i - 1] + k
      <3>1. \A p \in 1 .. Len(flat) :
            \E i \in 1 .. Len(seqs) : \E k \in 1 .. Len(seqs[i]) : p = off[i - 1] + k
        <4>1. Lengths(seqs)
          BY <2>3 DEF Lengths
        <4>2. Covers(off, seqs, flat)
          BY <2>2, <4>1, LayoutCovers
        <4> QED BY <4>2 DEF Covers
      <3> QED BY <2>3, <2>12, <3>1
    <2>5. \A i \in DOMAIN seqs : \A k \in DOMAIN seqs[i] :
            off[i - 1] + k \in DOMAIN flat /\ flat[off[i - 1] + k] = seqs[i][k]
      BY <2>2, <2>3, <2>12 DEF IsLayout
    <2>6. \A p \in DOMAIN flat : flat[p] \in S
      BY <2>1
    <2>7. ToSet(flat) = {x \in S : \E i \in DOMAIN seqs : x \in ToSet(seqs[i])}
      <3>1. ASSUME NEW x \in ToSet(flat) PROVE x \in S /\ \E i \in DOMAIN seqs : x \in ToSet(seqs[i])
        <4>1. PICK p \in DOMAIN flat : flat[p] = x
          BY DEF ToSet
        <4>2. PICK i \in DOMAIN seqs : \E k \in DOMAIN seqs[i] : p = off[i - 1] + k
          BY <2>4
        <4>3. PICK k \in DOMAIN seqs[i] : p = off[i - 1] + k
          BY <4>2
        <4>4. seqs[i][k] = x
          BY <2>5, <4>1, <4>2, <4>3
        <4> QED BY <2>6, <4>1, <4>4 DEF ToSet
      <3>2. ASSUME NEW x \in S, NEW i \in DOMAIN seqs, x \in ToSet(seqs[i]) PROVE x \in ToSet(flat)
        <4>1. PICK k \in DOMAIN seqs[i] : seqs[i][k] = x
          BY <3>2 DEF ToSet
        <4>2. off[i - 1] + k \in DOMAIN flat /\ flat[off[i - 1] + k] = x
          BY <2>5, <4>1
        <4> QED BY <4>2 DEF ToSet
      <3> QED BY <3>1, <3>2
    <2>8. ASSUME \A i \in DOMAIN seqs : IsInjective(seqs[i]),
                 \A i, j \in DOMAIN seqs : \A x \in ToSet(seqs[i]) \cap ToSet(seqs[j]) : i = j
          PROVE  IsInjective(flat)
      <3>1. SUFFICES ASSUME NEW p \in DOMAIN flat, NEW q \in DOMAIN flat, flat[p] = flat[q]
                     PROVE  p = q
        BY DEF IsInjective
      <3>20. PICK i \in DOMAIN seqs : \E k \in DOMAIN seqs[i] : p = off[i - 1] + k
        BY <2>4
      <3>2. PICK k \in DOMAIN seqs[i] : p = off[i - 1] + k
        BY <3>20
      <3>30. PICK j \in DOMAIN seqs : \E l \in DOMAIN seqs[j] : q = off[j - 1] + l
        BY <2>4
      <3>3. PICK l \in DOMAIN seqs[j] : q = off[j - 1] + l
        BY <3>30
      <3>4. seqs[i][k] = seqs[j][l]
        <4>1. flat[p] = seqs[i][k]
          BY <2>5, <3>2
        <4>2. flat[q] = seqs[j][l]
          BY <2>5, <3>3
        <4> QED BY <3>1, <4>1, <4>2
      <3>5. seqs[i][k] \in ToSet(seqs[i]) \cap ToSet(seqs[j])
        BY <3>4 DEF ToSet
      <3>6. i = j
        BY <2>8, <3>5, Zenon
      <3>7. k = l
        <4>1. IsInjective(seqs[i]) /\ l \in DOMAIN seqs[i] /\ seqs[i][k] = seqs[i][l]
          BY <2>8, <3>4, <3>6
        <4> QED BY <4>1 DEF IsInjective
      <3> QED BY <3>2, <3>3, <3>6, <3>7
    <2> QED BY <2>1, <2>7, <2>8 DEF flat
  <1> QED BY <1>1, <1>2

(* Lists, whatever is in them. *)
IsList(s) == \E S : s \in Seq(S)

LEMMA ListFacts ==
  ASSUME NEW s, IsList(s)
  PROVE  /\ Len(s) \in Nat /\ DOMAIN s = 1 .. Len(s) /\ s = [i \in DOMAIN s |-> s[i]]
         /\ \E S : s \in Seq(S)
  BY DEF IsList

LEMMA ListOf ==
  ASSUME NEW n \in Nat, NEW f, f = [i \in 1 .. n |-> f[i]]
  PROVE  IsList(f) /\ Len(f) = n
  <1>1. f \in Seq({f[i] : i \in 1 .. n})
    OBVIOUS
  <1>2. DOMAIN f = 1 .. n
    OBVIOUS
  <1>3. Len(f) = n
    BY <1>1, <1>2
  <1> QED BY <1>1, <1>3 DEF IsList

LEMMA ListJoin ==
  ASSUME NEW s, NEW t, IsList(s), IsList(t)
  PROVE  IsList(s \o t)
  <1>1. PICK S : s \in Seq(S)
    BY DEF IsList
  <1>2. PICK T : t \in Seq(T)
    BY DEF IsList
  <1>3. s \in Seq(S \cup T) /\ t \in Seq(S \cup T)
    <2>1. s \in [1 .. Len(s) -> S] /\ t \in [1 .. Len(t) -> T] /\ Len(s) \in Nat /\ Len(t) \in Nat
      BY <1>1, <1>2
    <2> QED BY <2>1
  <1>4. s \o t \in Seq(S \cup T)
    BY <1>3
  <1> QED BY <1>4 DEF IsList

LEMMA ShortLists == IsList(<<>>) /\ (\A x : IsList(<<x>>)) /\ (\A x, y : IsList(<<x, y>>))
  <1>1. <<>> \in Seq({})
    OBVIOUS
  <1>2. ASSUME NEW x PROVE IsList(<<x>>)
    <2>1. <<x>> \in Seq({x})
      OBVIOUS
    <2> QED BY <2>1 DEF IsList
  <1>3. ASSUME NEW x, NEW y PROVE IsList(<<x, y>>)
    <2>1. <<x, y>> \in Seq({x, y})
      OBVIOUS
    <2> QED BY <2>1 DEF IsList
  <1> QED BY <1>1, <1>2, <1>3 DEF IsList

(* What is in a sequence. *)
LEMMA SetOfSeq ==
  ASSUME NEW S, NEW s \in Seq(S), NEW t \in Seq(S)
  PROVE  /\ s \o t \in Seq(S)
         /\ ToSet(s \o t) = ToSet(s) \cup ToSet(t)
         /\ \A x \in S : Append(s, x) \in Seq(S) /\ ToSet(Append(s, x)) = ToSet(s) \cup {x}
  <1>1. \A i \in 1 .. Len(s) : (s \o t)[i] = s[i]
    OBVIOUS
  <1>2. \A i \in 1 .. Len(t) : (s \o t)[Len(s) + i] = t[i]
    OBVIOUS
  <1>3. \A i \in DOMAIN (s \o t) : i \in DOMAIN s \/ ((i - Len(s)) \in DOMAIN t /\ i = Len(s) + (i - Len(s)))
    OBVIOUS
  <1>4. ToSet(s \o t) = ToSet(s) \cup ToSet(t)
    <2>1. ToSet(s \o t) \subseteq ToSet(s) \cup ToSet(t)
      BY <1>1, <1>2, <1>3 DEF ToSet
    <2>2. DOMAIN (s \o t) = 1 .. Len(s) + Len(t) /\ DOMAIN s = 1 .. Len(s) /\ DOMAIN t = 1 .. Len(t)
          /\ Len(s) \in Nat /\ Len(t) \in Nat
      OBVIOUS
    <2>3. \A i \in DOMAIN s : i \in DOMAIN (s \o t) /\ (s \o t)[i] = s[i]
      BY <1>1, <2>2
    <2>4. \A i \in DOMAIN t : Len(s) + i \in DOMAIN (s \o t) /\ (s \o t)[Len(s) + i] = t[i]
      BY <1>2, <2>2
    <2>5. ToSet(s) \cup ToSet(t) \subseteq ToSet(s \o t)
      BY <2>3, <2>4 DEF ToSet
    <2> QED BY <2>1, <2>5
  <1>5. ASSUME NEW x \in S
        PROVE  Append(s, x) \in Seq(S) /\ ToSet(Append(s, x)) = ToSet(s) \cup {x}
    <2>1. /\ Append(s, x) \in Seq(S) /\ DOMAIN Append(s, x) = 1 .. Len(s) + 1
          /\ Append(s, x)[Len(s) + 1] = x
          /\ \A i \in 1 .. Len(s) : Append(s, x)[i] = s[i]
      OBVIOUS
    <2> QED BY <2>1 DEF ToSet
  <1> QED BY <1>4, <1>5

LEMMA Queue ==
  ASSUME NEW S, NEW s \in Seq(S), s # <<>>
  PROVE  /\ Head(s) \in S /\ Tail(s) \in Seq(S)
         /\ ToSet(s) = {Head(s)} \cup ToSet(Tail(s))
         /\ IsInjective(s) => IsInjective(Tail(s)) /\ Head(s) \notin ToSet(Tail(s))
  <1>1. /\ Head(s) = s[1] /\ Tail(s) \in Seq(S) /\ Len(s) \in Nat \ {0}
        /\ DOMAIN s = 1 .. Len(s) /\ DOMAIN Tail(s) = 1 .. Len(s) - 1
        /\ \A i \in 1 .. Len(s) - 1 : Tail(s)[i] = s[i + 1]
    OBVIOUS
  <1>2. \A i \in DOMAIN s : i = 1 \/ (i - 1 \in DOMAIN Tail(s) /\ Tail(s)[i - 1] = s[i])
    BY <1>1
  <1>3. \A i \in DOMAIN Tail(s) : i + 1 \in DOMAIN s /\ Tail(s)[i] = s[i + 1] /\ i + 1 # 1
    BY <1>1
  <1>4. 1 \in DOMAIN s /\ s[1] \in S
    BY <1>1
  <1>5. ToSet(s) = {Head(s)} \cup ToSet(Tail(s))
    BY <1>1, <1>2, <1>3, <1>4 DEF ToSet
  <1>6. ASSUME IsInjective(s)
        PROVE  IsInjective(Tail(s)) /\ Head(s) \notin ToSet(Tail(s))
    <2>1. \A i, j \in DOMAIN s : s[i] = s[j] => i = j
      BY <1>6 DEF IsInjective
    <2>2. ASSUME NEW i \in DOMAIN Tail(s), NEW j \in DOMAIN Tail(s), Tail(s)[i] = Tail(s)[j]
          PROVE  i = j
      <3>1. i + 1 = j + 1
        BY <1>3, <2>1, <2>2
      <3> QED BY <1>1, <3>1
    <2>3. Head(s) \notin ToSet(Tail(s))
      BY <1>1, <1>3, <1>4, <2>1 DEF ToSet
    <2> QED BY <2>2, <2>3 DEF IsInjective
  <1> QED BY <1>1, <1>4, <1>5, <1>6

-----------------------------------------------------------------------------
(* A family of subsets of a finite set has a largest element. *)
LEMMA LargestSubset ==
  ASSUME NEW B, IsFiniteSet(B), NEW F \in SUBSET SUBSET B, F # {}
  PROVE  \E S \in F : \A T \in F : S \subseteq T => T = S
  <1> DEFINE R == StrictSubsetOrdering(B)
             G == {B \ S : S \in F}
  <1>1. IsWellFoundedOn(R, SUBSET B)
    BY FS_StrictSubsetOrderingWellFounded, FS_FiniteSubsetsOfFinite
  <1>2. G \subseteq SUBSET B /\ G # {}
    <2>1. \A x \in G : x \in SUBSET B
      OBVIOUS
    <2>2. PICK S \in F : TRUE
      OBVIOUS
    <2>3. B \ S \in G
      BY <2>2
    <2> HIDE DEF G
    <2> QED BY <2>1, <2>3
  <1> HIDE DEF G, R
  <1>3. PICK x \in G : \A y \in G : <<y, x>> \notin R
    BY <1>1, <1>2, WFMin
  <1>4. PICK S \in F : x = B \ S
    BY DEF G
  <1>5. \A T \in F : S \subseteq T => T = S
    <2> SUFFICES ASSUME NEW T \in F, S \subseteq T, T # S PROVE FALSE
      OBVIOUS
    <2>1. B \ T \in G /\ B \ T \subseteq x /\ B \ T # x
      BY <1>4 DEF G
    <2>2. <<B \ T, x>> \in R
      BY <1>2, <2>1 DEF R, StrictSubsetOrdering
    <2> QED BY <1>3, <2>1, <2>2
  <1> QED BY <1>5

-----------------------------------------------------------------------------
(* What Reached computes: the least set that contains start and is closed    *)
(* under the edges, without avoid.                                          *)
Beyond(g, S, avoid) == (UNION {ToSet(g[b]) : b \in S}) \ avoid

Least(g, S, avoid) ==
    {x \in DOMAIN g : \A T \in SUBSET DOMAIN g :
        S \subseteq T /\ Beyond(g, T, avoid) \subseteq T => x \in T}

LEMMA ReachedIsLeast ==
  ASSUME NEW B, IsFiniteSet(B), NEW g \in [B -> Seq(B)],
         NEW start \in SUBSET B, NEW avoid
  PROVE  Reached(g, start, avoid) = Least(g, start \ avoid, avoid)
  <1> DEFINE Fill(f) == [S \in SUBSET B |->
                IF Beyond(g, S, avoid) \subseteq S THEN S ELSE f[S \cup Beyond(g, S, avoid)]]
             least == [S \in SUBSET B |-> Least(g, S, avoid)]
             from == CHOOSE f : f = [S \in SUBSET DOMAIN g |->
                        LET more == (UNION {ToSet(g[b]) : b \in S}) \ avoid
                        IN  IF more \subseteq S THEN S ELSE f[S \cup more]]
  <1>1. DOMAIN g = B
    OBVIOUS
  <1>2. \A S \in SUBSET B : Beyond(g, S, avoid) \in SUBSET B
    <2>1. \A b \in B : ToSet(g[b]) \subseteq B
      BY ElementOfSeq, LenProperties DEF ToSet
    <2> QED BY <2>1 DEF Beyond
  <1>3. \A S \in SUBSET B : Beyond(g, S, avoid) \subseteq S => Least(g, S, avoid) = S
    BY <1>1 DEF Least
  <1>4. \A S \in SUBSET B :
            Least(g, S, avoid) = Least(g, S \cup Beyond(g, S, avoid), avoid)
    <2> SUFFICES ASSUME NEW S \in SUBSET B
                 PROVE  Least(g, S, avoid) = Least(g, S \cup Beyond(g, S, avoid), avoid)
      OBVIOUS
    <2>1. \A T : S \subseteq T => Beyond(g, S, avoid) \subseteq Beyond(g, T, avoid)
      BY DEF Beyond
    <2>2. \A T \in SUBSET B : Beyond(g, T, avoid) \subseteq T =>
            (S \subseteq T <=> S \cup Beyond(g, S, avoid) \subseteq T)
      BY <2>1
    <2> QED BY <1>1, <2>2 DEF Least
  <1>5. least = Fill(least)
    BY <1>2, <1>3, <1>4
  <1> HIDE DEF least
  <1>6. from = Fill(from)
    <2>1. \A f : Fill(f) = [S \in SUBSET DOMAIN g |->
                        LET more == (UNION {ToSet(g[b]) : b \in S}) \ avoid
                        IN  IF more \subseteq S THEN S ELSE f[S \cup more]]
      BY <1>1 DEF Beyond
    <2> HIDE DEF Fill
    <2>2. from = [S \in SUBSET DOMAIN g |->
                        LET more == (UNION {ToSet(g[b]) : b \in S}) \ avoid
                        IN  IF more \subseteq S THEN S ELSE from[S \cup more]]
      BY <1>5, <2>1
    <2> QED BY <2>1, <2>2
  <1>8. Reached(g, start, avoid) = from[start \ avoid]
    BY DEF Reached
  <1> HIDE DEF from
  <1>7. \A S \in SUBSET B : from[S] = least[S]
    <2> DEFINE Bad == {S \in SUBSET B : from[S] # least[S]}
    <2> SUFFICES ASSUME Bad # {} PROVE FALSE
      OBVIOUS
    <2>1. Bad \in SUBSET SUBSET B
      OBVIOUS
    <2> HIDE DEF Bad
    <2>2. PICK S \in Bad : \A T \in Bad : S \subseteq T => T = S
      BY <2>1, LargestSubset
    <2> DEFINE U == S \cup Beyond(g, S, avoid)
    <2>3. S \in SUBSET B /\ U \in SUBSET B
      BY <1>2, <2>1
    <2>4. from[S] = (IF Beyond(g, S, avoid) \subseteq S THEN S ELSE from[U])
      BY <1>6, <2>3
    <2>5. least[S] = (IF Beyond(g, S, avoid) \subseteq S THEN S ELSE least[U])
      BY <1>5, <2>3
    <2>6. CASE Beyond(g, S, avoid) \subseteq S
      BY <2>4, <2>5, <2>6 DEF Bad
    <2>7. CASE ~(Beyond(g, S, avoid) \subseteq S)
      <3>1. U \in Bad
        BY <2>3, <2>4, <2>5, <2>7 DEF Bad
      <3> QED BY <2>2, <2>7, <3>1
    <2> QED BY <2>6, <2>7
  <1>9. start \ avoid \in SUBSET B
    OBVIOUS
  <1> QED BY <1>7, <1>8, <1>9 DEF least
=============================================================================
