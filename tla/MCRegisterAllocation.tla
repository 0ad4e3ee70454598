------------------------ MODULE MCRegisterAllocation ------------------------
(* RegisterAllocation on functions as the builder and Mem2Reg leave them: a branch    *)
(* with two arms and one or two phis behind them, a loop with two phis, and a *)
(* branch nested in a branch.                                               *)
EXTENDS RegisterAllocation, TLC

CONSTANTS E, A, B, M, H, X, T, T1, E1, T2,      \* blocks
          a, c, d, x, y, p, q                   \* values; a is the argument

Ins(def, uses) == [def |-> def, uses |-> uses]
Term(uses) == Ins(Null, uses)
Phi(dst, inc) == [dst |-> dst, inc |-> inc]

(* A block may hold a definition of y before its terminator, or nothing. *)
Bodies(Uses) == {<<Term({})>>} \cup {<<Ins(y, u), Term({})>> : u \in Uses}

(* if (c) { A } else { B }; M uses the phi p. *)
Diamonds ==
    {[args |-> {a},
      order |-> <<E, A, B, M>>,
      succ |-> (E :> <<A, B>> @@ A :> <<M>> @@ B :> <<M>> @@ M :> <<>>),
      phis |-> (E :> <<>> @@ A :> <<>> @@ B :> <<>> @@
                M :> <<Phi(p, A :> i @@ B :> j)>>),
      body |-> (E :> <<Ins(x, {a}), Ins(c, u), Term({c})>> @@ A :> bodyA @@
                B :> <<Term({})>> @@ M :> <<Term(r)>>)] :
        u \in {{}, {a}, {x}}, bodyA \in Bodies({{a}, {a, x}}),
        i \in {a, x, y, Null}, j \in {a, x, Null}, r \in {{a}, {p}, {x, p}}}

(* while (c) { B }: the header H has the phis p and q. *)
Loops ==
    {[args |-> {a},
      order |-> <<E, H, B, X>>,
      succ |-> (E :> <<H>> @@ H :> s @@ B :> <<H>> @@ X :> <<>>),
      phis |-> (E :> <<>> @@ B :> <<>> @@ X :> <<>> @@
                H :> <<Phi(p, E :> i @@ B :> j), Phi(q, E :> k @@ B :> l)>>),
      body |-> (E :> <<Ins(x, {a}), Term({})>> @@ H :> <<Ins(c, u), Term({c})>> @@
                B :> bodyB @@ X :> <<Term(r)>>)] :
        s \in {<<B, X>>, <<X, B>>}, i \in {x}, k \in {a, Null},
        j \in {y, q, p}, l \in {y, p, q}, u \in {{p}, {x}},
        bodyB \in Bodies({{p}, {q, x}}), r \in {{p}, {a, q}}}

(* if (c) { if (d) { T1 } else { E1 } T2 } M: E and T2 may give p the same. *)
Nested ==
    {[args |-> {a},
      order |-> <<E, T, T1, E1, T2, M>>,
      succ |-> (E :> <<T, M>> @@ T :> <<T1, E1>> @@ T1 :> <<T2>> @@
                E1 :> <<T2>> @@ T2 :> <<M>> @@ M :> <<>>),
      phis |-> [b \in {E, T, T1, E1, T2} |-> <<>>] @@
                M :> <<Phi(p, E :> i @@ T2 :> j)>>,
      body |-> (E :> <<Ins(x, {a}), Ins(c, u), Term({c})>> @@
                T :> <<Ins(d, u), Term({d})>> @@ T1 :> bodyT1 @@
                E1 :> <<Term({})>> @@ T2 :> <<Term({})>> @@ M :> <<Term(r)>>)] :
        u \in {{}, {x}}, bodyT1 \in Bodies({{a}, {c, x}}),
        i \in {a, x, Null}, j \in {a, x, Null}, r \in SUBSET {a, p}}

(* if (c) { p = i; q = k; } else { p = j; q = l; }: nothing but the copies is *)
(* left in the arms, unless y is computed in one.                           *)
TwoPhis ==
    {[args |-> {a},
      order |-> <<E, A, B, M>>,
      succ |-> (E :> <<A, B>> @@ A :> <<M>> @@ B :> <<M>> @@ M :> <<>>),
      phis |-> (E :> <<>> @@ A :> <<>> @@ B :> <<>> @@
                M :> <<Phi(p, A :> i @@ B :> j), Phi(q, A :> k @@ B :> l)>>),
      body |-> (E :> <<Ins(d, {a}), Ins(x, {a}), Ins(c, {x}), Term({c})>> @@
                A :> bodyA @@ B :> <<Term({})>> @@ M :> <<Term({p, q})>>)] :
        i \in {x, d}, j \in {x, d}, k \in {a, y, d}, l \in {d, x, Null},
        bodyA \in Bodies({{d}})}

(* A use of y is met only after its definition. *)
Defined(g) ==
    \/ \E b \in ToSet(g.order) : \E n \in DOMAIN g.body[b] : g.body[b][n].def = y
    \/ \A b \in ToSet(g.order) : \A f \in ToSet(g.phis[b]) :
            \A pred \in DOMAIN f.inc : f.inc[pred] # y

MCAddress == a :> 4 @@ c :> 2 @@ d :> 5 @@ x :> 3 @@ y :> 6 @@ p :> 1 @@ q :> 7

(* A copy that the entry of a block shares is the subject of SharedCopies. *)
MCPrograms ==
    {g \in Diamonds \cup TwoPhis \cup Loops \cup Nested : Defined(g) /\ EntryCopiesDiffer(g)}

SharedCopies == {g \in TwoPhis : Defined(g)}
=============================================================================
