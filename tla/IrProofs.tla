------------------------------ MODULE IrProofs ------------------------------
(***************************************************************************)
(* The control-flow graph of a function from the builder to the back end.  *)
(*                                                                         *)
(* For every program the builder leaves no block without a terminator,     *)
(* gives none a second one, and its edge lists are those of the branches.  *)
(* For every program and every pipeline each pass leaves the function so:  *)
(* PassInv says what holds in the middle of a pass, Wired what holds       *)
(* between two.  SimplifyPhi leaves no trivial phi and SplitCriticalEdges  *)
(* no critical edge.                                                       *)
(***************************************************************************)
EXTENDS Compile, SimplifyPhi, SplitCriticalEdges, Lemmas

-----------------------------------------------------------------------------
(* The elements kept are those of the list at the positions. *)
LEMMA KeptFacts ==
  ASSUME NEW S, NEW list \in Seq(S), NEW at
  PROVE  /\ Kept(list, at) \in Seq(S)
         /\ ToSet(Kept(list, at)) = {list[i] : i \in DOMAIN list \cap at}
         /\ IsInjective(list) => IsInjective(Kept(list, at))
         /\ (\A i, j \in DOMAIN list \cap at : list[i] = list[j] => i = j) => IsInjective(Kept(list, at))
  <1> DEFINE seqs == [i \in DOMAIN list |-> IF i \in at THEN <<list[i]>> ELSE <<>>]
  <1>1. DOMAIN seqs = DOMAIN list /\ DOMAIN list = 1 .. Len(list) /\ Len(list) \in Nat
    OBVIOUS
  <1>2. \A i \in DOMAIN list : list[i] \in S
    OBVIOUS
  <1>3. seqs \in Seq(Seq(S))
    <2>1. \A i \in 1 .. Len(list) : (IF i \in at THEN <<list[i]>> ELSE <<>>) \in Seq(S)
      BY <1>1, <1>2
    <2> QED BY <1>1, <2>1
  <1>4. \A i \in DOMAIN list :
            /\ IsInjective(seqs[i])
            /\ ToSet(seqs[i]) = IF i \in at THEN {list[i]} ELSE {}
    <2> SUFFICES ASSUME NEW i \in DOMAIN list
                 PROVE  IsInjective(seqs[i]) /\ ToSet(seqs[i]) = IF i \in at THEN {list[i]} ELSE {}
      OBVIOUS
    <2>1. CASE i \in at
      <3>1. seqs[i] = <<list[i]>>
        BY <2>1
      <3>2. DOMAIN <<list[i]>> = {1} /\ <<list[i]>>[1] = list[i]
        OBVIOUS
      <3> QED BY <2>1, <3>1, <3>2 DEF IsInjective, ToSet
    <2>2. CASE i \notin at
      <3>1. seqs[i] = <<>>
        BY <2>2
      <3> QED BY <2>2, <3>1 DEF IsInjective, ToSet
    <2> QED BY <2>1, <2>2
  <1>5. Kept(list, at) = FlattenSeq(seqs)
    BY DEF Kept
  <1> HIDE DEF seqs
  <1>6. /\ FlattenSeq(seqs) \in Seq(S)
        /\ ToSet(FlattenSeq(seqs)) = {x \in S : \E i \in DOMAIN seqs : x \in ToSet(seqs[i])}
        /\ ( /\ \A i \in DOMAIN seqs : IsInjective(seqs[i])
             /\ \A i, j \in DOMAIN seqs : \A x \in ToSet(seqs[i]) \cap ToSet(seqs[j]) : i = j )
            => IsInjective(FlattenSeq(seqs))
    BY <1>3, FlattenFacts, Zenon
  <1>7. {x \in S : \E i \in DOMAIN seqs : x \in ToSet(seqs[i])} = {list[i] : i \in DOMAIN list \cap at}
    BY <1>1, <1>2, <1>4
  <1>8. ASSUME \A i, j \in DOMAIN list \cap at : list[i] = list[j] => i = j
        PROVE  IsInjective(Kept(list, at))
    <2>1. \A i, j \in DOMAIN seqs : \A x \in ToSet(seqs[i]) \cap ToSet(seqs[j]) : i = j
      BY <1>1, <1>4, <1>8
    <2> QED BY <1>1, <1>4, <1>5, <1>6, <2>1
  <1>9. IsInjective(list) => \A i, j \in DOMAIN list \cap at : list[i] = list[j] => i = j
    BY DEF IsInjective
  <1> QED BY <1>5, <1>6, <1>7, <1>8, <1>9

LEMMA ListKept ==
  ASSUME NEW s, IsList(s), NEW at
  PROVE  IsList(Kept(s, at))
  <1>1. PICK S : s \in Seq(S)
    BY DEF IsList
  <1>2. Kept(s, at) \in Seq(S)
    BY <1>1, KeptFacts
  <1> QED BY <1>2 DEF IsList

-----------------------------------------------------------------------------
(* Terminators, up to what values are; no branch has more than two targets. *)
IsTerminator(t) ==
    /\ t = [op |-> t.op, val |-> t.val, to |-> t.to]
    /\ t.to \in Seq(AllBlocks) /\ Len(t.to) <= 2

(* The functions of the IR, up to what instructions and phis are. *)
IsFunction(g) ==
    /\ g = [blocks |-> g.blocks, succ |-> g.succ, pred |-> g.pred, term |-> g.term,
            phis |-> g.phis, body |-> g.body]
    /\ g.blocks \in Seq(AllBlocks)
    /\ g.succ \in [AllBlocks -> Seq(AllBlocks)]
    /\ g.pred \in [AllBlocks -> Seq(AllBlocks)]
    /\ g.term = [b \in AllBlocks |-> g.term[b]]
    /\ \A b \in AllBlocks : IsTerminator(g.term[b])
    /\ g.body = [b \in AllBlocks |-> g.body[b]]
    /\ g.phis = [b \in AllBlocks |-> g.phis[b]]
    /\ \A b \in AllBlocks : IsList(g.body[b]) /\ IsList(g.phis[b])

(* The edge lists of g are those of its branches, for all blocks, and what   *)
(* is no terminator is NoTerm.                                              *)
EdgesExact(g) ==
    \A b \in AllBlocks :
        /\ ToSet(g.succ[b]) = ToSet(g.term[b].to)
        /\ ToSet(g.pred[b]) = {p \in AllBlocks : b \in ToSet(g.term[p].to)}
        /\ g.term[b].op = "none" => g.term[b] = NoTerm

-----------------------------------------------------------------------------
(* The builder. *)

(* The blocks are numbered as they are created, three at most for a         *)
(* statement; only they have terminators, and are named by them.            *)
BlocksNumbered ==
    /\ stmts \in 0 .. MaxStmts
    /\ Len(ir.blocks) \in 1 .. 1 + 3 * stmts
    /\ \A i \in 1 .. Len(ir.blocks) : ir.blocks[i] = i
    /\ insert \in 1 .. Len(ir.blocks)
    /\ \A b \in AllBlocks : IsTerminated(ir, b) =>
            b <= Len(ir.blocks) /\ ToSet(ir.term[b].to) \subseteq 1 .. Len(ir.blocks)

(* The blocks that a statement being visited will go on with. *)
Pending(statement) ==
    IF statement.part \in {"then", "cond"} THEN {statement.block + 1, statement.block + 2}
    ELSE {statement.block + 2}

Frames == [part : {"then", "else", "cond", "body"}, block : AllBlocks]

(* They are created, without terminator, and no two statements share one;   *)
(* the condition of a loop is written to a block without terminator.        *)
PendingOpen ==
    /\ open \in Seq(Frames)
    /\ \A i \in DOMAIN open : \A b \in Pending(open[i]) :
            /\ b \in 1 .. Len(ir.blocks) /\ b # insert
            /\ ~IsTerminated(ir, b)
            /\ \A j \in DOMAIN open : b \in Pending(open[j]) => i = j
    /\ \A i \in DOMAIN open : open[i].block \in 1 .. Len(ir.blocks)
    /\ Inside("cond") => ~IsTerminated(ir, insert)

(* Where the builder is not and will not come back to, blocks have ended. *)
OthersTerminated ==
    /\ built \in BOOLEAN
    /\ \A b \in 1 .. Len(ir.blocks) :
            \/ IsTerminated(ir, b)
            \/ b = insert
            \/ \E i \in DOMAIN open : b \in Pending(open[i])
    /\ built => open = <<>> /\ IsTerminated(ir, insert)

BuilderInv ==
    /\ IsFunction(ir)
    /\ EdgesExact(ir)
    /\ BlocksNumbered
    /\ PendingOpen
    /\ OthersTerminated

Keeps(g, h) ==
    \A b \in AllBlocks : IsTerminated(g, b) =>
        h.term[b] = g.term[b] /\ h.body[b] = g.body[b] /\ h.succ[b] = g.succ[b]

-----------------------------------------------------------------------------
(* What the operations on a function change. *)

Ends(t) == IsTerminator(t) /\ t.op # "none"

LEMMA Terminators ==
  /\ \A val : Ends(Ret(val)) /\ Ret(val) # NoTerm /\ ToSet(Ret(val).to) = {}
  /\ \A a \in AllBlocks : Ends(Br(a)) /\ Br(a) # NoTerm /\ ToSet(Br(a).to) = {a}
  /\ IsTerminator(NoTerm) /\ NoTerm.to = <<>> /\ ToSet(NoTerm.to) = {}
  <1>1. \A val, to : [op |-> "br", val |-> val, to |-> to] # NoTerm
                     /\ [op |-> "ret", val |-> val, to |-> to] # NoTerm
    BY DEF NoTerm
  <1>2. <<>> \in Seq(AllBlocks) /\ Len(<<>>) = 0 /\ ToSet(<<>>) = {}
    BY DEF ToSet
  <1>3. \A a \in AllBlocks : <<a>> \in Seq(AllBlocks) /\ Len(<<a>>) = 1 /\ ToSet(<<a>>) = {a}
    BY DEF ToSet
  <1>4. ASSUME NEW val PROVE Ends(Ret(val)) /\ ToSet(Ret(val).to) = {}
    BY <1>2 DEF Ret, Ends, IsTerminator
  <1>5. ASSUME NEW a \in AllBlocks PROVE Ends(Br(a)) /\ ToSet(Br(a).to) = {a}
    BY <1>3 DEF Br, Ends, IsTerminator
  <1>6. IsTerminator(NoTerm) /\ NoTerm.to = <<>> /\ ToSet(NoTerm.to) = {}
    BY <1>2 DEF NoTerm, IsTerminator
  <1> QED BY <1>1, <1>4, <1>5, <1>6 DEF Ret, Br

EndsTo(t, a, b) == t # NoTerm /\ Ends(t) /\ ToSet(t.to) = {a, b}

LEMMA CondTerminator ==
  ASSUME NEW val, NEW a \in AllBlocks, NEW b \in AllBlocks
  PROVE  EndsTo(CondBr(val, a, b), a, b)
  <1>1. /\ CondBr(val, a, b).to = <<a, b>> /\ CondBr(val, a, b).op = "br"
        /\ CondBr(val, a, b) = [op |-> CondBr(val, a, b).op, val |-> CondBr(val, a, b).val,
                                to |-> CondBr(val, a, b).to]
    BY DEF CondBr
  <1>2. CondBr(val, a, b) # NoTerm
    <2>1. CondBr(val, a, b).op = "br" /\ NoTerm.op = "none"
      BY DEF CondBr, NoTerm
    <2> QED BY <2>1
  <1>3. <<a, b>> \in Seq(AllBlocks) /\ Len(<<a, b>>) = 2 /\ ToSet(<<a, b>>) = {a, b}
    BY DEF ToSet
  <1>4. Ends(CondBr(val, a, b)) /\ ToSet(CondBr(val, a, b).to) = {a, b}
    BY <1>1, <1>3 DEF Ends, IsTerminator
  <1> QED BY <1>2, <1>4 DEF EndsTo

LEMMA FunctionBy ==
  ASSUME NEW blocks \in Seq(AllBlocks), NEW succ \in [AllBlocks -> Seq(AllBlocks)],
         NEW pred \in [AllBlocks -> Seq(AllBlocks)],
         NEW term, term = [b \in AllBlocks |-> term[b]],
         \A b \in AllBlocks : IsTerminator(term[b]),
         NEW body, body = [b \in AllBlocks |-> body[b]],
         NEW phis, phis = [b \in AllBlocks |-> phis[b]],
         \A b \in AllBlocks : IsList(body[b]) /\ IsList(phis[b])
  PROVE  IsFunction([blocks |-> blocks, succ |-> succ, pred |-> pred, term |-> term,
                     phis |-> phis, body |-> body])
  BY DEF IsFunction

MayEnd(g, b, t) ==
    /\ IsFunction(g) /\ EdgesExact(g)
    /\ b \in AllBlocks /\ g.term[b] = NoTerm /\ Ends(t)

(* h is g with the terminator t of b. *)
EndsWith(h, g, b, t) ==
    /\ IsFunction(h) /\ EdgesExact(h)
    /\ h.blocks = g.blocks /\ h.body = g.body /\ h.term[b] = t
    /\ \A c \in AllBlocks \ {b} : h.term[c] = g.term[c] /\ h.succ[c] = g.succ[c]

LEMMA TerminateFacts ==
  ASSUME NEW g, NEW b, NEW t, MayEnd(g, b, t)
  PROVE  EndsWith(Terminate(g, b, t), g, b, t)
  <1> USE DEF MayEnd
  <1> SUFFICES ASSUME NEW h, h = Terminate(g, b, t) PROVE EndsWith(h, g, b, t)
    OBVIOUS
  <1> DEFINE newSucc == [g.succ EXCEPT ![b] = @ \o t.to]
             newPred == [s \in AllBlocks |->
                            IF s \in ToSet(t.to) THEN Append(g.pred[s], b) ELSE g.pred[s]]
             newTerm == [g.term EXCEPT ![b] = t]
  <1>1. h = [blocks |-> g.blocks, succ |-> newSucc, pred |-> newPred, term |-> newTerm,
             phis |-> g.phis, body |-> g.body]
    BY DEF Terminate, IsFunction
  <1> DEFINE old == g.succ[b]
  <1>24. t.to \in Seq(AllBlocks) /\ t.op # "none"
    BY DEF Ends, IsTerminator
  <1>20. old \in Seq(AllBlocks) /\ \A s \in AllBlocks : g.pred[s] \in Seq(AllBlocks)
    BY DEF IsFunction
  <1>21. old \o t.to \in Seq(AllBlocks) /\ ToSet(old \o t.to) = ToSet(old) \cup ToSet(t.to)
    BY <1>20, <1>24, SetOfSeq
  <1>22. \A s \in AllBlocks : /\ Append(g.pred[s], b) \in Seq(AllBlocks)
                             /\ ToSet(Append(g.pred[s], b)) = ToSet(g.pred[s]) \cup {b}
    BY <1>20, SetOfSeq
  <1>23. newSucc = [c \in AllBlocks |-> IF c = b THEN old \o t.to ELSE g.succ[c]]
    BY DEF IsFunction
  <1>2. newSucc \in [AllBlocks -> Seq(AllBlocks)]
    BY <1>21, <1>23 DEF IsFunction
  <1>3. newPred \in [AllBlocks -> Seq(AllBlocks)]
    BY <1>22 DEF IsFunction
  <1>4. newTerm = [c \in AllBlocks |-> IF c = b THEN t ELSE g.term[c]]
    BY DEF IsFunction
  <1>5. ToSet(g.succ[b]) = {}
    BY Terminators DEF EdgesExact
  <1>6. ToSet(newSucc[b]) = ToSet(t.to)
    BY <1>5, <1>21, <1>23
  <1>7. \A s \in AllBlocks : ToSet(newPred[s])
            = IF s \in ToSet(t.to) THEN ToSet(g.pred[s]) \cup {b} ELSE ToSet(g.pred[s])
    BY <1>22
  <1>8. \A s \in AllBlocks : ToSet(g.pred[s]) = {p \in AllBlocks : s \in ToSet(g.term[p].to)}
    BY DEF EdgesExact
  <1>9. b \notin {p \in AllBlocks : \E s \in AllBlocks : s \in ToSet(g.term[p].to)}
    BY Terminators
  <1>10. EdgesExact(h)
    <2> SUFFICES ASSUME NEW c \in AllBlocks
                 PROVE  /\ ToSet(newSucc[c]) = ToSet(newTerm[c].to)
                        /\ ToSet(newPred[c]) = {p \in AllBlocks : c \in ToSet(newTerm[p].to)}
                        /\ newTerm[c].op = "none" => newTerm[c] = NoTerm
      BY <1>1 DEF EdgesExact
    <2>1. ToSet(newSucc[c]) = ToSet(newTerm[c].to)
      BY <1>4, <1>6 DEF EdgesExact, IsFunction
    <2>2. ToSet(newPred[c]) = {p \in AllBlocks : c \in ToSet(newTerm[p].to)}
      <3>1. \A p \in AllBlocks : newTerm[p].to = IF p = b THEN t.to ELSE g.term[p].to
        BY <1>4
      <3> HIDE DEF newTerm, newPred
      <3>2. ToSet(g.pred[c]) = {p \in AllBlocks : c \in ToSet(g.term[p].to)}
        BY <1>8
      <3>3. b \in AllBlocks /\ c \notin ToSet(g.term[b].to)
        BY <1>9
      <3>4. CASE c \in ToSet(t.to)
        <4>1. ToSet(newPred[c]) = ToSet(g.pred[c]) \cup {b}
          BY <1>7, <3>4
        <4> QED BY <3>1, <3>2, <3>3, <3>4, <4>1
      <3>5. CASE c \notin ToSet(t.to)
        <4>1. ToSet(newPred[c]) = ToSet(g.pred[c])
          BY <1>7, <3>5
        <4> QED BY <3>1, <3>2, <3>3, <3>5, <4>1
      <3> QED BY <3>4, <3>5
    <2>3. newTerm[c].op = "none" => newTerm[c] = NoTerm
      BY <1>4, <1>24 DEF EdgesExact
    <2> QED BY <2>1, <2>2, <2>3
  <1>11. IsFunction(h)
    <2>1. \A c \in AllBlocks : IsTerminator(newTerm[c])
      BY <1>4 DEF IsFunction, Ends
    <2>2. newTerm = [c \in AllBlocks |-> newTerm[c]]
      BY <1>4
    <2> HIDE DEF newSucc, newPred, newTerm
    <2>3. /\ g.blocks \in Seq(AllBlocks) /\ g.body = [c \in AllBlocks |-> g.body[c]]
          /\ g.phis = [c \in AllBlocks |-> g.phis[c]]
          /\ \A c \in AllBlocks : IsList(g.body[c]) /\ IsList(g.phis[c])
      BY DEF IsFunction
    <2>4. IsFunction([blocks |-> g.blocks, succ |-> newSucc, pred |-> newPred,
                      term |-> newTerm, phis |-> g.phis, body |-> g.body])
      BY <1>2, <1>3, <2>1, <2>2, <2>3, FunctionBy
    <2> QED BY <1>1, <2>4
  <1>12. /\ h.blocks = g.blocks /\ h.body = g.body /\ h.term = newTerm /\ h.succ = newSucc
    BY <1>1
  <1>13. \A c \in AllBlocks \ {b} : newTerm[c] = g.term[c] /\ newSucc[c] = g.succ[c]
    BY <1>4 DEF IsFunction
  <1> QED BY <1>4, <1>10, <1>11, <1>12, <1>13 DEF EndsWith

LEMMA EmitFacts ==
  ASSUME NEW g, IsFunction(g), EdgesExact(g), NEW b \in AllBlocks,
         NEW instrs, IsList(instrs), NEW h, h = Emit(g, b, instrs)
  PROVE  /\ IsFunction(h) /\ EdgesExact(h)
         /\ h.blocks = g.blocks /\ h.term = g.term /\ h.succ = g.succ
         /\ \A c \in AllBlocks \ {b} : h.body[c] = g.body[c]
  <1>1. h = [blocks |-> g.blocks, succ |-> g.succ, pred |-> g.pred, term |-> g.term,
             phis |-> g.phis, body |-> [g.body EXCEPT ![b] = @ \o instrs]]
    BY DEF Emit, IsFunction
  <1> DEFINE newBody == [g.body EXCEPT ![b] = @ \o instrs]
  <1>2. newBody = [c \in AllBlocks |-> newBody[c]] /\ \A c \in AllBlocks \ {b} : newBody[c] = g.body[c]
    BY DEF IsFunction
  <1>5. \A c \in AllBlocks : IsList(newBody[c])
    <2>1. IsList(g.body[b] \o instrs) /\ newBody[b] = g.body[b] \o instrs
      BY ListJoin DEF IsFunction
    <2> QED BY <1>2, <2>1 DEF IsFunction
  <1> HIDE DEF newBody
  <1>3. h = [blocks |-> g.blocks, succ |-> g.succ, pred |-> g.pred, term |-> g.term,
             phis |-> g.phis, body |-> newBody]
    BY <1>1 DEF newBody
  <1>4. IsFunction(h)
    BY <1>2, <1>3, <1>5, FunctionBy DEF IsFunction
  <1> QED BY <1>2, <1>3, <1>4 DEF EdgesExact

LEMMA CreateFacts ==
  ASSUME IsFunction(ir), EdgesExact(ir), BlocksNumbered, stmts < MaxStmts, NEW k \in 1 .. 3,
         NEW h, h = CreateBlocks(ir, k)
  PROVE  /\ IsFunction(h) /\ EdgesExact(h)
         /\ h.term = ir.term /\ h.succ = ir.succ /\ h.body = ir.body
         /\ Len(h.blocks) = Len(ir.blocks) + k
         /\ \A i \in 1 .. Len(h.blocks) : h.blocks[i] = i
         /\ Len(ir.blocks) + k \in AllBlocks /\ Len(h.blocks) <= 1 + 3 * (stmts + 1)
  <1> DEFINE n == Len(ir.blocks)
             S == ToSet(ir.blocks) \cup {b \in AllBlocks : ir.term[b] # NoTerm}
             more == [i \in 1 .. k |-> Newest(ir) + i]
  <1>1. n \in 1 .. 1 + 3 * stmts /\ stmts \in 0 .. MaxStmts /\ stmts + 1 <= MaxStmts
    BY BuilderAssumption DEF BlocksNumbered
  <1>2. n + k <= 1 + 3 * (stmts + 1) /\ n + k <= MaxBlocks /\ MaxBlocks \in Int
    BY <1>1, BuilderAssumption
  <1>3. Newest(ir) = n
    <2>1. n \in S /\ \A m \in S : m \in Int /\ m <= n
      <3>1. DOMAIN ir.blocks = 1 .. n
        BY LenProperties DEF IsFunction
      <3>2. ToSet(ir.blocks) = 1 .. n
        BY <3>1 DEF ToSet, BlocksNumbered
      <3> QED BY <1>1, <3>2 DEF BlocksNumbered, IsTerminated, AllBlocks
    <2>2. \A m \in S : (\A l \in S : m >= l) => m = n
      BY <1>1, <2>1
    <2> HIDE DEF S
    <2>3. Max(S) = n
      BY <1>1, <2>1, <2>2 DEF Max
    <2> QED BY <2>3 DEF Newest, S
  <1>4. more \in Seq(AllBlocks) /\ Len(more) = k /\ \A i \in 1 .. k : more[i] = n + i
    BY <1>1, <1>2, <1>3 DEF AllBlocks
  <1> HIDE DEF more
  <1>5. ir.blocks \o more \in Seq(AllBlocks) /\ Len(ir.blocks \o more) = n + k
    BY <1>4 DEF IsFunction
  <1>6. \A i \in 1 .. n + k : (ir.blocks \o more)[i] = i
    <2> SUFFICES ASSUME NEW i \in 1 .. n + k PROVE (ir.blocks \o more)[i] = i
      OBVIOUS
    <2>1. CASE i <= n
      BY <1>1, <1>4, <2>1 DEF BlocksNumbered, IsFunction
    <2>2. CASE i > n
      <3>1. i - n \in 1 .. k /\ n + (i - n) = i
        BY <1>1, <2>2
      <3>2. (ir.blocks \o more)[n + (i - n)] = more[i - n]
        BY <1>4, <3>1 DEF IsFunction
      <3> QED BY <1>4, <3>1, <3>2
    <2>3. i <= n \/ i > n
      BY <1>1
    <2> QED BY <2>1, <2>2, <2>3
  <1>7. h = [blocks |-> ir.blocks \o more, succ |-> ir.succ, pred |-> ir.pred,
             term |-> ir.term, phis |-> ir.phis, body |-> ir.body]
    BY DEF CreateBlocks, IsFunction, more
  <1>8. n + k \in AllBlocks
    BY <1>1, <1>2 DEF AllBlocks
  <1>9. IsFunction(h)
    BY <1>5, <1>7, FunctionBy DEF IsFunction
  <1>10. /\ h.blocks = ir.blocks \o more /\ h.term = ir.term /\ h.succ = ir.succ
         /\ h.body = ir.body /\ h.pred = ir.pred
    BY <1>7
  <1>11. EdgesExact(h)
    BY <1>10 DEF EdgesExact
  <1> QED BY <1>2, <1>5, <1>6, <1>8, <1>9, <1>10, <1>11

-----------------------------------------------------------------------------
(* The steps of the builder. *)

LEMMA CodeList ==
  ASSUME NEW e, NEW k
  PROVE  IsList(Code(e, k)) /\ \A inst : IsList(Code(e, k) \o <<inst>>)
  <1>1. IsList(Code(e, k))
    <2>1. CASE e[1] = "var"
      BY <2>1, ShortLists DEF Code
    <2>2. CASE e[1] = "not"
      BY <2>2, ShortLists DEF Code
    <2>3. CASE e[1] # "var" /\ e[1] # "not"
      BY <2>3, ShortLists DEF Code
    <2> QED BY <2>1, <2>2, <2>3
  <1> QED BY <1>1, ShortLists, ListJoin

LEMMA BuilderFacts ==
  ASSUME BuilderInv
  PROVE  /\ insert \in AllBlocks /\ 1 .. Len(ir.blocks) \subseteq AllBlocks
         /\ Len(ir.blocks) \in Nat /\ stmts \in Nat
         /\ DOMAIN open = 1 .. Len(open) /\ Len(open) \in Nat
         /\ First = Len(ir.blocks) + 1
         /\ \A b \in AllBlocks : ~IsTerminated(ir, b) => ir.term[b] = NoTerm
         /\ Blocks = 1 .. Len(ir.blocks)
  <1>1. /\ stmts \in 0 .. MaxStmts /\ Len(ir.blocks) \in 1 .. 1 + 3 * stmts
        /\ insert \in 1 .. Len(ir.blocks)
    BY DEF BuilderInv, BlocksNumbered
  <1>2. /\ 1 .. Len(ir.blocks) \subseteq AllBlocks /\ Len(ir.blocks) \in Nat /\ stmts \in Nat
    BY <1>1, BuilderAssumption DEF AllBlocks
  <1>3. DOMAIN open = 1 .. Len(open) /\ Len(open) \in Nat
    BY LenProperties DEF BuilderInv, PendingOpen
  <1>4. DOMAIN ir.blocks = 1 .. Len(ir.blocks)
    BY LenProperties DEF BuilderInv, IsFunction
  <1>5. Blocks = 1 .. Len(ir.blocks)
    BY <1>4 DEF Blocks, ToSet, BuilderInv, BlocksNumbered
  <1> QED BY <1>1, <1>2, <1>3, <1>5 DEF First, IsTerminated

(* The statement being visited, which is the last of open. *)
LEMMA InnermostFacts ==
  ASSUME BuilderInv, NEW part, Inside(part)
  PROVE  /\ Len(open) \in DOMAIN open /\ open # <<>> /\ open[Len(open)] \in Frames
         /\ Innermost = open[Len(open)] /\ Innermost.part = part
         /\ Innermost.block \in 1 .. Len(ir.blocks)
         /\ Front(open) \in Seq(Frames) /\ DOMAIN Front(open) = 1 .. Len(open) - 1
         /\ \A i \in DOMAIN Front(open) : Front(open)[i] = open[i] /\ i \in DOMAIN open
         /\ \A p \in {"then", "else", "cond", "body"} :
                /\ [open EXCEPT ![Len(open)].part = p] \in Seq(Frames)
                /\ DOMAIN [open EXCEPT ![Len(open)].part = p] = DOMAIN open
                /\ \A i \in DOMAIN open :
                    [open EXCEPT ![Len(open)].part = p][i]
                        = IF i = Len(open) THEN [part |-> p, block |-> Innermost.block] ELSE open[i]
  <1>1. open \in Seq(Frames) /\ open # <<>> /\ open[Len(open)].part = part
    BY DEF Inside, BuilderInv, PendingOpen, Innermost
  <1>2. Len(open) \in 1 .. Len(open) /\ DOMAIN open = 1 .. Len(open) /\ Len(open) \in Nat \ {0}
    BY <1>1, EmptySeq, LenProperties
  <1>3. open[Len(open)] \in Frames /\ Innermost.block \in 1 .. Len(ir.blocks)
    BY <1>1, <1>2, ElementOfSeq DEF BuilderInv, PendingOpen, Innermost
  <1>4. /\ Front(open) \in Seq(Frames) /\ DOMAIN Front(open) = 1 .. Len(open) - 1
        /\ \A i \in DOMAIN Front(open) : Front(open)[i] = open[i] /\ i \in DOMAIN open
    <2>1. /\ 1 \in 1 .. Len(open) + 1 /\ Len(open) - 1 \in 0 .. Len(open)
          /\ Len(open) - 1 - 1 + 1 = Len(open) - 1
      BY <1>2
    <2>2. /\ SubSeq(open, 1, Len(open) - 1) \in Seq(Frames)
          /\ DOMAIN SubSeq(open, 1, Len(open) - 1) = 1 .. Len(open) - 1
          /\ \A i \in 1 .. Len(open) - 1 : SubSeq(open, 1, Len(open) - 1)[i] = open[i]
      BY <1>1, <2>1
    <2> QED BY <1>2, <2>2 DEF Front
  <1>5. ASSUME NEW p \in {"then", "else", "cond", "body"}
        PROVE  /\ [open EXCEPT ![Len(open)].part = p] \in Seq(Frames)
               /\ DOMAIN [open EXCEPT ![Len(open)].part = p] = DOMAIN open
               /\ \A i \in DOMAIN open :
                    [open EXCEPT ![Len(open)].part = p][i]
                        = IF i = Len(open) THEN [part |-> p, block |-> Innermost.block] ELSE open[i]
    <2>1. [open[Len(open)] EXCEPT !.part = p] = [part |-> p, block |-> Innermost.block]
          /\ [part |-> p, block |-> Innermost.block] \in Frames
      BY <1>3 DEF Frames, Innermost
    <2>2. [open EXCEPT ![Len(open)] = [part |-> p, block |-> Innermost.block]] \in Seq(Frames)
      BY <1>1, <1>2, <2>1, ExceptSeq
    <2> QED BY <1>2, <2>1, <2>2
  <1> QED BY <1>1, <1>2, <1>3, <1>4, <1>5 DEF Innermost

LEMMA AssignKeeps ==
  ASSUME BuilderInv, NEW v, NEW e, Assign(v, e)
  PROVE  BuilderInv' /\ Keeps(ir, ir')
  <1>1. /\ stmts < MaxStmts /\ ~IsTerminated(ir, insert) /\ stmts' = stmts + 1
        /\ insert' = insert /\ open' = open /\ built' = built
        /\ ir' = Emit(ir, insert, Code(e, stmts) \o <<Store(v, Operand(e, stmts))>>)
    BY DEF Assign, AtStatement, AtExpression
  <1>2. /\ IsFunction(ir') /\ EdgesExact(ir')
        /\ ir'.blocks = ir.blocks /\ ir'.term = ir.term /\ ir'.succ = ir.succ
        /\ \A c \in AllBlocks \ {insert} : ir'.body[c] = ir.body[c]
    <2>1. IsList(Code(e, stmts) \o <<Store(v, Operand(e, stmts))>>)
      BY CodeList
    <2> QED BY <1>1, <2>1, BuilderFacts, EmitFacts DEF BuilderInv
  <1>3. BlocksNumbered'
    BY <1>1, <1>2, BuilderAssumption DEF BuilderInv, BlocksNumbered, IsTerminated
  <1>4. PendingOpen'
    BY <1>1, <1>2 DEF BuilderInv, PendingOpen, IsTerminated, Inside, Innermost
  <1>5. OthersTerminated'
    BY <1>1, <1>2 DEF BuilderInv, OthersTerminated, IsTerminated
  <1>6. Keeps(ir, ir')
    BY <1>1, <1>2 DEF Keeps
  <1> QED BY <1>2, <1>3, <1>4, <1>5, <1>6 DEF BuilderInv

LEMMA ReturnKeeps ==
  ASSUME BuilderInv, NEW e, Return(e)
  PROVE  BuilderInv' /\ Keeps(ir, ir')
  <1> DEFINE g == Emit(ir, insert, Code(e, stmts))
             t == Ret(Operand(e, stmts))
  <1>1. /\ stmts < MaxStmts /\ ~IsTerminated(ir, insert) /\ stmts' = stmts + 1
        /\ insert' = insert /\ open' = open /\ built' = built /\ ~built /\ ~Inside("cond")
        /\ ir' = Terminate(g, insert, t)
    BY DEF Return, AtStatement, AtExpression
  <1>2. /\ IsFunction(g) /\ EdgesExact(g)
        /\ g.blocks = ir.blocks /\ g.term = ir.term /\ g.succ = ir.succ
        /\ \A c \in AllBlocks \ {insert} : g.body[c] = ir.body[c]
    BY CodeList, BuilderFacts, EmitFacts DEF BuilderInv
  <1>20. insert \in AllBlocks /\ g.term[insert] = NoTerm
    BY <1>1, <1>2, BuilderFacts
  <1>3. t # NoTerm /\ Ends(t) /\ ToSet(t.to) = {}
    BY Terminators
  <1> HIDE DEF g, t
  <1>4. /\ IsFunction(ir') /\ EdgesExact(ir')
        /\ ir'.blocks = ir.blocks /\ ir'.body = g.body /\ ir'.term[insert] = t
        /\ \A c \in AllBlocks \ {insert} : ir'.term[c] = ir.term[c] /\ ir'.succ[c] = ir.succ[c]
    <2>1. MayEnd(g, insert, t)
      BY <1>2, <1>3, <1>20 DEF MayEnd
    <2>2. EndsWith(ir', g, insert, t)
      BY <1>1, <2>1, TerminateFacts
    <2> QED BY <1>2, <2>2 DEF EndsWith
  <1>5. \A c \in AllBlocks : IsTerminated(ir', c) <=> IsTerminated(ir, c) \/ c = insert
    BY <1>3, <1>4, BuilderFacts DEF IsTerminated
  <1>6. BlocksNumbered'
    <2>1. stmts \in 0 .. MaxStmts /\ MaxStmts \in Nat /\ insert \in 1 .. Len(ir.blocks)
          /\ Len(ir.blocks) \in 1 .. 1 + 3 * stmts
      BY BuilderAssumption DEF BuilderInv, BlocksNumbered
    <2>2. stmts + 1 \in 0 .. MaxStmts /\ Len(ir.blocks) \in 1 .. 1 + 3 * (stmts + 1)
      BY <1>1, <2>1
    <2>3. \A b \in AllBlocks : IsTerminated(ir', b) =>
            b <= Len(ir.blocks) /\ ToSet(ir'.term[b].to) \subseteq 1 .. Len(ir.blocks)
      BY <1>3, <1>4, <1>5, <2>1 DEF BuilderInv, BlocksNumbered
    <2> QED BY <1>1, <1>4, <2>1, <2>2, <2>3 DEF BuilderInv, BlocksNumbered
  <1>7. PendingOpen'
    BY <1>1, <1>4, <1>5, BuilderFacts DEF BuilderInv, PendingOpen, Inside, Innermost
  <1>8. OthersTerminated'
    BY <1>1, <1>4, <1>5, BuilderFacts DEF BuilderInv, OthersTerminated
  <1>9. Keeps(ir, ir')
    BY <1>1, <1>2, <1>4 DEF Keeps
  <1> QED BY <1>4, <1>6, <1>7, <1>8, <1>9 DEF BuilderInv

(* EndThen, EndElse and EndWhile: the block written to gets a branch, if it *)
(* needs one, and the builder goes on with a pending block.                 *)
LEMMA SealFacts ==
  ASSUME BuilderInv, NEW to \in 1 .. Len(ir.blocks), ir' = Seal(ir, insert, to)
  PROVE  /\ IsFunction(ir') /\ EdgesExact(ir') /\ Keeps(ir, ir')
         /\ ir'.blocks = ir.blocks
         /\ \A c \in AllBlocks : IsTerminated(ir', c) <=> IsTerminated(ir, c) \/ c = insert
         /\ \A c \in AllBlocks : IsTerminated(ir', c) =>
                c <= Len(ir.blocks) /\ ToSet(ir'.term[c].to) \subseteq 1 .. Len(ir.blocks)
  <1> DEFINE t == Br(to)
  <1>1. /\ IsFunction(ir) /\ EdgesExact(ir) /\ to \in AllBlocks /\ insert \in 1 .. Len(ir.blocks)
        /\ \A c \in AllBlocks : IsTerminated(ir, c) =>
                c <= Len(ir.blocks) /\ ToSet(ir.term[c].to) \subseteq 1 .. Len(ir.blocks)
    BY BuilderFacts DEF BuilderInv, BlocksNumbered
  <1>2. CASE IsTerminated(ir, insert)
    <2>1. ir' = ir
      BY <1>2 DEF Seal
    <2> QED BY <1>1, <1>2, <2>1 DEF Keeps
  <1>3. CASE ~IsTerminated(ir, insert)
    <2>1. ir' = Terminate(ir, insert, t)
      BY <1>3 DEF Seal
    <2>2. t # NoTerm /\ Ends(t) /\ ToSet(t.to) = {to}
      BY <1>1, Terminators
    <2> HIDE DEF t
    <2>3. /\ IsFunction(ir') /\ EdgesExact(ir')
          /\ ir'.blocks = ir.blocks /\ ir'.body = ir.body /\ ir'.term[insert] = t
          /\ \A c \in AllBlocks \ {insert} : ir'.term[c] = ir.term[c] /\ ir'.succ[c] = ir.succ[c]
      <3>1. insert \in AllBlocks /\ ir.term[insert] = NoTerm
        BY <1>3, BuilderFacts
      <3>2. MayEnd(ir, insert, t)
        BY <1>1, <2>2, <3>1 DEF MayEnd
      <3>3. EndsWith(ir', ir, insert, t)
        BY <2>1, <3>2, TerminateFacts
      <3> QED BY <3>3 DEF EndsWith
    <2>4. \A c \in AllBlocks : IsTerminated(ir', c) <=> IsTerminated(ir, c) \/ c = insert
      BY <2>2, <2>3, BuilderFacts DEF IsTerminated
    <2>5. Keeps(ir, ir')
      BY <1>3, <2>3 DEF Keeps
    <2>6. \A c \in AllBlocks : IsTerminated(ir', c) =>
                c <= Len(ir.blocks) /\ ToSet(ir'.term[c].to) \subseteq 1 .. Len(ir.blocks)
      <3> SUFFICES ASSUME NEW c \in AllBlocks, IsTerminated(ir', c)
                   PROVE  c <= Len(ir.blocks) /\ ToSet(ir'.term[c].to) \subseteq 1 .. Len(ir.blocks)
        OBVIOUS
      <3>1. CASE c = insert
        BY <1>1, <2>2, <2>3, <3>1
      <3>2. CASE c # insert
        BY <1>1, <2>3, <2>4, <3>2
      <3> QED BY <3>1, <3>2
    <2> QED BY <2>3, <2>4, <2>5, <2>6
  <1> QED BY <1>2, <1>3

LEMMA EndThenKeeps ==
  ASSUME BuilderInv, EndThen
  PROVE  BuilderInv' /\ Keeps(ir, ir')
  <1> DEFINE n == Len(open)
             B == Innermost.block
  <1>1. /\ Inside("then") /\ ir' = Seal(ir, insert, B + 2) /\ insert' = B + 1
        /\ open' = [open EXCEPT ![n].part = "else"] /\ stmts' = stmts /\ built' = built
    BY DEF EndThen
  <1>2. /\ n \in DOMAIN open /\ open[n].part = "then" /\ open[n].block = B /\ B \in 1 .. Len(ir.blocks)
        /\ open' \in Seq(Frames) /\ DOMAIN open' = DOMAIN open
        /\ \A i \in DOMAIN open :
                open'[i] = IF i = n THEN [part |-> "else", block |-> B] ELSE open[i]
    BY <1>1, InnermostFacts
  <1> HIDE DEF B, n
  <1>3. Pending(open[n]) = {B + 1, B + 2} /\ Pending(open'[n]) = {B + 2} /\ B + 1 # B + 2
    BY <1>2, BuilderFacts DEF Pending
  <1>4. \A i \in DOMAIN open : Pending(open'[i]) \subseteq Pending(open[i])
    BY <1>2, <1>3
  <1>5. \A i \in DOMAIN open : i # n => open'[i] = open[i]
    BY <1>2
  <1>6. /\ B + 1 \in 1 .. Len(ir.blocks) /\ B + 2 \in 1 .. Len(ir.blocks)
        /\ B + 1 # insert /\ B + 2 # insert
        /\ ~IsTerminated(ir, B + 1)
        /\ \A j \in DOMAIN open : B + 1 \in Pending(open[j]) => j = n
    BY <1>2, <1>3 DEF BuilderInv, PendingOpen
  <1>7. /\ IsFunction(ir') /\ EdgesExact(ir') /\ Keeps(ir, ir') /\ ir'.blocks = ir.blocks
        /\ \A c \in AllBlocks : IsTerminated(ir', c) <=> IsTerminated(ir, c) \/ c = insert
        /\ \A c \in AllBlocks : IsTerminated(ir', c) =>
                c <= Len(ir.blocks) /\ ToSet(ir'.term[c].to) \subseteq 1 .. Len(ir.blocks)
    BY <1>1, <1>6, SealFacts
  <1>8. BlocksNumbered'
    BY <1>1, <1>6, <1>7 DEF BuilderInv, BlocksNumbered
  <1>9. PendingOpen'
    <2>1. \A i \in DOMAIN open : \A b \in Pending(open'[i]) :
            /\ b \in 1 .. Len(ir.blocks) /\ b # insert'
            /\ ~IsTerminated(ir', b)
            /\ \A j \in DOMAIN open : b \in Pending(open'[j]) => i = j
      <3> SUFFICES ASSUME NEW i \in DOMAIN open, NEW b \in Pending(open'[i])
                   PROVE  /\ b \in 1 .. Len(ir.blocks) /\ b # insert'
                          /\ ~IsTerminated(ir', b)
                          /\ \A j \in DOMAIN open : b \in Pending(open'[j]) => i = j
        OBVIOUS
      <3>1. b \in Pending(open[i])
        BY <1>4
      <3>2. /\ b \in 1 .. Len(ir.blocks) /\ b # insert /\ ~IsTerminated(ir, b)
            /\ \A j \in DOMAIN open : b \in Pending(open[j]) => i = j
        BY <3>1 DEF BuilderInv, PendingOpen
      <3>3. b # insert'
        BY <1>1, <1>3, <1>6, <3>1
      <3>4. ~IsTerminated(ir', b)
        BY <1>7, <3>2, BuilderFacts
      <3> QED BY <1>4, <3>2, <3>3, <3>4
    <2>2. \A i \in DOMAIN open : open'[i].block \in 1 .. Len(ir.blocks)
      BY <1>2, <1>5 DEF BuilderInv, PendingOpen
    <2>3. ~Inside("cond")'
      <3>1. Len(open') = n
        BY <1>2, LenProperties DEF n, BuilderInv, PendingOpen
      <3> QED BY <1>2, <3>1 DEF Inside, Innermost
    <2> QED BY <1>2, <1>7, <2>1, <2>2, <2>3 DEF PendingOpen
  <1>10. OthersTerminated'
    <2> SUFFICES ASSUME NEW b \in 1 .. Len(ir.blocks)
                 PROVE  \/ IsTerminated(ir', b)
                        \/ b = insert'
                        \/ \E i \in DOMAIN open : b \in Pending(open'[i])
      BY <1>1, <1>2, <1>7 DEF BuilderInv, OthersTerminated
    <2>1. CASE IsTerminated(ir, b) \/ b = insert
      BY <1>7, <2>1, BuilderFacts
    <2>2. CASE \E i \in DOMAIN open : b \in Pending(open[i])
      BY <1>1, <1>2, <1>3, <1>5, <2>2
    <2> QED BY <2>1, <2>2 DEF BuilderInv, OthersTerminated
  <1> QED BY <1>7, <1>8, <1>9, <1>10 DEF BuilderInv

(* EndElse and EndWhile end the statement. *)
LEMMA EndKeeps ==
  ASSUME BuilderInv, NEW part \in {"else", "body"}, Inside(part),
         NEW to \in 1 .. Len(ir.blocks), ir' = Seal(ir, insert, to),
         insert' = Innermost.block + 2, open' = Front(open), stmts' = stmts, built' = built
  PROVE  BuilderInv' /\ Keeps(ir, ir')
  <1> DEFINE n == Len(open)
             B == Innermost.block
  <1>1. /\ n \in DOMAIN open /\ open[n].part = part /\ open[n].block = B
        /\ open' \in Seq(Frames) /\ DOMAIN open' = 1 .. n - 1
        /\ \A i \in DOMAIN open' : open'[i] = open[i] /\ i \in DOMAIN open /\ i # n
        /\ \A i \in DOMAIN open : i # n => i \in DOMAIN open'
        /\ open # <<>>
    BY InnermostFacts, BuilderFacts
  <1>2. insert' = B + 2
    OBVIOUS
  <1> HIDE DEF B, n
  <1>3. Pending(open[n]) = {B + 2}
    BY <1>1 DEF Pending
  <1>4. /\ B + 2 \in 1 .. Len(ir.blocks) /\ B + 2 # insert /\ ~IsTerminated(ir, B + 2)
        /\ \A j \in DOMAIN open : B + 2 \in Pending(open[j]) => j = n
    BY <1>1, <1>3 DEF BuilderInv, PendingOpen
  <1>5. /\ IsFunction(ir') /\ EdgesExact(ir') /\ Keeps(ir, ir') /\ ir'.blocks = ir.blocks
        /\ \A c \in AllBlocks : IsTerminated(ir', c) <=> IsTerminated(ir, c) \/ c = insert
        /\ \A c \in AllBlocks : IsTerminated(ir', c) =>
                c <= Len(ir.blocks) /\ ToSet(ir'.term[c].to) \subseteq 1 .. Len(ir.blocks)
    BY SealFacts
  <1>6. BlocksNumbered'
    BY <1>2, <1>4, <1>5 DEF BuilderInv, BlocksNumbered
  <1>7. ~IsTerminated(ir', insert')
    BY <1>2, <1>4, <1>5, BuilderFacts
  <1>8. PendingOpen'
    <2>1. \A i \in DOMAIN open' : \A b \in Pending(open'[i]) :
            /\ b \in 1 .. Len(ir.blocks) /\ b # insert'
            /\ ~IsTerminated(ir', b)
            /\ \A j \in DOMAIN open' : b \in Pending(open'[j]) => i = j
      BY <1>1, <1>2, <1>4, <1>5, BuilderFacts DEF BuilderInv, PendingOpen
    <2>2. \A i \in DOMAIN open' : open'[i].block \in 1 .. Len(ir.blocks)
      BY <1>1 DEF BuilderInv, PendingOpen
    <2> QED BY <1>1, <1>5, <1>7, <2>1, <2>2 DEF PendingOpen
  <1>9. OthersTerminated'
    <2>1. \A b \in 1 .. Len(ir.blocks) :
            \/ IsTerminated(ir', b)
            \/ b = insert'
            \/ \E i \in DOMAIN open' : b \in Pending(open'[i])
      BY <1>1, <1>2, <1>3, <1>5, BuilderFacts DEF BuilderInv, OthersTerminated
    <2> QED BY <1>1, <1>5, <2>1 DEF BuilderInv, OthersTerminated
  <1> QED BY <1>5, <1>6, <1>8, <1>9 DEF BuilderInv

LEMMA EndElseKeeps ==
  ASSUME BuilderInv, EndElse
  PROVE  BuilderInv' /\ Keeps(ir, ir')
  <1>1. /\ Inside("else") /\ ir' = Seal(ir, insert, Innermost.block + 2)
        /\ insert' = Innermost.block + 2 /\ open' = Front(open) /\ stmts' = stmts /\ built' = built
    BY DEF EndElse
  <1>2. Innermost.block + 2 \in 1 .. Len(ir.blocks)
    BY <1>1, InnermostFacts DEF BuilderInv, PendingOpen, Pending
  <1> QED BY <1>1, <1>2, EndKeeps

LEMMA EndWhileKeeps ==
  ASSUME BuilderInv, EndWhile
  PROVE  BuilderInv' /\ Keeps(ir, ir')
  <1>1. /\ Inside("body") /\ ir' = Seal(ir, insert, Innermost.block)
        /\ insert' = Innermost.block + 2 /\ open' = Front(open) /\ stmts' = stmts /\ built' = built
    BY DEF EndWhile
  <1>2. Innermost.block \in 1 .. Len(ir.blocks)
    BY <1>1, InnermostFacts
  <1> QED BY <1>1, <1>2, EndKeeps

(* After a statement that wrote a terminator where the builder was, and     *)
(* created blocks: the terminator t of insert, and those of new blocks.     *)
GrowsTo(h, k, t) ==
    /\ IsFunction(h) /\ EdgesExact(h) /\ t # NoTerm
    /\ Len(h.blocks) = Len(ir.blocks) + k
    /\ \A i \in 1 .. Len(h.blocks) : h.blocks[i] = i
    /\ ToSet(t.to) \subseteq 1 .. Len(h.blocks) /\ h.term[insert] = t
    /\ \A c \in AllBlocks \ {insert} :
        h.term[c] = ir.term[c] /\ h.succ[c] = ir.succ[c] /\ h.body[c] = ir.body[c]

LEMMA NewBlocks ==
  ASSUME BuilderInv, stmts < MaxStmts
  PROVE  /\ First = Len(ir.blocks) + 1 /\ Len(ir.blocks) \in Nat
         /\ First \in AllBlocks /\ First + 1 \in AllBlocks /\ First + 2 \in AllBlocks
         /\ {First, First + 1} \subseteq 1 .. Len(ir.blocks) + 2
         /\ {First, First + 1} \subseteq 1 .. Len(ir.blocks) + 3
  <1> DEFINE n == Len(ir.blocks)
  <1>1. First = n + 1 /\ n \in Nat
    BY BuilderFacts
  <1>2. n \in 1 .. 1 + 3 * stmts /\ stmts \in 0 .. MaxStmts
    BY DEF BuilderInv, BlocksNumbered
  <1> HIDE DEF n
  <1>3. n + 3 <= MaxBlocks /\ MaxBlocks \in Nat
    BY <1>1, <1>2, BuilderAssumption
  <1>4. n + 1 \in AllBlocks /\ n + 2 \in AllBlocks /\ n + 3 \in AllBlocks
    BY <1>1, <1>3 DEF AllBlocks
  <1>5. n + 1 + 1 = n + 2 /\ n + 1 + 2 = n + 3 /\ {n + 1, n + 2} \subseteq 1 .. n + 2
        /\ {n + 1, n + 2} \subseteq 1 .. n + 3
    BY <1>1
  <1> QED BY <1>1, <1>4, <1>5 DEF n

(* h is ir with k new blocks and the terminator t where the builder was. *)
GrownBy(h, k, t) ==
    GrowsTo(h, k, t) /\ Len(ir.blocks) + k \in AllBlocks /\ Len(ir.blocks) + k <= 1 + 3 * (stmts + 1)

LEMMA GrowFacts ==
  ASSUME BuilderInv, stmts < MaxStmts, ~IsTerminated(ir, insert), NEW k \in 1 .. 3,
         NEW instrs, IsList(instrs), NEW t, t # NoTerm, Ends(t),
         ToSet(t.to) \subseteq 1 .. Len(ir.blocks) + k
  PROVE  /\ GrownBy(Terminate(Emit(CreateBlocks(ir, k), insert, instrs), insert, t), k, t)
         /\ GrownBy(Terminate(CreateBlocks(ir, k), insert, t), k, t)
  <1> DEFINE f == CreateBlocks(ir, k)
             g == Emit(f, insert, instrs)
  <1>1. /\ IsFunction(f) /\ EdgesExact(f)
        /\ f.term = ir.term /\ f.succ = ir.succ /\ f.body = ir.body
        /\ Len(f.blocks) = Len(ir.blocks) + k
        /\ \A i \in 1 .. Len(f.blocks) : f.blocks[i] = i
        /\ Len(ir.blocks) + k \in AllBlocks /\ Len(f.blocks) <= 1 + 3 * (stmts + 1)
    BY CreateFacts DEF BuilderInv
  <1>2. insert \in AllBlocks /\ ir.term[insert] = NoTerm
    BY BuilderFacts
  <1> HIDE DEF f
  <1>3. /\ IsFunction(g) /\ EdgesExact(g)
        /\ g.blocks = f.blocks /\ g.term = f.term /\ g.succ = f.succ
        /\ \A c \in AllBlocks \ {insert} : g.body[c] = f.body[c]
    BY <1>1, <1>2, EmitFacts
  <1> HIDE DEF g
  <1>4. EndsWith(Terminate(g, insert, t), g, insert, t)
    BY <1>1, <1>2, <1>3, TerminateFacts DEF MayEnd
  <1>5. EndsWith(Terminate(f, insert, t), f, insert, t)
    BY <1>1, <1>2, TerminateFacts DEF MayEnd
  <1>6. GrowsTo(Terminate(g, insert, t), k, t)
    BY <1>1, <1>3, <1>4 DEF EndsWith, GrowsTo
  <1>7. GrowsTo(Terminate(f, insert, t), k, t)
    BY <1>1, <1>5 DEF EndsWith, GrowsTo
  <1> QED BY <1>1, <1>6, <1>7 DEF f, g, GrownBy

(* Such a step keeps what the builder does not write to.                    *)
LEMMA GrowKeeps ==
  ASSUME BuilderInv, ~IsTerminated(ir, insert), NEW k \in 1 .. 3, NEW t, NEW h, GrowsTo(h, k, t)
  PROVE  /\ Keeps(ir, h)
         /\ \A c \in AllBlocks : IsTerminated(h, c) <=> IsTerminated(ir, c) \/ c = insert
         /\ \A c \in AllBlocks : IsTerminated(h, c) =>
                c <= Len(h.blocks) /\ ToSet(h.term[c].to) \subseteq 1 .. Len(h.blocks)
  <1>1. \A c \in AllBlocks : IsTerminated(h, c) <=> IsTerminated(ir, c) \/ c = insert
    BY BuilderFacts DEF GrowsTo, IsTerminated
  <1>2. Keeps(ir, h)
    BY DEF GrowsTo, Keeps
  <1>3. ASSUME NEW c \in AllBlocks, IsTerminated(h, c)
        PROVE  c <= Len(h.blocks) /\ ToSet(h.term[c].to) \subseteq 1 .. Len(h.blocks)
    <2>1. insert \in 1 .. Len(ir.blocks) /\ Len(ir.blocks) \in Nat
          /\ Len(h.blocks) = Len(ir.blocks) + k
      BY BuilderFacts DEF BuilderInv, BlocksNumbered, GrowsTo
    <2>2. CASE c = insert
      BY <2>1, <2>2 DEF GrowsTo
    <2>3. CASE c # insert
      <3>1. IsTerminated(ir, c) /\ h.term[c] = ir.term[c]
        BY <1>1, <1>3, <2>3 DEF GrowsTo
      <3>2. c \in Int /\ c <= Len(ir.blocks) /\ ToSet(ir.term[c].to) \subseteq 1 .. Len(ir.blocks)
        BY <1>3, <3>1 DEF BuilderInv, BlocksNumbered, AllBlocks
      <3> QED BY <2>1, <3>1, <3>2
    <2> QED BY <2>2, <2>3
  <1> QED BY <1>1, <1>2, <1>3

LEMMA ThreeMore ==
  ASSUME NEW n \in Nat, NEW b \in 1 .. n + 3
  PROVE  b \in 1 .. n \/ b \in {n + 1, n + 2, n + 3}
  OBVIOUS

(* BeginIf and BeginWhile; the builder goes on with the first new block.    *)
LEMMA BeginKeeps ==
  ASSUME BuilderInv, stmts < MaxStmts, ~IsTerminated(ir, insert), ~built, ~Inside("cond"),
         NEW t, GrowsTo(ir', 3, t), NEW part \in {"then", "cond"},
         Len(ir.blocks) + 3 \in AllBlocks, Len(ir.blocks) + 3 <= 1 + 3 * (stmts + 1),
         insert' = First, NEW opened, opened = Append(open, [part |-> part, block |-> First]),
         open' = opened, stmts' = stmts + 1, built' = built
  PROVE  BuilderInv' /\ Keeps(ir, ir')
  <1> DEFINE n == Len(ir.blocks)
             m == Len(open) + 1
             new == [part |-> part, block |-> n + 1]
  <1>1. /\ insert \in 1 .. n /\ n \in Nat \ {0} /\ stmts \in 0 .. MaxStmts /\ First = n + 1
        /\ MaxStmts \in Nat /\ Len(ir'.blocks) = n + 3 /\ 1 .. n + 3 \subseteq AllBlocks
        /\ open \in Seq(Frames) /\ DOMAIN open = 1 .. Len(open) /\ Len(open) \in Nat
    BY BuilderFacts, BuilderAssumption DEF BuilderInv, BlocksNumbered, PendingOpen, GrowsTo, AllBlocks
  <1>21. n = Len(ir.blocks) /\ n \in Nat /\ insert' = n + 1 /\ Len(ir'.blocks) = n + 3
    BY <1>1
  <1>22. n + 1 \in AllBlocks /\ 1 .. n \subseteq AllBlocks
    <2> HIDE DEF n
    <2>1. n + 1 \in 1 .. n + 3 /\ 1 .. n \subseteq 1 .. n + 3
      BY <1>21
    <2> QED BY <1>1, <2>1
  <1>23. DOMAIN open = 1 .. Len(open) /\ Len(open) \in Nat /\ m = Len(open) + 1
    BY <1>1
  <1>2. new \in Frames
    BY <1>22 DEF Frames
  <1>3. /\ open' \in Seq(Frames) /\ DOMAIN open' = 1 .. m /\ Len(open') = m
        /\ open'[m] = new /\ \A i \in DOMAIN open : open'[i] = open[i]
        /\ m \notin DOMAIN open /\ DOMAIN open' = DOMAIN open \cup {m}
    BY <1>1, <1>2
  <1>4. Pending(new) = {n + 2, n + 3}
    BY <1>1 DEF Pending
  <1>20. new.block = n + 1
    OBVIOUS
  <1> HIDE DEF new, m, n
  <1>5. /\ Keeps(ir, ir')
        /\ \A c \in AllBlocks : IsTerminated(ir', c) <=> IsTerminated(ir, c) \/ c = insert
        /\ \A c \in AllBlocks : IsTerminated(ir', c) =>
                c <= Len(ir'.blocks) /\ ToSet(ir'.term[c].to) \subseteq 1 .. Len(ir'.blocks)
    BY GrowKeeps
  <1>6. \A c \in AllBlocks : c > n => ~IsTerminated(ir', c)
    <2>1. \A c \in AllBlocks : IsTerminated(ir, c) => c <= n
      BY <1>21 DEF BuilderInv, BlocksNumbered
    <2>2. insert <= n /\ \A c \in AllBlocks : c \in Int
      BY <1>1 DEF AllBlocks
    <2> QED BY <1>5, <1>21, <2>1, <2>2
  <1>7. IsFunction(ir') /\ EdgesExact(ir') /\ \A i \in 1 .. Len(ir'.blocks) : ir'.blocks[i] = i
    BY DEF GrowsTo
  <1>8. BlocksNumbered'
    <2>1. Len(ir'.blocks) \in 1 .. 1 + 3 * stmts' /\ stmts' \in 0 .. MaxStmts
      BY <1>1, <1>21
    <2>2. insert' \in 1 .. Len(ir'.blocks)
      BY <1>21
    <2> QED BY <1>5, <1>7, <2>1, <2>2 DEF BlocksNumbered
  <1>9. ASSUME NEW i \in DOMAIN open, NEW b \in Pending(open[i])
        PROVE  /\ b \in 1 .. n /\ b # insert /\ ~IsTerminated(ir', b)
               /\ \A j \in DOMAIN open : b \in Pending(open[j]) => i = j
    <2>1. /\ b \in 1 .. n /\ b # insert /\ ~IsTerminated(ir, b)
          /\ \A j \in DOMAIN open : b \in Pending(open[j]) => i = j
      BY <1>21 DEF BuilderInv, PendingOpen
    <2>2. b \in AllBlocks
      BY <1>22, <2>1
    <2> QED BY <1>5, <2>1, <2>2
  <1>10. PendingOpen'
    <2> DEFINE w == Len(ir'.blocks)
    <2>0. w = n + 3
      BY <1>21
    <2> HIDE DEF w
    <2>1. ASSUME NEW i \in DOMAIN open', NEW b \in Pending(open'[i])
          PROVE  /\ b \in 1 .. w /\ b # insert' /\ ~IsTerminated(ir', b)
                 /\ \A j \in DOMAIN open' : b \in Pending(open'[j]) => i = j
      <3>1. CASE i = m
        <4>1. b \in {n + 2, n + 3}
          BY <1>3, <1>4, <3>1
        <4>2. \A j \in DOMAIN open : b \notin Pending(open[j])
          BY <1>1, <1>9, <4>1
        <4>3. b \in 1 .. n + 3 /\ b # insert' /\ ~IsTerminated(ir', b)
          <5>1. b \in 1 .. n + 3 /\ b > n /\ b # n + 1
            BY <1>21, <4>1
          <5> QED BY <1>1, <1>6, <5>1
        <4>4. \A j \in DOMAIN open' : b \in Pending(open'[j]) => i = j
          BY <1>3, <3>1, <4>2
        <4> QED BY <2>0, <4>3, <4>4
      <3>2. CASE i # m
        <4>1. i \in DOMAIN open /\ b \in Pending(open[i])
          BY <1>1, <1>3, <2>1, <3>2
        <4>2. b \notin Pending(new)
          BY <1>1, <1>4, <1>9, <4>1
        <4>3. \A j \in DOMAIN open' : b \in Pending(open'[j]) => i = j
          BY <1>1, <1>3, <1>9, <4>1, <4>2
        <4>4. b \in 1 .. n /\ ~IsTerminated(ir', b)
          BY <1>9, <4>1
        <4>5. b \in 1 .. w /\ b # insert'
          BY <1>21, <2>0, <4>4
        <4> QED BY <4>3, <4>4, <4>5
      <3> QED BY <3>1, <3>2
    <2>2. \A i \in DOMAIN open' : open'[i].block \in 1 .. w
      <3>1. \A i \in DOMAIN open : open[i].block \in 1 .. n
        BY <1>21 DEF BuilderInv, PendingOpen
      <3>2. \A i \in DOMAIN open : open'[i].block \in 1 .. n + 3
        BY <1>3, <1>21, <3>1
      <3>3. open'[m].block \in 1 .. n + 3
        BY <1>3, <1>20, <1>21
      <3> QED BY <1>3, <2>0, <3>2, <3>3
    <2>3. ~IsTerminated(ir', insert')
      <3>1. insert' \in AllBlocks /\ insert' > n
        BY <1>1
      <3> QED BY <1>6, <3>1
    <2>4. open' \in Seq(Frames)
      BY <1>3
    <2>5. ASSUME NEW i \in DOMAIN open', NEW b \in Pending(open'[i])
          PROVE  /\ b \in 1 .. Len(ir'.blocks) /\ b # insert' /\ ~IsTerminated(ir', b)
                 /\ \A j \in DOMAIN open' : b \in Pending(open'[j]) => i = j
      BY <2>1, <2>5 DEF w
    <2>6. \A i \in DOMAIN open' : open'[i].block \in 1 .. Len(ir'.blocks)
      BY <2>2 DEF w
    <2> QED BY <1>3, <2>3, <2>4, <2>5, <2>6 DEF PendingOpen
  <1>11. OthersTerminated'
    <2>1. ASSUME NEW b \in 1 .. n + 3
          PROVE  \/ IsTerminated(ir', b)
                 \/ b = insert'
                 \/ \E i \in DOMAIN open' : b \in Pending(open'[i])
      <3>1. CASE b \in 1 .. n
        <4>1. IsTerminated(ir, b) \/ b = insert \/ \E i \in DOMAIN open : b \in Pending(open[i])
          BY <1>21, <3>1 DEF BuilderInv, OthersTerminated
        <4>2. IsTerminated(ir, b) \/ b = insert => IsTerminated(ir', b)
          BY <1>1, <1>5, <3>1
        <4> QED BY <1>3, <4>1, <4>2
      <3>2. CASE b \in {n + 1, n + 2, n + 3}
        <4>1. b = insert' \/ b \in Pending(open'[m])
          BY <1>1, <1>3, <1>4, <3>2
        <4> QED BY <1>3, <4>1
      <3>3. b \in 1 .. n \/ b \in {n + 1, n + 2, n + 3}
        BY <1>21, <2>1, ThreeMore
      <3> QED BY <3>1, <3>2, <3>3
    <2> QED BY <1>1, <2>1 DEF BuilderInv, OthersTerminated
  <1> QED BY <1>5, <1>7, <1>8, <1>10, <1>11 DEF BuilderInv

LEMMA BeginIfKeeps ==
  ASSUME BuilderInv, NEW e, BeginIf(e)
  PROVE  BuilderInv' /\ Keeps(ir, ir')
  <1> DEFINE val == Operand(e, stmts)
             second == First + 1
             t == CondBr(val, First, second)
  <1>1. /\ stmts < MaxStmts /\ ~IsTerminated(ir, insert) /\ ~built /\ ~Inside("cond")
        /\ ir' = Terminate(Emit(CreateBlocks(ir, 3), insert, Code(e, stmts)), insert, t)
        /\ insert' = First /\ open' = Append(open, [part |-> "then", block |-> First])
        /\ stmts' = stmts + 1 /\ built' = built
    BY DEF BeginIf, AtStatement, AtExpression
  <1>2. /\ First \in AllBlocks /\ First + 1 \in AllBlocks
        /\ {First, First + 1} \subseteq 1 .. Len(ir.blocks) + 3
    BY <1>1, NewBlocks
  <1>3. t # NoTerm /\ Ends(t) /\ ToSet(t.to) = {First, First + 1}
    <2>1. First \in AllBlocks /\ second \in AllBlocks
      BY <1>2
    <2>2. EndsTo(t, First, second)
      <3> HIDE DEF val, second
      <3> QED BY <2>1, CondTerminator
    <2> HIDE DEF t
    <2> QED BY <2>2 DEF EndsTo
  <1> HIDE DEF t
  <1>4. 3 \in 1 .. 3 /\ ToSet(t.to) \subseteq 1 .. Len(ir.blocks) + 3
    BY <1>2, <1>3
  <1>5. GrownBy(ir', 3, t)
    BY <1>1, <1>3, <1>4, CodeList, GrowFacts
  <1> QED BY <1>1, <1>5, BeginKeeps DEF GrownBy

LEMMA BeginWhileKeeps ==
  ASSUME BuilderInv, BeginWhile
  PROVE  BuilderInv' /\ Keeps(ir, ir')
  <1> DEFINE t == Br(First)
  <1>1. /\ stmts < MaxStmts /\ ~IsTerminated(ir, insert) /\ ~built /\ ~Inside("cond")
        /\ ir' = Terminate(CreateBlocks(ir, 3), insert, t)
        /\ insert' = First /\ open' = Append(open, [part |-> "cond", block |-> First])
        /\ stmts' = stmts + 1 /\ built' = built
    BY DEF BeginWhile, AtStatement, AtExpression
  <1>2. First \in AllBlocks /\ {First} \subseteq 1 .. Len(ir.blocks) + 3
    BY <1>1, NewBlocks
  <1>3. t # NoTerm /\ Ends(t) /\ ToSet(t.to) = {First}
    BY <1>2, Terminators
  <1> HIDE DEF t
  <1>4. 3 \in 1 .. 3 /\ ToSet(t.to) \subseteq 1 .. Len(ir.blocks) + 3
    BY <1>2, <1>3
  <1>5. GrownBy(ir', 3, t)
    BY <1>1, <1>3, <1>4, ShortLists, GrowFacts
  <1> QED BY <1>1, <1>5, BeginKeeps DEF GrownBy

LEMMA WhileCondKeeps ==
  ASSUME BuilderInv, NEW e, WhileCond(e)
  PROVE  BuilderInv' /\ Keeps(ir, ir')
  <1> DEFINE n == Len(open)
             B == Innermost.block
             id == MaxStmts + insert
             g == Emit(ir, insert, Code(e, id))
             val == Operand(e, id)
             last == B + 1 + 1
             t == CondBr(val, B + 1, last)
  <1>1. /\ Inside("cond") /\ ir' = Terminate(g, insert, t) /\ insert' = B + 1
        /\ open' = [open EXCEPT ![n].part = "body"] /\ stmts' = stmts /\ built' = built
    BY DEF WhileCond
  <1>2. /\ n \in DOMAIN open /\ open[n].part = "cond" /\ open[n].block = B /\ B \in 1 .. Len(ir.blocks)
        /\ open' \in Seq(Frames) /\ DOMAIN open' = DOMAIN open
        /\ \A i \in DOMAIN open :
                open'[i] = IF i = n THEN [part |-> "body", block |-> B] ELSE open[i]
    BY <1>1, InnermostFacts
  <1>3. Pending(open[n]) = {B + 1, B + 2} /\ Pending(open'[n]) = {B + 2} /\ B + 1 # B + 2
        /\ B + 1 + 1 = B + 2
    BY <1>2, BuilderFacts DEF Pending
  <1>4. \A i \in DOMAIN open : Pending(open'[i]) \subseteq Pending(open[i])
    BY <1>2, <1>3
  <1>5. \A i \in DOMAIN open : i # n => open'[i] = open[i]
    BY <1>2
  <1> HIDE DEF B, n, id
  <1>6. /\ B + 1 \in 1 .. Len(ir.blocks) /\ B + 2 \in 1 .. Len(ir.blocks)
        /\ B + 1 # insert /\ B + 2 # insert
        /\ ~IsTerminated(ir, B + 1) /\ ~IsTerminated(ir, insert)
        /\ \A j \in DOMAIN open : B + 1 \in Pending(open[j]) => j = n
    BY <1>1, <1>2, <1>3 DEF BuilderInv, PendingOpen
  <1>7. insert \in AllBlocks /\ ir.term[insert] = NoTerm /\ B + 1 \in AllBlocks /\ B + 1 + 1 \in AllBlocks
        /\ 1 .. Len(ir.blocks) \subseteq AllBlocks
    BY <1>3, <1>6, BuilderFacts
  <1>8. t # NoTerm /\ Ends(t) /\ ToSet(t.to) = {B + 1, B + 1 + 1}
    <2> DEFINE first == B + 1
    <2>1. first \in AllBlocks /\ last \in AllBlocks
      BY <1>7
    <2>2. t = CondBr(val, first, last)
      OBVIOUS
    <2>3. EndsTo(t, first, last)
      <3> HIDE DEF t, val, first, last
      <3> QED BY <2>1, <2>2, CondTerminator
    <2> HIDE DEF t
    <2> QED BY <2>3 DEF EndsTo
  <1>9. /\ IsFunction(g) /\ EdgesExact(g)
        /\ g.blocks = ir.blocks /\ g.term = ir.term /\ g.succ = ir.succ
        /\ \A c \in AllBlocks \ {insert} : g.body[c] = ir.body[c]
    BY <1>7, CodeList, EmitFacts DEF BuilderInv
  <1> HIDE DEF t, g
  <1>10. EndsWith(ir', g, insert, t)
    BY <1>1, <1>7, <1>8, <1>9, TerminateFacts DEF MayEnd
  <1>11. /\ IsFunction(ir') /\ EdgesExact(ir') /\ ir'.blocks = ir.blocks /\ ir'.term[insert] = t
         /\ \A c \in AllBlocks \ {insert} :
                ir'.term[c] = ir.term[c] /\ ir'.succ[c] = ir.succ[c] /\ ir'.body[c] = ir.body[c]
    BY <1>9, <1>10 DEF EndsWith
  <1>12. Keeps(ir, ir')
    BY <1>6, <1>11 DEF Keeps
  <1>13. \A c \in AllBlocks : IsTerminated(ir', c) <=> IsTerminated(ir, c) \/ c = insert
    BY <1>7, <1>8, <1>11 DEF IsTerminated
  <1>14. \A c \in AllBlocks : IsTerminated(ir', c) =>
                c <= Len(ir.blocks) /\ ToSet(ir'.term[c].to) \subseteq 1 .. Len(ir.blocks)
    <2> SUFFICES ASSUME NEW c \in AllBlocks, IsTerminated(ir', c)
                 PROVE  c <= Len(ir.blocks) /\ ToSet(ir'.term[c].to) \subseteq 1 .. Len(ir.blocks)
      OBVIOUS
    <2>1. CASE c = insert
      <3>1. insert <= Len(ir.blocks)
        BY DEF BuilderInv, BlocksNumbered
      <3> QED BY <1>3, <1>6, <1>8, <1>11, <2>1, <3>1
    <2>2. CASE c # insert
      BY <1>11, <1>13, <2>2 DEF BuilderInv, BlocksNumbered
    <2> QED BY <2>1, <2>2
  <1>15. BlocksNumbered'
    BY <1>1, <1>6, <1>11, <1>14 DEF BuilderInv, BlocksNumbered
  <1>16. PendingOpen'
    <2>1. \A i \in DOMAIN open : \A b \in Pending(open'[i]) :
            /\ b \in 1 .. Len(ir.blocks) /\ b # insert'
            /\ ~IsTerminated(ir', b)
            /\ \A j \in DOMAIN open : b \in Pending(open'[j]) => i = j
      <3> SUFFICES ASSUME NEW i \in DOMAIN open, NEW b \in Pending(open'[i])
                   PROVE  /\ b \in 1 .. Len(ir.blocks) /\ b # insert'
                          /\ ~IsTerminated(ir', b)
                          /\ \A j \in DOMAIN open : b \in Pending(open'[j]) => i = j
        OBVIOUS
      <3>1. b \in Pending(open[i])
        BY <1>4
      <3>2. /\ b \in 1 .. Len(ir.blocks) /\ b # insert /\ ~IsTerminated(ir, b)
            /\ \A j \in DOMAIN open : b \in Pending(open[j]) => i = j
        BY <3>1 DEF BuilderInv, PendingOpen
      <3>3. b # insert'
        BY <1>1, <1>3, <1>6, <3>1
      <3>4. ~IsTerminated(ir', b)
        BY <1>7, <1>13, <3>2
      <3> QED BY <1>4, <3>2, <3>3, <3>4
    <2>2. \A i \in DOMAIN open : open'[i].block \in 1 .. Len(ir.blocks)
      BY <1>2, <1>5 DEF BuilderInv, PendingOpen
    <2>3. ~Inside("cond")'
      <3>1. Len(open') = n
        BY <1>2, LenProperties DEF n, BuilderInv, PendingOpen
      <3> QED BY <1>2, <3>1 DEF Inside, Innermost
    <2> QED BY <1>2, <1>11, <2>1, <2>2, <2>3 DEF PendingOpen
  <1>17. OthersTerminated'
    <2> SUFFICES ASSUME NEW b \in 1 .. Len(ir.blocks)
                 PROVE  \/ IsTerminated(ir', b)
                        \/ b = insert'
                        \/ \E i \in DOMAIN open : b \in Pending(open'[i])
      <3>1. ~built
        BY <1>1 DEF BuilderInv, OthersTerminated, Inside
      <3> QED BY <1>1, <1>2, <1>11, <3>1 DEF BuilderInv, OthersTerminated
    <2>1. CASE IsTerminated(ir, b) \/ b = insert
      BY <1>7, <1>13, <2>1
    <2>2. CASE \E i \in DOMAIN open : b \in Pending(open[i])
      BY <1>1, <1>2, <1>3, <1>5, <2>2
    <2> QED BY <2>1, <2>2 DEF BuilderInv, OthersTerminated
  <1> QED BY <1>11, <1>12, <1>15, <1>16, <1>17 DEF BuilderInv

LEMMA IndexCheckKeeps ==
  ASSUME BuilderInv, NEW e, IndexCheck(e)
  PROVE  BuilderInv' /\ Keeps(ir, ir')
  <1> DEFINE n == Len(ir.blocks)
             t == CondBr(Operand(e, stmts), First, First + 1)
             u == Br(First + 1)
             h == Terminate(Emit(CreateBlocks(ir, 2), insert, Code(e, stmts)), insert, t)
  <1>1. /\ stmts < MaxStmts /\ ~IsTerminated(ir, insert) /\ ~built
        /\ ir' = Terminate(h, First, u) /\ insert' = First + 1
        /\ open' = open /\ stmts' = stmts + 1 /\ built' = built
    BY DEF IndexCheck, AtExpression
  <1>2. /\ First = n + 1 /\ First \in AllBlocks /\ First + 1 \in AllBlocks /\ n \in Nat
        /\ {First, First + 1} \subseteq 1 .. n + 2
    BY <1>1, NewBlocks
  <1>3. t # NoTerm /\ Ends(t) /\ ToSet(t.to) = {First, First + 1}
    <2>1. /\ t.to = <<First, First + 1>> /\ t.op = "br" /\ NoTerm.op = "none"
          /\ t = [op |-> t.op, val |-> t.val, to |-> t.to]
      BY DEF CondBr, NoTerm
    <2>2. \A x \in AllBlocks, y \in AllBlocks :
            <<x, y>> \in Seq(AllBlocks) /\ Len(<<x, y>>) = 2 /\ ToSet(<<x, y>>) = {x, y}
      BY DEF ToSet
    <2> HIDE DEF t
    <2>3. IsTerminator(t)
      BY <1>2, <2>1, <2>2 DEF IsTerminator
    <2> QED BY <1>2, <2>1, <2>2, <2>3 DEF Ends
  <1>4. u # NoTerm /\ Ends(u) /\ ToSet(u.to) = {First + 1}
    BY <1>2, Terminators
  <1> HIDE DEF t, u
  <1>5. 2 \in 1 .. 3 /\ ToSet(t.to) \subseteq 1 .. Len(ir.blocks) + 2
    BY <1>2, <1>3
  <1>6. GrownBy(h, 2, t)
    BY <1>1, <1>3, <1>5, CodeList, GrowFacts
  <1> HIDE DEF h
  <1>7. /\ Keeps(ir, h) /\ Len(h.blocks) = n + 2 /\ IsFunction(h) /\ EdgesExact(h)
        /\ \A c \in AllBlocks : IsTerminated(h, c) <=> IsTerminated(ir, c) \/ c = insert
        /\ \A c \in AllBlocks : IsTerminated(h, c) =>
                c <= Len(h.blocks) /\ ToSet(h.term[c].to) \subseteq 1 .. Len(h.blocks)
    <2>1. GrowsTo(h, 2, t) /\ 2 \in 1 .. 3
      BY <1>6 DEF GrownBy
    <2> QED BY <1>1, <2>1, GrowKeeps DEF GrowsTo
  <1>8. /\ insert \in 1 .. n /\ stmts \in 0 .. MaxStmts /\ MaxStmts \in Nat
        /\ \A c \in AllBlocks : IsTerminated(ir, c) => c <= n
    BY BuilderAssumption DEF BuilderInv, BlocksNumbered
  <1>9. ~IsTerminated(ir, First) /\ ~IsTerminated(h, First) /\ ~IsTerminated(ir, First + 1)
    BY <1>2, <1>7, <1>8
  <1>10. EndsWith(ir', h, First, u)
    <2>1. MayEnd(h, First, u)
      BY <1>2, <1>4, <1>7, <1>9 DEF MayEnd, IsTerminated
    <2> QED BY <1>1, <2>1, TerminateFacts
  <1>11. /\ IsFunction(ir') /\ EdgesExact(ir') /\ ir'.blocks = h.blocks /\ ir'.term[First] = u
         /\ \A c \in AllBlocks \ {First} :
                ir'.term[c] = h.term[c] /\ ir'.succ[c] = h.succ[c] /\ ir'.body[c] = h.body[c]
    BY <1>10 DEF EndsWith
  <1>12. Keeps(ir, ir')
    BY <1>7, <1>9, <1>11 DEF Keeps
  <1>13. \A c \in AllBlocks : IsTerminated(ir', c) <=> IsTerminated(ir, c) \/ c = insert \/ c = First
    BY <1>2, <1>4, <1>7, <1>11 DEF IsTerminated
  <1>14. \A c \in AllBlocks : IsTerminated(ir', c) =>
                c <= n + 2 /\ ToSet(ir'.term[c].to) \subseteq 1 .. n + 2
    <2> SUFFICES ASSUME NEW c \in AllBlocks, IsTerminated(ir', c)
                 PROVE  c <= n + 2 /\ ToSet(ir'.term[c].to) \subseteq 1 .. n + 2
      OBVIOUS
    <2>1. CASE c = First
      BY <1>2, <1>4, <1>11, <2>1
    <2>2. CASE c # First
      BY <1>7, <1>11, <1>13, <2>2
    <2> QED BY <2>1, <2>2
  <1>15. BlocksNumbered'
    <2>1. Len(ir'.blocks) = n + 2 /\ \A i \in 1 .. n + 2 : ir'.blocks[i] = i
      BY <1>6, <1>7, <1>11 DEF GrownBy, GrowsTo
    <2>2. n + 2 <= 1 + 3 * (stmts + 1)
      BY <1>6 DEF GrownBy
    <2>3. stmts + 1 \in 0 .. MaxStmts /\ n + 2 \in 1 .. 1 + 3 * (stmts + 1) /\ First + 1 \in 1 .. n + 2
      BY <1>1, <1>2, <1>8, <2>2
    <2> QED BY <1>1, <1>14, <2>1, <2>3 DEF BlocksNumbered
  <1>16. ~IsTerminated(ir', insert')
    BY <1>1, <1>2, <1>8, <1>9, <1>13
  <1>17. \A i \in DOMAIN open : \A b \in Pending(open[i]) :
            /\ b \in 1 .. n + 2 /\ b # First + 1 /\ ~IsTerminated(ir', b)
            /\ \A j \in DOMAIN open : b \in Pending(open[j]) => i = j
    <2> SUFFICES ASSUME NEW i \in DOMAIN open, NEW b \in Pending(open[i])
                 PROVE  /\ b \in 1 .. n + 2 /\ b # First + 1 /\ ~IsTerminated(ir', b)
                        /\ \A j \in DOMAIN open : b \in Pending(open[j]) => i = j
      OBVIOUS
    <2>1. /\ b \in 1 .. n /\ b # insert /\ ~IsTerminated(ir, b)
          /\ \A j \in DOMAIN open : b \in Pending(open[j]) => i = j
      BY DEF BuilderInv, PendingOpen
    <2>2. b \in AllBlocks
      BY <2>1, BuilderFacts
    <2>3. b \in 1 .. n + 2 /\ b # First + 1 /\ b # First
      BY <1>2, <2>1
    <2> QED BY <1>13, <2>1, <2>2, <2>3
  <1>18. PendingOpen'
    <2>1. Len(ir'.blocks) = n + 2
      BY <1>7, <1>11
    <2>2. \A i \in DOMAIN open : open[i].block \in 1 .. n + 2
      BY <1>2 DEF BuilderInv, PendingOpen
    <2>3. open \in Seq(Frames)
      BY DEF BuilderInv, PendingOpen
    <2> QED BY <1>1, <1>16, <1>17, <2>1, <2>2, <2>3 DEF PendingOpen
  <1>19. OthersTerminated'
    <2>1. Len(ir'.blocks) = n + 2
      BY <1>7, <1>11
    <2>2. ASSUME NEW b \in 1 .. n + 2
          PROVE  IsTerminated(ir', b) \/ b = First + 1 \/ \E i \in DOMAIN open : b \in Pending(open[i])
      <3>1. CASE b \in 1 .. n
        <4>1. IsTerminated(ir, b) \/ b = insert \/ \E i \in DOMAIN open : b \in Pending(open[i])
          BY <3>1 DEF BuilderInv, OthersTerminated
        <4>2. b \in AllBlocks
          BY <3>1, BuilderFacts
        <4> QED BY <1>13, <4>1, <4>2
      <3>2. CASE b = n + 1 \/ b = n + 2
        BY <1>2, <1>13, <3>2
      <3> QED BY <1>2, <3>1, <3>2
    <2> QED BY <1>1, <2>1, <2>2 DEF BuilderInv, OthersTerminated
  <1> QED BY <1>11, <1>12, <1>15, <1>18, <1>19 DEF BuilderInv

LEMMA EndFunctionKeeps ==
  ASSUME BuilderInv, EndFunction
  PROVE  BuilderInv' /\ Keeps(ir, ir')
  <1> DEFINE t == Ret(Const(0))
  <1>1. /\ ~built /\ open = <<>> /\ built' = TRUE /\ insert' = insert /\ open' = open /\ stmts' = stmts
        /\ ir' = IF IsTerminated(ir, insert) THEN ir ELSE Terminate(ir, insert, t)
    BY DEF EndFunction
  <1>2. /\ IsFunction(ir) /\ EdgesExact(ir) /\ insert \in 1 .. Len(ir.blocks) /\ insert \in AllBlocks
        /\ \A c \in AllBlocks : IsTerminated(ir, c) =>
                c <= Len(ir.blocks) /\ ToSet(ir.term[c].to) \subseteq 1 .. Len(ir.blocks)
    BY BuilderFacts DEF BuilderInv, BlocksNumbered
  <1>3. /\ IsFunction(ir') /\ EdgesExact(ir') /\ Keeps(ir, ir') /\ ir'.blocks = ir.blocks
        /\ \A c \in AllBlocks : IsTerminated(ir', c) <=> IsTerminated(ir, c) \/ c = insert
        /\ \A c \in AllBlocks : IsTerminated(ir', c) =>
                c <= Len(ir.blocks) /\ ToSet(ir'.term[c].to) \subseteq 1 .. Len(ir.blocks)
    <2>1. CASE IsTerminated(ir, insert)
      BY <1>1, <1>2, <2>1 DEF Keeps
    <2>2. CASE ~IsTerminated(ir, insert)
      <3>1. t # NoTerm /\ Ends(t) /\ ToSet(t.to) = {}
        BY Terminators
      <3> HIDE DEF t
      <3>2. MayEnd(ir, insert, t)
        BY <1>2, <2>2, <3>1 DEF MayEnd, IsTerminated
      <3>3. EndsWith(ir', ir, insert, t)
        BY <1>1, <2>2, <3>2, TerminateFacts
      <3>4. \A c \in AllBlocks : IsTerminated(ir', c) <=> IsTerminated(ir, c) \/ c = insert
        BY <1>2, <3>1, <3>3 DEF EndsWith, IsTerminated
      <3>5. Keeps(ir, ir')
        BY <2>2, <3>3 DEF Keeps, EndsWith
      <3>6. \A c \in AllBlocks : IsTerminated(ir', c) =>
                c <= Len(ir.blocks) /\ ToSet(ir'.term[c].to) \subseteq 1 .. Len(ir.blocks)
        <4> SUFFICES ASSUME NEW c \in AllBlocks, IsTerminated(ir', c)
                     PROVE  c <= Len(ir.blocks) /\ ToSet(ir'.term[c].to) \subseteq 1 .. Len(ir.blocks)
          OBVIOUS
        <4>1. CASE c = insert
          BY <1>2, <3>1, <3>3, <4>1 DEF EndsWith
        <4>2. CASE c # insert
          BY <1>2, <3>3, <3>4, <4>2 DEF EndsWith
        <4> QED BY <4>1, <4>2
      <3> QED BY <3>3, <3>4, <3>5, <3>6 DEF EndsWith
    <2> QED BY <2>1, <2>2
  <1>4. BlocksNumbered'
    BY <1>1, <1>3 DEF BuilderInv, BlocksNumbered
  <1>5. PendingOpen'
    BY <1>1, <1>3 DEF BuilderInv, PendingOpen, Inside
  <1>6. OthersTerminated'
    BY <1>1, <1>2, <1>3, BuilderFacts DEF BuilderInv, OthersTerminated
  <1> QED BY <1>3, <1>4, <1>5, <1>6 DEF BuilderInv

LEMMA BuildKeeps ==
  ASSUME BuilderInv, Build
  PROVE  BuilderInv' /\ Keeps(ir, ir')
  <1>1. CASE \E v \in Vars : \E e \in Expressions(Numbers) \ {<<"var", v>>} : Assign(v, e)
    BY <1>1, AssignKeeps
  <1>2. CASE \E e \in Expressions(Numbers) : Return(e)
    BY <1>2, ReturnKeeps
  <1>3. ASSUME NEW e, IndexCheck(e) \/ BeginIf(e) \/ WhileCond(e)
        PROVE  BuilderInv' /\ Keeps(ir, ir')
    BY <1>3, IndexCheckKeeps, BeginIfKeeps, WhileCondKeeps
  <1>4. CASE EndThen \/ EndElse \/ BeginWhile \/ EndWhile \/ EndFunction
    BY <1>4, EndThenKeeps, EndElseKeeps, BeginWhileKeeps, EndWhileKeeps, EndFunctionKeeps
  <1> QED BY <1>1, <1>2, <1>3, <1>4 DEF Build

LEMMA InitBuilderInv ==
  ASSUME BuilderInit
  PROVE  BuilderInv
  <1> DEFINE instrs == [i \in 1 .. Cardinality(Params) |->
                            LET v == SetToSeq(Params)[i] IN Store(v, Arg(v))]
  <1>1. ir = Emit(NewFunction, Entry, instrs) /\ insert = 1 /\ open = <<>> /\ stmts = 0 /\ built = FALSE
    BY DEF BuilderInit, Entry
  <1>2. 1 \in AllBlocks
    BY BuilderAssumption DEF AllBlocks
  <1>3. /\ NewFunction.blocks = <<1>> /\ NewFunction.succ = [b \in AllBlocks |-> <<>>]
        /\ NewFunction.pred = [b \in AllBlocks |-> <<>>] /\ NewFunction.term = [b \in AllBlocks |-> NoTerm]
        /\ NewFunction.body = [b \in AllBlocks |-> <<>>]
        /\ NewFunction.phis = [b \in AllBlocks |-> <<>>]
        /\ NewFunction = [blocks |-> NewFunction.blocks, succ |-> NewFunction.succ,
                            pred |-> NewFunction.pred, term |-> NewFunction.term,
                            phis |-> NewFunction.phis, body |-> NewFunction.body]
        /\ NoTerm.to = <<>>
    BY DEF NewFunction, NoTerm, Entry
  <1>9. <<1>> \in Seq(AllBlocks) /\ <<>> \in Seq(AllBlocks) /\ Len(<<1>>) = 1 /\ <<1>>[1] = 1
    BY <1>2
  <1>10. IsFunction(NewFunction)
    BY <1>3, <1>9, ShortLists, Terminators DEF IsFunction
  <1>4. EdgesExact(NewFunction)
    BY <1>3 DEF EdgesExact, ToSet
  <1>11. IsList(instrs)
    <2>1. Cardinality(Params) \in Nat
      BY BuilderAssumption, FS_CardinalityType
    <2>2. instrs = [i \in 1 .. Cardinality(Params) |-> instrs[i]]
      OBVIOUS
    <2> HIDE DEF instrs
    <2> QED BY <2>1, <2>2, ListOf
  <1> HIDE DEF instrs
  <1>5. IsFunction(ir) /\ EdgesExact(ir) /\ ir.blocks = <<1>> /\ ir.term = [b \in AllBlocks |-> NoTerm]
    BY <1>1, <1>2, <1>3, <1>4, <1>10, <1>11, EmitFacts DEF Entry
  <1>6. BlocksNumbered
    BY <1>1, <1>5, BuilderAssumption DEF BlocksNumbered, IsTerminated
  <1>7. PendingOpen
    BY <1>1 DEF PendingOpen, Inside
  <1>8. OthersTerminated
    <2>1. \A b \in 1 .. Len(ir.blocks) : b = insert
      BY <1>1, <1>5, <1>9
    <2> QED BY <1>1, <2>1 DEF OthersTerminated
  <1> QED BY <1>5, <1>6, <1>7, <1>8 DEF BuilderInv

(* The invariant of the builder, for every program. *)
THEOREM BuilderInvariance == BuilderSpec => []BuilderInv
  <1>1. BuilderInv /\ [Build]_<<ir, builderVars>> => BuilderInv'
    <2> SUFFICES ASSUME BuilderInv, UNCHANGED <<ir, builderVars>> PROVE BuilderInv'
      BY BuildKeeps
    <2> QED BY DEF BuilderInv, BlocksNumbered, PendingOpen, OthersTerminated, Inside, Innermost,
                   builderVars, IsTerminated
  <1> QED BY <1>1, InitBuilderInv, PTL DEF BuilderSpec

(* For every program, no statement writes behind a terminator: the builder   *)
(* looks for one before it adds a branch, and where it does not look, the    *)
(* block it is at was created by the same statement and is still open.       *)
THEOREM TerminatorsLast == BuilderSpec => NothingAfterTerminator
  <1>1. BuilderInv /\ [Build]_<<ir, builderVars>> =>
            [~built => \A b \in Blocks : IsTerminated(ir, b) =>
                ir'.term[b] = ir.term[b] /\ ir'.body[b] = ir.body[b] /\ ir'.succ[b] = ir.succ[b]]_<<ir, builderVars>>
    BY BuildKeeps, BuilderFacts DEF Keeps
  <1> QED BY <1>1, BuilderInvariance, PTL DEF BuilderSpec, NothingAfterTerminator

LEMMA BuilderEdges ==
  ASSUME BuilderInv
  PROVE  EdgesMatchBranches(ir) /\ AllTerminated
  <1>1. ToSet(ir.blocks) = 1 .. Len(ir.blocks) /\ 1 .. Len(ir.blocks) \subseteq AllBlocks
    BY BuilderFacts DEF Blocks
  <1>2. \A b \in AllBlocks : /\ ToSet(ir.succ[b]) = ToSet(ir.term[b].to)
                             /\ ToSet(ir.pred[b]) = {p \in AllBlocks : b \in ToSet(ir.term[p].to)}
    BY DEF BuilderInv, EdgesExact
  <1>3. \A b \in AllBlocks : \A s \in ToSet(ir.term[b].to) :
          b \in 1 .. Len(ir.blocks) /\ s \in 1 .. Len(ir.blocks)
    BY Terminators DEF BuilderInv, BlocksNumbered, IsTerminated, AllBlocks
  <1>4. EdgesMatchBranches(ir)
    <2> DEFINE blocks == ToSet(ir.blocks)
               branches == UNION {{<<b, s>> : s \in ToSet(ir.term[b].to)} : b \in blocks}
    <2>1. branches = UNION {{<<b, s>> : s \in ToSet(ir.succ[b])} : b \in blocks}
      BY <1>1, <1>2
    <2>2. branches = UNION {{<<p, b>> : p \in ToSet(ir.pred[b])} : b \in blocks}
      BY <1>1, <1>2, <1>3
    <2>3. \A e \in branches : e[2] \in blocks
      BY <1>1, <1>3
    <2> QED BY <2>1, <2>2, <2>3 DEF EdgesMatchBranches
  <1>5. AllTerminated
    BY <1>1 DEF AllTerminated, Blocks, BuilderInv, OthersTerminated
  <1> QED BY <1>4, <1>5

(* At all times the edge lists of the blocks are those of the branches, and  *)
(* in the end every block has a terminator.                                  *)
THEOREM BuilderGraph == BuilderSpec => [](EdgesMatchBranches(ir) /\ AllTerminated)
  BY BuilderInvariance, BuilderEdges, PTL

-----------------------------------------------------------------------------
(* The passes. *)

(* h has the blocks and branches of g, and its edge lists. *)
SameGraph(g, h) ==
    /\ IsFunction(h)
    /\ h.blocks = g.blocks /\ h.succ = g.succ /\ h.pred = g.pred
    /\ \A b \in AllBlocks : h.term[b].op = g.term[b].op /\ h.term[b].to = g.term[b].to

LEMMA NewPhis ==
  ASSUME NEW g, IsFunction(g), NEW phis, phis = [b \in AllBlocks |-> phis[b]],
         \A b \in AllBlocks : IsList(phis[b])
  PROVE  SameGraph(g, [g EXCEPT !.phis = phis])
  <1>1. [g EXCEPT !.phis = phis]
            = [blocks |-> g.blocks, succ |-> g.succ, pred |-> g.pred, term |-> g.term,
               phis |-> phis, body |-> g.body]
    <2>1. g = [blocks |-> g.blocks, succ |-> g.succ, pred |-> g.pred, term |-> g.term,
               phis |-> g.phis, body |-> g.body]
      BY DEF IsFunction
    <2> QED BY <2>1
  <1>2. IsFunction([blocks |-> g.blocks, succ |-> g.succ, pred |-> g.pred, term |-> g.term,
               phis |-> phis, body |-> g.body])
    BY FunctionBy DEF IsFunction
  <1> QED BY <1>1, <1>2 DEF SameGraph

LEMMA NewBody ==
  ASSUME NEW g, IsFunction(g), NEW body, body = [b \in AllBlocks |-> body[b]],
         \A b \in AllBlocks : IsList(body[b])
  PROVE  SameGraph(g, [g EXCEPT !.body = body])
  <1>1. [g EXCEPT !.body = body]
            = [blocks |-> g.blocks, succ |-> g.succ, pred |-> g.pred, term |-> g.term,
               phis |-> g.phis, body |-> body]
    <2>1. g = [blocks |-> g.blocks, succ |-> g.succ, pred |-> g.pred, term |-> g.term,
               phis |-> g.phis, body |-> g.body]
      BY DEF IsFunction
    <2> QED BY <2>1
  <1>2. IsFunction([blocks |-> g.blocks, succ |-> g.succ, pred |-> g.pred, term |-> g.term,
               phis |-> g.phis, body |-> body])
    BY FunctionBy DEF IsFunction
  <1> QED BY <1>1, <1>2 DEF SameGraph

LEMMA SameGraphFacts ==
  /\ \A g : IsFunction(g) => SameGraph(g, g)
  /\ \A g, h, k : SameGraph(g, h) /\ SameGraph(h, k) => SameGraph(g, k)
  BY DEF SameGraph

LEMMA ReplaceFacts ==
  ASSUME NEW g, IsFunction(g), NEW old, NEW new
  PROVE  SameGraph(g, ReplaceAllUses(g, old, new))
  <1> DEFINE h == ReplaceAllUses(g, old, new)
             term == h.term
             body == h.body
             phis == h.phis
  <1>1. /\ h = [blocks |-> g.blocks, succ |-> g.succ, pred |-> g.pred, term |-> term,
                phis |-> phis, body |-> body]
        /\ body = [b \in AllBlocks |-> body[b]] /\ phis = [b \in AllBlocks |-> phis[b]]
        /\ \A b \in AllBlocks : IsList(body[b]) /\ IsList(phis[b])
        /\ term = [b \in AllBlocks |->
                    [g.term[b] EXCEPT !.val = IF g.term[b].val = old THEN new ELSE g.term[b].val]]
    <2>1. g = [blocks |-> g.blocks, succ |-> g.succ, pred |-> g.pred, term |-> g.term,
               phis |-> g.phis, body |-> g.body]
          /\ g.term = [b \in AllBlocks |-> g.term[b]] /\ g.body = [b \in AllBlocks |-> g.body[b]]
          /\ g.phis = [b \in AllBlocks |-> g.phis[b]]
          /\ \A b \in AllBlocks : IsList(g.body[b]) /\ IsList(g.phis[b])
      BY DEF IsFunction
    <2> DEFINE subst(val) == IF val = old THEN new ELSE val
               inOperands(inst) ==
                    [inst EXCEPT !.args = [k \in DOMAIN inst.args |-> subst(inst.args[k])]]
               inValue(x) == [x EXCEPT !.val = subst(x.val)]
               inPhi(phi) == [phi EXCEPT !.inc = [k \in DOMAIN phi.inc |-> inValue(phi.inc[k])]]
               newTerm == [b \in AllBlocks |-> inValue(g.term[b])]
               newBody == [b \in AllBlocks |-> [i \in DOMAIN g.body[b] |-> inOperands(g.body[b][i])]]
               newPhis == [b \in AllBlocks |-> [i \in DOMAIN g.phis[b] |-> inPhi(g.phis[b][i])]]
    <2>2. h = [g EXCEPT !.body = newBody, !.term = newTerm, !.phis = newPhis]
      BY Zenon DEF ReplaceAllUses
    <2>3. /\ newBody = [b \in AllBlocks |-> newBody[b]] /\ newPhis = [b \in AllBlocks |-> newPhis[b]]
      OBVIOUS
    <2>6. ASSUME NEW b \in AllBlocks PROVE IsList(newBody[b]) /\ IsList(newPhis[b])
      <3> DEFINE s == g.body[b]
                 p == g.phis[b]
                 s1 == newBody[b]
                 p1 == newPhis[b]
      <3>1. /\ Len(s) \in Nat /\ DOMAIN s = 1 .. Len(s)
            /\ Len(p) \in Nat /\ DOMAIN p = 1 .. Len(p)
        BY <2>1, ListFacts
      <3>2. s1 = [i \in DOMAIN s |-> s1[i]] /\ p1 = [i \in DOMAIN p |-> p1[i]]
        OBVIOUS
      <3> HIDE DEF s, p, s1, p1
      <3>3. IsList(s1) /\ IsList(p1)
        BY <3>1, <3>2, ListOf
      <3> QED BY <3>3 DEF s1, p1
    <2> HIDE DEF newTerm, newBody, newPhis, h
    <2>4. h = [blocks |-> g.blocks, succ |-> g.succ, pred |-> g.pred, term |-> newTerm,
               phis |-> newPhis, body |-> newBody]
      BY <2>1, <2>2
    <2>5. h.body = newBody /\ h.term = newTerm /\ h.phis = newPhis
      BY <2>4
    <2> QED BY <2>3, <2>4, <2>5, <2>6 DEF newTerm
  <1>2. \A b \in AllBlocks : IsTerminator(g.term[b])
    BY DEF IsFunction
  <1>3. ASSUME NEW b \in AllBlocks
        PROVE  IsTerminator(term[b]) /\ term[b].op = g.term[b].op /\ term[b].to = g.term[b].to
    <2> DEFINE t == g.term[b]
    <2>1. IsTerminator(t) /\ term[b] = [t EXCEPT !.val = IF t.val = old THEN new ELSE t.val]
      BY <1>1, <1>2
    <2> HIDE DEF t
    <2>2. IsTerminator(term[b]) /\ term[b].op = t.op /\ term[b].to = t.to
      BY <2>1 DEF IsTerminator
    <2> QED BY <2>2 DEF t
  <1> HIDE DEF h, term, body, phis
  <1>4. term = [b \in AllBlocks |-> term[b]]
    BY <1>1
  <1>5. IsFunction(h)
    <2>1. IsFunction([blocks |-> g.blocks, succ |-> g.succ, pred |-> g.pred, term |-> term,
                phis |-> phis, body |-> body])
      BY <1>1, <1>3, <1>4, FunctionBy DEF IsFunction
    <2> QED BY <1>1, <2>1
  <1>6. h.blocks = g.blocks /\ h.succ = g.succ /\ h.pred = g.pred /\ h.term = term
    BY <1>1
  <1>7. SameGraph(g, h)
    BY <1>3, <1>5, <1>6 DEF SameGraph
  <1> QED BY <1>7 DEF h

-----------------------------------------------------------------------------
(* What the operations on blocks and edges do to the graph. *)

LEMMA WithoutFacts ==
  ASSUME NEW S, NEW s \in Seq(S), NEW b
  PROVE  /\ Without(s, b) \in Seq(S)
         /\ ToSet(Without(s, b)) = ToSet(s) \ {b}
         /\ IsInjective(s) => IsInjective(Without(s, b))
  <1> DEFINE at == {i \in DOMAIN s : s[i] # b}
  <1>1. /\ Kept(s, at) \in Seq(S)
        /\ ToSet(Kept(s, at)) = {s[i] : i \in DOMAIN s \cap at}
        /\ IsInjective(s) => IsInjective(Kept(s, at))
    BY KeptFacts
  <1>2. Without(s, b) = Kept(s, at)
    BY DEF Without
  <1>3. {s[i] : i \in DOMAIN s \cap at} = ToSet(s) \ {b}
    BY DEF ToSet
  <1> QED BY <1>1, <1>2, <1>3

LEMMA RecordOf ==
  ASSUME NEW g, IsFunction(g)
  PROVE  g = [blocks |-> g.blocks, succ |-> g.succ, pred |-> g.pred, term |-> g.term,
              phis |-> g.phis, body |-> g.body]
  BY DEF IsFunction

(* h is g with other edge lists. *)
SameBlocks(h, g) ==
    IsFunction(h) /\ h.blocks = g.blocks /\ h.phis = g.phis /\ h.body = g.body

EdgeGone(h, g, b, s) ==
    /\ SameBlocks(h, g) /\ h.term = g.term
    /\ \A c \in AllBlocks :
        /\ ToSet(h.succ[c]) = IF c = b THEN ToSet(g.succ[c]) \ {s} ELSE ToSet(g.succ[c])
        /\ ToSet(h.pred[c]) = IF c = s THEN ToSet(g.pred[c]) \ {b} ELSE ToSet(g.pred[c])

LEMMA RemoveEdgeFacts ==
  ASSUME NEW g, IsFunction(g), NEW b \in AllBlocks, NEW s \in AllBlocks
  PROVE  EdgeGone(RemoveEdge(g, b, s), g, b, s)
  <1> DEFINE newSucc == [g.succ EXCEPT ![b] = Without(@, s)]
             newPred == [g.pred EXCEPT ![s] = Without(@, b)]
  <1> SUFFICES ASSUME NEW h, h = RemoveEdge(g, b, s) PROVE EdgeGone(h, g, b, s)
    OBVIOUS
  <1>1. h = [blocks |-> g.blocks, succ |-> newSucc, pred |-> newPred, term |-> g.term,
             phis |-> g.phis, body |-> g.body]
    <2>1. g = [blocks |-> g.blocks, succ |-> g.succ, pred |-> g.pred, term |-> g.term,
               phis |-> g.phis, body |-> g.body]
      BY RecordOf
    <2>2. h = [g EXCEPT !.succ[b] = Without(@, s), !.pred[s] = Without(@, b)]
      BY DEF RemoveEdge
    <2> QED BY <2>1, <2>2
  <1>2. \A c \in AllBlocks : g.succ[c] \in Seq(AllBlocks) /\ g.pred[c] \in Seq(AllBlocks)
    BY DEF IsFunction
  <1>3. \A c \in AllBlocks, x \in AllBlocks :
            /\ Without(g.succ[c], x) \in Seq(AllBlocks) /\ Without(g.pred[c], x) \in Seq(AllBlocks)
            /\ ToSet(Without(g.succ[c], x)) = ToSet(g.succ[c]) \ {x}
            /\ ToSet(Without(g.pred[c], x)) = ToSet(g.pred[c]) \ {x}
    BY <1>2, WithoutFacts
  <1>4. /\ newSucc = [c \in AllBlocks |-> IF c = b THEN Without(g.succ[c], s) ELSE g.succ[c]]
        /\ newPred = [c \in AllBlocks |-> IF c = s THEN Without(g.pred[c], b) ELSE g.pred[c]]
    BY DEF IsFunction
  <1>5. newSucc \in [AllBlocks -> Seq(AllBlocks)] /\ newPred \in [AllBlocks -> Seq(AllBlocks)]
    BY <1>2, <1>3, <1>4
  <1>6. SameBlocks(h, g) /\ h.succ = newSucc /\ h.pred = newPred /\ h.term = g.term
    <2> HIDE DEF newSucc, newPred
    <2>1. IsFunction([blocks |-> g.blocks, succ |-> newSucc, pred |-> newPred, term |-> g.term,
                      phis |-> g.phis, body |-> g.body])
      BY <1>5, FunctionBy DEF IsFunction
    <2> QED BY <1>1, <2>1 DEF SameBlocks
  <1>7. \A c \in AllBlocks :
        /\ ToSet(newSucc[c]) = IF c = b THEN ToSet(g.succ[c]) \ {s} ELSE ToSet(g.succ[c])
        /\ ToSet(newPred[c]) = IF c = s THEN ToSet(g.pred[c]) \ {b} ELSE ToSet(g.pred[c])
    <2> SUFFICES ASSUME NEW c \in AllBlocks
                 PROVE  /\ ToSet(newSucc[c]) = IF c = b THEN ToSet(g.succ[c]) \ {s} ELSE ToSet(g.succ[c])
                        /\ ToSet(newPred[c]) = IF c = s THEN ToSet(g.pred[c]) \ {b} ELSE ToSet(g.pred[c])
      OBVIOUS
    <2>1. /\ newSucc[c] = IF c = b THEN Without(g.succ[c], s) ELSE g.succ[c]
          /\ newPred[c] = IF c = s THEN Without(g.pred[c], b) ELSE g.pred[c]
      BY <1>4
    <2> HIDE DEF newSucc, newPred
    <2>2. /\ ToSet(Without(g.succ[c], s)) = ToSet(g.succ[c]) \ {s}
          /\ ToSet(Without(g.pred[c], b)) = ToSet(g.pred[c]) \ {b}
      BY <1>3
    <2> QED BY <2>1, <2>2
  <1> HIDE DEF newSucc, newPred
  <1> QED BY <1>1, <1>6, <1>7 DEF EdgeGone

BlockGone(h, g, bb) ==
    /\ IsFunction(h) /\ h.term = g.term /\ h.phis = g.phis /\ h.body = g.body
    /\ ToSet(h.blocks) = ToSet(g.blocks) \ {bb}
    /\ IsInjective(g.blocks) => IsInjective(h.blocks)
    /\ \A c \in AllBlocks :
        /\ ToSet(h.succ[c]) = IF c \in ToSet(g.pred[bb]) THEN ToSet(g.succ[c]) \ {bb} ELSE ToSet(g.succ[c])
        /\ ToSet(h.pred[c]) = IF c \in ToSet(g.succ[bb]) THEN ToSet(g.pred[c]) \ {bb} ELSE ToSet(g.pred[c])

LEMMA RemoveBlockFacts ==
  ASSUME NEW g, IsFunction(g), NEW bb \in AllBlocks
  PROVE  BlockGone(RemoveBlock(g, bb), g, bb)
  <1> DEFINE newBlocks == Without(g.blocks, bb)
             newSucc == [b \in AllBlocks |->
                            IF b \in ToSet(g.pred[bb]) THEN Without(g.succ[b], bb) ELSE g.succ[b]]
             newPred == [b \in AllBlocks |->
                            IF b \in ToSet(g.succ[bb]) THEN Without(g.pred[b], bb) ELSE g.pred[b]]
             rec == [blocks |-> newBlocks, succ |-> newSucc, pred |-> newPred, term |-> g.term,
                     phis |-> g.phis, body |-> g.body]
  <1> SUFFICES ASSUME NEW h, h = RemoveBlock(g, bb) PROVE BlockGone(h, g, bb)
    OBVIOUS
  <1>1. h = rec
    <2>1. g = [blocks |-> g.blocks, succ |-> g.succ, pred |-> g.pred, term |-> g.term,
               phis |-> g.phis, body |-> g.body]
      BY RecordOf
    <2> QED BY <2>1 DEF RemoveBlock
  <1>2. \A c \in AllBlocks : g.succ[c] \in Seq(AllBlocks) /\ g.pred[c] \in Seq(AllBlocks)
    BY DEF IsFunction
  <1>3. \A c \in AllBlocks :
            /\ Without(g.succ[c], bb) \in Seq(AllBlocks) /\ Without(g.pred[c], bb) \in Seq(AllBlocks)
            /\ ToSet(Without(g.succ[c], bb)) = ToSet(g.succ[c]) \ {bb}
            /\ ToSet(Without(g.pred[c], bb)) = ToSet(g.pred[c]) \ {bb}
    BY <1>2, WithoutFacts
  <1>4. /\ newBlocks \in Seq(AllBlocks) /\ ToSet(newBlocks) = ToSet(g.blocks) \ {bb}
        /\ IsInjective(g.blocks) => IsInjective(newBlocks)
    BY WithoutFacts DEF IsFunction
  <1>5. newSucc \in [AllBlocks -> Seq(AllBlocks)] /\ newPred \in [AllBlocks -> Seq(AllBlocks)]
    BY <1>2, <1>3
  <1>6. IsFunction(rec)
    <2> HIDE DEF newSucc, newPred, newBlocks
    <2> QED BY <1>4, <1>5, FunctionBy DEF IsFunction
  <1>7. \A c \in AllBlocks :
        /\ ToSet(newSucc[c]) = IF c \in ToSet(g.pred[bb]) THEN ToSet(g.succ[c]) \ {bb} ELSE ToSet(g.succ[c])
        /\ ToSet(newPred[c]) = IF c \in ToSet(g.succ[bb]) THEN ToSet(g.pred[c]) \ {bb} ELSE ToSet(g.pred[c])
    BY <1>3
  <1>8. /\ h.succ = newSucc /\ h.pred = newPred /\ h.blocks = newBlocks /\ h.term = g.term
        /\ h.phis = g.phis /\ h.body = g.body
    BY <1>1
  <1> HIDE DEF newSucc, newPred, newBlocks, rec
  <1> QED BY <1>1, <1>4, <1>6, <1>7, <1>8 DEF BlockGone

EndsIn(h, g, b, t) ==
    /\ SameBlocks(h, g)
    /\ h.term = [c \in AllBlocks |-> IF c = b THEN t ELSE g.term[c]]
    /\ \A c \in AllBlocks :
        /\ ToSet(h.succ[c]) = IF c = b THEN ToSet(g.succ[c]) \cup ToSet(t.to) ELSE ToSet(g.succ[c])
        /\ ToSet(h.pred[c]) = IF c \in ToSet(t.to) THEN ToSet(g.pred[c]) \cup {b} ELSE ToSet(g.pred[c])

LEMMA TerminateGraph ==
  ASSUME NEW g, IsFunction(g), NEW b \in AllBlocks, NEW t, IsTerminator(t)
  PROVE  EndsIn(Terminate(g, b, t), g, b, t)
  <1> DEFINE newSucc == [g.succ EXCEPT ![b] = @ \o t.to]
             newPred == [s \in AllBlocks |->
                            IF s \in ToSet(t.to) THEN Append(g.pred[s], b) ELSE g.pred[s]]
             newTerm == [g.term EXCEPT ![b] = t]
             rec == [blocks |-> g.blocks, succ |-> newSucc, pred |-> newPred, term |-> newTerm,
                     phis |-> g.phis, body |-> g.body]
  <1> SUFFICES ASSUME NEW h, h = Terminate(g, b, t) PROVE EndsIn(h, g, b, t)
    OBVIOUS
  <1>1. h = rec
    <2>1. g = [blocks |-> g.blocks, succ |-> g.succ, pred |-> g.pred, term |-> g.term,
               phis |-> g.phis, body |-> g.body]
      BY RecordOf
    <2> QED BY <2>1 DEF Terminate
  <1>2. \A c \in AllBlocks : g.succ[c] \in Seq(AllBlocks) /\ g.pred[c] \in Seq(AllBlocks)
    BY DEF IsFunction
  <1>3. t.to \in Seq(AllBlocks)
    BY DEF IsTerminator
  <1>4. \A c \in AllBlocks :
            /\ g.succ[c] \o t.to \in Seq(AllBlocks)
            /\ ToSet(g.succ[c] \o t.to) = ToSet(g.succ[c]) \cup ToSet(t.to)
            /\ Append(g.pred[c], b) \in Seq(AllBlocks)
            /\ ToSet(Append(g.pred[c], b)) = ToSet(g.pred[c]) \cup {b}
    BY <1>2, <1>3, SetOfSeq
  <1>5. /\ newSucc = [c \in AllBlocks |-> IF c = b THEN g.succ[c] \o t.to ELSE g.succ[c]]
        /\ newTerm = [c \in AllBlocks |-> IF c = b THEN t ELSE g.term[c]]
    BY DEF IsFunction
  <1>6. newSucc \in [AllBlocks -> Seq(AllBlocks)] /\ newPred \in [AllBlocks -> Seq(AllBlocks)]
    BY <1>2, <1>4, <1>5
  <1>7. newTerm = [c \in AllBlocks |-> newTerm[c]] /\ \A c \in AllBlocks : IsTerminator(newTerm[c])
    BY <1>5 DEF IsFunction
  <1>8. IsFunction(rec)
    <2> HIDE DEF newSucc, newPred, newTerm
    <2> QED BY <1>6, <1>7, FunctionBy DEF IsFunction
  <1>9. \A c \in AllBlocks :
        /\ ToSet(newSucc[c]) = IF c = b THEN ToSet(g.succ[c]) \cup ToSet(t.to) ELSE ToSet(g.succ[c])
        /\ ToSet(newPred[c]) = IF c \in ToSet(t.to) THEN ToSet(g.pred[c]) \cup {b} ELSE ToSet(g.pred[c])
    BY <1>4, <1>5
  <1>10. /\ h.succ = newSucc /\ h.pred = newPred /\ h.term = newTerm /\ h.blocks = g.blocks
         /\ h.phis = g.phis /\ h.body = g.body
    BY <1>1
  <1> HIDE DEF newSucc, newPred, newTerm, rec
  <1> QED BY <1>1, <1>5, <1>8, <1>9, <1>10 DEF EndsIn, SameBlocks

-----------------------------------------------------------------------------
(* Between passes: the edge lists of the blocks are those of the branches,   *)
(* which name blocks of the function, and what is no block yet has no edges. *)
Wired(g) ==
    /\ IsFunction(g)
    /\ IsInjective(g.blocks)
    /\ Entry \in ToSet(g.blocks)
    /\ \A b \in ToSet(g.blocks) :
        /\ g.term[b].op # "none"
        /\ ToSet(g.term[b].to) \subseteq ToSet(g.blocks)
        /\ ToSet(g.succ[b]) = ToSet(g.term[b].to)
        /\ ToSet(g.pred[b]) = {p \in ToSet(g.blocks) : b \in ToSet(g.term[p].to)}
    /\ \A b \in AllBlocks : g.term[b].op = "none" => ToSet(g.succ[b]) = {} /\ ToSet(g.pred[b]) = {}

LEMMA BlocksOf ==
  ASSUME NEW g, IsFunction(g)
  PROVE  /\ ToSet(g.blocks) \subseteq AllBlocks /\ IsFiniteSet(ToSet(g.blocks))
         /\ \A b \in AllBlocks :
                /\ ToSet(g.term[b].to) \subseteq AllBlocks /\ ToSet(g.succ[b]) \subseteq AllBlocks
                /\ ToSet(g.pred[b]) \subseteq AllBlocks
  <1>1. \A s \in Seq(AllBlocks) : ToSet(s) \subseteq AllBlocks
    BY DEF ToSet
  <1>2. IsFiniteSet(AllBlocks)
    BY BuilderAssumption, FS_Interval DEF AllBlocks
  <1>3. ToSet(g.blocks) \subseteq AllBlocks
    BY <1>1 DEF IsFunction
  <1>4. IsFiniteSet(ToSet(g.blocks))
    BY <1>2, <1>3, FS_Subset
  <1> QED BY <1>1, <1>3, <1>4 DEF IsFunction, IsTerminator

LEMMA WiredSame ==
  ASSUME NEW g, NEW h, Wired(g), SameGraph(g, h)
  PROVE  Wired(h)
  <1>1. ToSet(g.blocks) \subseteq AllBlocks
    BY BlocksOf DEF Wired
  <1> QED BY <1>1 DEF Wired, SameGraph

LEMMA WiredEdges ==
  ASSUME NEW g, Wired(g)
  PROVE  EdgesMatchBranches(g)
  <1> DEFINE blocks == ToSet(g.blocks)
             branches == UNION {{<<b, s>> : s \in ToSet(g.term[b].to)} : b \in blocks}
  <1>1. branches = UNION {{<<b, s>> : s \in ToSet(g.succ[b])} : b \in blocks}
    BY DEF Wired
  <1>2. branches = UNION {{<<p, b>> : p \in ToSet(g.pred[b])} : b \in blocks}
    <2>1. \A b \in blocks : ToSet(g.term[b].to) \subseteq blocks
                            /\ ToSet(g.pred[b]) = {p \in blocks : b \in ToSet(g.term[p].to)}
      BY DEF Wired
    <2> HIDE DEF blocks
    <2> QED BY <2>1
  <1>3. \A e \in branches : e[2] \in blocks
    BY DEF Wired
  <1> QED BY <1>1, <1>2, <1>3 DEF EdgesMatchBranches

(* The builder leaves such a function. *)
LEMMA BuiltWired ==
  ASSUME BuilderInv, built
  PROVE  Wired(ir)
  <1>1. ToSet(ir.blocks) = 1 .. Len(ir.blocks) /\ 1 .. Len(ir.blocks) \subseteq AllBlocks
    BY BuilderFacts DEF Blocks
  <1>2. \A b \in AllBlocks :
            /\ ToSet(ir.succ[b]) = ToSet(ir.term[b].to)
            /\ ToSet(ir.pred[b]) = {p \in AllBlocks : b \in ToSet(ir.term[p].to)}
            /\ ir.term[b].op = "none" => ir.term[b] = NoTerm
    BY DEF BuilderInv, EdgesExact
  <1>3. \A b \in 1 .. Len(ir.blocks) : IsTerminated(ir, b)
    BY DEF BuilderInv, OthersTerminated
  <1>4. \A b \in AllBlocks : IsTerminated(ir, b) =>
            b \in 1 .. Len(ir.blocks) /\ ToSet(ir.term[b].to) \subseteq 1 .. Len(ir.blocks)
    BY DEF BuilderInv, BlocksNumbered, AllBlocks
  <1>5. \A b \in AllBlocks : ~IsTerminated(ir, b) => ToSet(ir.term[b].to) = {}
    BY Terminators DEF IsTerminated
  <1>6. \A b \in AllBlocks : ir.term[b].op = "none" => ~IsTerminated(ir, b)
    BY <1>2 DEF IsTerminated
  <1>7. Entry \in 1 .. Len(ir.blocks)
    BY DEF BuilderInv, BlocksNumbered, Entry
  <1>8. IsInjective(ir.blocks)
    <2>1. DOMAIN ir.blocks = 1 .. Len(ir.blocks)
      BY LenProperties DEF BuilderInv, IsFunction
    <2> QED BY <2>1 DEF IsInjective, BuilderInv, BlocksNumbered
  <1>9. \A b \in AllBlocks : \A p \in AllBlocks : b \in ToSet(ir.term[p].to) =>
            b \in 1 .. Len(ir.blocks) /\ p \in 1 .. Len(ir.blocks)
    BY <1>4, <1>5
  <1>10. \A b \in AllBlocks : ir.term[b].op = "none" =>
            ToSet(ir.succ[b]) = {} /\ ToSet(ir.pred[b]) = {}
    BY <1>2, <1>3, <1>5, <1>6, <1>9
  <1>11. \A b \in 1 .. Len(ir.blocks) :
        /\ ir.term[b].op # "none"
        /\ ToSet(ir.term[b].to) \subseteq 1 .. Len(ir.blocks)
        /\ ToSet(ir.succ[b]) = ToSet(ir.term[b].to)
        /\ ToSet(ir.pred[b]) = {p \in 1 .. Len(ir.blocks) : b \in ToSet(ir.term[p].to)}
    BY <1>1, <1>2, <1>3, <1>4, <1>6, <1>9
  <1> QED BY <1>1, <1>7, <1>8, <1>10, <1>11 DEF Wired, BuilderInv

-----------------------------------------------------------------------------
(* UnreachableBlockElim. *)

Closed(g, S) == Entry \in S /\ \A b \in S : ToSet(g.term[b].to) \subseteq S

LEMMA ReachableFacts ==
  ASSUME NEW g, IsFunction(g)
  PROVE  /\ ReachableIn(g) \subseteq AllBlocks /\ Closed(g, ReachableIn(g))
         /\ \A S \in SUBSET AllBlocks : Closed(g, S) => ReachableIn(g) \subseteq S
  <1> DEFINE N == MaxBlocks
             R == SUBSET AllBlocks
             to(b) == ToSet(g.term[b].to)
             more == [s \in R |-> s \cup UNION {to(b) : b \in s}]
             step == [i \in 1 .. N |-> more]
             base == {Entry}
             within == CHOOSE f : f = [k \in 0 .. N |->
                            IF k = 0 THEN {Entry} ELSE f[k - 1] \cup UNION {to(b) : b \in f[k - 1]}]
  <1>1. N \in Nat \ {0} /\ Entry \in AllBlocks /\ AllBlocks = 1 .. N /\ IsFiniteSet(AllBlocks)
        /\ Cardinality(AllBlocks) = N
    <2>1. N \in Nat /\ N >= 1 /\ AllBlocks = 1 .. N
      BY BuilderAssumption DEF AllBlocks
    <2> HIDE DEF N
    <2>2. IsFiniteSet(1 .. N) /\ Cardinality(1 .. N) = N
      BY <2>1, FS_Interval
    <2> QED BY <2>1, <2>2 DEF Entry
  <1>2. \A b \in AllBlocks : to(b) \subseteq AllBlocks
    BY BlocksOf
  <1> HIDE DEF to
  <1>3. base \in R /\ step \in Steps(N, R)
    <2>1. more \in [R -> R]
      BY <1>2
    <2> HIDE DEF more, R
    <2>2. step \in [1 .. N -> [R -> R]]
      BY <2>1
    <2> QED BY <1>1, <2>2 DEF Steps, R
  <1>4. PICK f : IsRun(f, N, R, base, step)
    <2> HIDE DEF step, N, R, base
    <2>1. N \in Nat
      BY <1>1
    <2>2. \E h : IsRun(h, N, R, base, step)
      BY <2>1, <1>3, Run, Zenon
    <2> QED BY <2>2
  <1>5. f \in [0 .. N -> R] /\ f[0] = {Entry}
        /\ \A i \in 1 .. N : f[i] = f[i - 1] \cup UNION {to(b) : b \in f[i - 1]}
    <2>1. f \in [0 .. N -> R] /\ f[0] = base /\ \A i \in 1 .. N : f[i] = step[i][f[i - 1]]
      BY <1>4 DEF IsRun
    <2>2. \A i \in 1 .. N : i - 1 \in 0 .. N /\ step[i] = more
      BY <1>1
    <2>3. \A s \in R : more[s] = s \cup UNION {to(b) : b \in s}
      OBVIOUS
    <2> HIDE DEF more, step, R
    <2> QED BY <2>1, <2>2, <2>3
  <1>6. f = [k \in 0 .. N |-> IF k = 0 THEN {Entry} ELSE f[k - 1] \cup UNION {to(b) : b \in f[k - 1]}]
    <2>1. \A k \in 0 .. N : k # 0 => k \in 1 .. N
      BY <1>1
    <2> HIDE DEF N, R
    <2> QED BY <1>5, <2>1
  <1>7. within = [k \in 0 .. N |->
                IF k = 0 THEN {Entry} ELSE within[k - 1] \cup UNION {to(b) : b \in within[k - 1]}]
    BY <1>6
  <1>8. ReachableIn(g) = within[N]
    BY DEF ReachableIn, to
  <1> HIDE DEF within
  <1>9. within[0] = {Entry}
        /\ \A k \in 1 .. N : within[k] = within[k - 1] \cup UNION {to(b) : b \in within[k - 1]}
    <2>1. 0 \in 0 .. N /\ \A k \in 1 .. N : k \in 0 .. N /\ k # 0
      BY <1>1
    <2>2. \A k \in 0 .. N : within[k] =
                IF k = 0 THEN {Entry} ELSE within[k - 1] \cup UNION {to(b) : b \in within[k - 1]}
      BY <1>7, Zenon
    <2> HIDE DEF N
    <2> QED BY <2>1, <2>2
  <1> DEFINE Sure(S) == Entry \in S /\ \A b \in S : to(b) \subseteq S
             T == {k \in 0 .. N : /\ within[k] \in SUBSET AllBlocks /\ Entry \in within[k]
                                  /\ Cardinality(within[k]) >= k + 1 \/ Sure(within[k])
                                  /\ \A S \in SUBSET AllBlocks : Sure(S) => within[k] \subseteq S}
  <1>10. 0 \in T
    <2>1. Cardinality({Entry}) = 1
      BY FS_Singleton
    <2>2. 0 \in 0 .. N
      BY <1>1
    <2>3. {Entry} \in SUBSET AllBlocks
      BY <1>1
    <2>4. within[0] = {Entry} /\ Cardinality(within[0]) >= 0 + 1
      BY <1>9, <2>1
    <2> HIDE DEF N, Sure
    <2>5. \A S \in SUBSET AllBlocks : Sure(S) => within[0] \subseteq S
      BY <2>4 DEF Sure
    <2> QED BY <2>2, <2>3, <2>4, <2>5
  <1>11. ASSUME NEW k \in 1 .. N, k - 1 \in T PROVE k \in T
    <2> DEFINE w == within[k - 1]
               v == w \cup UNION {to(b) : b \in w}
    <2>1. within[k] = v /\ k \in 0 .. N
      BY <1>1, <1>9
    <2>2. /\ w \in SUBSET AllBlocks /\ Entry \in w
          /\ Cardinality(w) >= (k - 1) + 1 \/ Sure(w)
          /\ \A S \in SUBSET AllBlocks : Sure(S) => w \subseteq S
      BY <1>11
    <2> HIDE DEF w, N, within
    <2>3. v \in SUBSET AllBlocks /\ Entry \in v /\ w \subseteq v
      BY <1>2, <2>2
    <2>4. \A S \in SUBSET AllBlocks : Sure(S) => v \subseteq S
      BY <2>2
    <2>5. IsFiniteSet(v) /\ IsFiniteSet(w)
      BY <1>1, <2>2, <2>3, FS_Subset
    <2>6. Cardinality(v) >= k + 1 \/ Sure(v)
      <3>1. CASE v = w
        BY <2>2, <3>1
      <3>2. CASE v # w
        <4>1. CASE Sure(w)
          BY <3>2, <4>1
        <4>2. CASE Cardinality(w) >= (k - 1) + 1
          <5>1. Cardinality(w) < Cardinality(v) /\ Cardinality(w) \in Nat /\ Cardinality(v) \in Nat
            <6> HIDE DEF v
            <6>1. w \subseteq v /\ w # v
              BY <2>3, <3>2
            <6>2. Cardinality(w) <= Cardinality(v) /\ Cardinality(w) # Cardinality(v)
              BY <2>5, <6>1, FS_Subset
            <6> QED BY <2>5, <6>2, FS_CardinalityType
          <5> QED BY <4>2, <5>1
        <4> QED BY <2>2, <4>1, <4>2
      <3> QED BY <3>1, <3>2
    <2> HIDE DEF v, Sure
    <2> QED BY <2>1, <2>3, <2>4, <2>6
  <1>12. N \in T
    <2> HIDE DEF T
    <2>1. 0 .. N \subseteq T
      BY <1>1, <1>10, <1>11, UpTo
    <2> QED BY <1>1, <2>1
  <1>13. Sure(within[N])
    <2> HIDE DEF N, within, Sure
    <2>1. within[N] \in SUBSET AllBlocks /\ (Cardinality(within[N]) >= N + 1 \/ Sure(within[N]))
      BY <1>12
    <2>2. Cardinality(within[N]) <= N /\ Cardinality(within[N]) \in Nat
      BY <1>1, <2>1, FS_Subset, FS_CardinalityType
    <2> QED BY <1>1, <2>1, <2>2
  <1>14. \A S : Closed(g, S) <=> Sure(S)
    BY DEF Closed, to
  <1> HIDE DEF Sure
  <1> QED BY <1>8, <1>12, <1>13, <1>14

(* The edges of the blocks, when some of the targets may have gone. *)
EdgesWithin(g) ==
    /\ IsFunction(g) /\ IsInjective(g.blocks)
    /\ \A b \in ToSet(g.blocks) :
        /\ g.term[b].op # "none"
        /\ ToSet(g.succ[b]) = ToSet(g.term[b].to) \cap ToSet(g.blocks)
        /\ ToSet(g.pred[b]) = {p \in ToSet(g.blocks) : b \in ToSet(g.term[p].to)}
    /\ \A b \in AllBlocks : g.term[b].op = "none" => ToSet(g.succ[b]) = {} /\ ToSet(g.pred[b]) = {}

(* reached is closed but for the blocks that wait, and in every closed set;  *)
(* what is to be removed is still to be looked at.                          *)
ElimInv ==
    /\ elim = [worklist |-> elim.worklist, reached |-> elim.reached, left |-> elim.left]
    /\ elim.worklist \in Seq(AllBlocks) /\ elim.left \in Seq(AllBlocks)
    /\ EdgesWithin(ir)
    /\ Entry \in elim.reached /\ elim.reached \subseteq Blocks
    /\ ToSet(elim.worklist) \subseteq elim.reached
    /\ \A b \in elim.reached :
            b \in ToSet(elim.worklist) \/ ToSet(ir.term[b].to) \subseteq elim.reached
    /\ \A S \in SUBSET AllBlocks : Closed(ir, S) => elim.reached \subseteq S
    /\ IF elim.worklist = <<>> THEN Blocks \ elim.reached \subseteq ToSet(elim.left) ELSE Wired(ir)

LEMMA ElimBegins ==
  ASSUME Wired(ir), ir' = ir, elim' = ElimStart
  PROVE  ElimInv'
  <1>1. /\ elim' = [worklist |-> <<Entry>>, reached |-> {Entry}, left |-> <<>>]
        /\ elim'.worklist = <<Entry>> /\ elim'.reached = {Entry} /\ elim'.left = <<>>
    BY DEF ElimStart
  <1>2. Entry \in Blocks /\ Entry \in AllBlocks
    BY BlocksOf DEF Wired, Blocks
  <1>3. <<Entry>> \in Seq(AllBlocks) /\ <<>> \in Seq(AllBlocks) /\ ToSet(<<Entry>>) = {Entry}
        /\ <<Entry>> # <<>>
    BY <1>2 DEF ToSet
  <1>4. EdgesWithin(ir')
    BY DEF Wired, EdgesWithin
  <1>5. \A S \in SUBSET AllBlocks : Closed(ir', S) => {Entry} \subseteq S
    BY DEF Closed
  <1>6. Wired(ir') /\ Entry \in Blocks'
    BY <1>2 DEF Blocks
  <1> QED BY <1>1, <1>3, <1>4, <1>5, <1>6 DEF ElimInv

LEMMA ElimEnds ==
  ASSUME ElimInv, ElimDone
  PROVE  Wired(ir) /\ Blocks = ReachableIn(ir)
  <1>1. elim.worklist = <<>> /\ elim.left = <<>> /\ ToSet(<<>>) = {}
    BY DEF ElimDone, ToSet
  <1>2. Blocks = elim.reached /\ Entry \in Blocks /\ EdgesWithin(ir)
    BY <1>1 DEF ElimInv
  <1>3. \A b \in Blocks : ToSet(ir.term[b].to) \subseteq Blocks
    BY <1>1, <1>2 DEF ElimInv
  <1>4. Wired(ir)
    <2>1. \A b \in Blocks : ToSet(ir.term[b].to) \cap Blocks = ToSet(ir.term[b].to)
      BY <1>3
    <2> QED BY <1>2, <1>3, <2>1 DEF Wired, EdgesWithin, Blocks
  <1>5. Blocks \in SUBSET AllBlocks /\ Closed(ir, Blocks)
    BY <1>2, <1>3, BlocksOf DEF Closed, EdgesWithin, Blocks
  <1>6. ReachableIn(ir) \subseteq Blocks
    <2>1. IsFunction(ir)
      BY <1>4 DEF Wired
    <2> QED BY <1>5, <2>1, ReachableFacts
  <1>7. Blocks \subseteq ReachableIn(ir)
    <2>1. IsFunction(ir)
      BY <1>4 DEF Wired
    <2>2. ReachableIn(ir) \in SUBSET AllBlocks /\ Closed(ir, ReachableIn(ir))
      BY <2>1, ReachableFacts
    <2> QED BY <1>2, <2>2 DEF ElimInv
  <1> QED BY <1>4, <1>6, <1>7

LEMMA SearchKeeps ==
  ASSUME ElimInv, Search
  PROVE  ElimInv'
  <1> DEFINE block == Head(elim.worklist)
             to == ir.term[block].to
             at == {i \in DOMAIN to : to[i] \notin elim.reached}
             new == Kept(to, at)
             more == Tail(elim.worklist) \o new
  <1>1. /\ elim.worklist # <<>> /\ ir' = ir
        /\ elim' = [worklist |-> more, reached |-> elim.reached \cup ToSet(new), left |-> ir.blocks]
    BY DEF Search
  <1>2. /\ block \in AllBlocks /\ Tail(elim.worklist) \in Seq(AllBlocks)
        /\ ToSet(elim.worklist) = {block} \cup ToSet(Tail(elim.worklist))
    BY <1>1, Queue DEF ElimInv
  <1>3. /\ Wired(ir) /\ IsFunction(ir) /\ block \in elim.reached /\ block \in Blocks
    BY <1>1, <1>2 DEF ElimInv, Wired
  <1>4. to \in Seq(AllBlocks) /\ ToSet(to) \subseteq Blocks
    BY <1>2, <1>3 DEF Wired, Blocks, IsFunction, IsTerminator
  <1>5. new \in Seq(AllBlocks) /\ ToSet(new) = ToSet(to) \ elim.reached
    <2> HIDE DEF to
    <2>1. new \in Seq(AllBlocks) /\ ToSet(new) = {to[i] : i \in DOMAIN to \cap at}
      BY <1>4, KeptFacts
    <2> QED BY <2>1 DEF ToSet
  <1> HIDE DEF new, to, block
  <1>6. more \in Seq(AllBlocks) /\ ToSet(more) = ToSet(Tail(elim.worklist)) \cup ToSet(new)
    <2> DEFINE rest == Tail(elim.worklist)
    <2>1. rest \in Seq(AllBlocks)
      BY <1>2
    <2> HIDE DEF rest
    <2>2. rest \o new \in Seq(AllBlocks) /\ ToSet(rest \o new) = ToSet(rest) \cup ToSet(new)
      BY <1>5, <2>1, SetOfSeq
    <2> QED BY <2>2 DEF rest
  <1> HIDE DEF more
  <1>7. /\ elim'.worklist = more /\ elim'.reached = elim.reached \cup ToSet(to) /\ elim'.left = ir.blocks
        /\ elim' = [worklist |-> elim'.worklist, reached |-> elim'.reached, left |-> elim'.left]
    BY <1>1, <1>5
  <1>8. elim'.worklist \in Seq(AllBlocks) /\ elim'.left \in Seq(AllBlocks) /\ ir' = ir
    BY <1>1, <1>3, <1>6, <1>7 DEF IsFunction
  <1>9. Entry \in elim'.reached /\ elim'.reached \subseteq Blocks /\ ToSet(elim'.worklist) \subseteq elim'.reached
    BY <1>2, <1>4, <1>5, <1>6, <1>7 DEF ElimInv
  <1>10. \A b \in elim'.reached :
            b \in ToSet(elim'.worklist) \/ ToSet(ir.term[b].to) \subseteq elim'.reached
    <2> SUFFICES ASSUME NEW b \in elim'.reached, b \notin ToSet(elim'.worklist)
                 PROVE  ToSet(ir.term[b].to) \subseteq elim'.reached
      OBVIOUS
    <2>1. b \in elim.reached
      BY <1>5, <1>6, <1>7
    <2>2. CASE b = block
      BY <1>7, <2>2 DEF to
    <2>3. CASE b # block
      <3>1. b \notin ToSet(elim.worklist)
        BY <1>2, <1>6, <1>7, <2>3
      <3> QED BY <1>7, <2>1, <3>1 DEF ElimInv
    <2> QED BY <2>2, <2>3
  <1>11. \A S \in SUBSET AllBlocks : Closed(ir, S) => elim'.reached \subseteq S
    BY <1>3, <1>7 DEF ElimInv, Closed, to
  <1>12. Blocks' = Blocks /\ Blocks \ elim'.reached \subseteq ToSet(elim'.left)
    BY <1>7, <1>8 DEF Blocks
  <1>13. EdgesWithin(ir)
    BY DEF ElimInv
  <1> QED BY <1>3, <1>7, <1>8, <1>9, <1>10, <1>11, <1>12, <1>13 DEF ElimInv

LEMMA DropDeadFacts ==
  ASSUME NEW g, IsFunction(g), NEW dead
  PROVE  SameGraph(g, DropDeadPredecessor(g, dead))
  <1> DEFINE phis == [b \in AllBlocks |->
                        IF b \in ToSet(g.succ[dead])
                        THEN [i \in DOMAIN g.phis[b] |-> DropIncoming(g.phis[b][i], dead)]
                        ELSE g.phis[b]]
  <1>1. DropDeadPredecessor(g, dead) = [g EXCEPT !.phis = phis]
    BY DEF DropDeadPredecessor
  <1>2. phis = [b \in AllBlocks |-> phis[b]]
    OBVIOUS
  <1>3. \A b \in AllBlocks : IsList(phis[b])
    <2> TAKE b \in AllBlocks
    <2> DEFINE s == g.phis[b]
               dropped == [i \in DOMAIN s |-> DropIncoming(s[i], dead)]
    <2>1. IsList(s)
      BY DEF IsFunction
    <2>2. dropped = [i \in DOMAIN s |-> dropped[i]]
      OBVIOUS
    <2>3. phis[b] = IF b \in ToSet(g.succ[dead]) THEN dropped ELSE s
      OBVIOUS
    <2> HIDE DEF s, dropped, phis
    <2>4. IsList(dropped)
      BY <2>1, <2>2, ListFacts, ListOf
    <2> QED BY <2>1, <2>3, <2>4
  <1> HIDE DEF phis
  <1> QED BY <1>1, <1>2, <1>3, NewPhis

LEMMA ElimVisitKeeps ==
  ASSUME ElimInv, ElimVisit
  PROVE  ElimInv'
  <1> DEFINE block == Head(elim.left)
             g == DropDeadPredecessor(ir, block)
  <1>1. /\ elim.worklist = <<>> /\ elim.left # <<>>
        /\ ir' = IF block \in elim.reached THEN ir ELSE RemoveBlock(g, block)
        /\ elim' = [worklist |-> <<>>, reached |-> elim.reached, left |-> Tail(elim.left)]
    BY DEF ElimVisit, ElimInv
  <1>2. /\ block \in AllBlocks /\ Tail(elim.left) \in Seq(AllBlocks)
        /\ ToSet(elim.left) = {block} \cup ToSet(Tail(elim.left))
    BY <1>1, Queue DEF ElimInv
  <1> HIDE DEF block
  <1>3. /\ elim'.worklist = <<>> /\ elim'.reached = elim.reached /\ elim'.left = Tail(elim.left)
        /\ elim' = [worklist |-> elim'.worklist, reached |-> elim'.reached, left |-> elim'.left]
    BY <1>1
  <1>4. /\ Blocks \ elim.reached \subseteq ToSet(elim.left) /\ ToSet(elim.worklist) \subseteq elim.reached
        /\ EdgesWithin(ir) /\ IsFunction(ir) /\ <<>> \in Seq(AllBlocks)
    BY <1>1 DEF ElimInv, EdgesWithin
  <1>5. CASE block \in elim.reached
    <2>1. ir' = ir /\ Blocks' = Blocks
      BY <1>1, <1>5 DEF Blocks
    <2>2. Blocks \ elim.reached \subseteq ToSet(Tail(elim.left))
      BY <1>2, <1>4, <1>5
    <2> QED BY <1>1, <1>2, <1>3, <1>4, <2>1, <2>2 DEF ElimInv
  <1>6. CASE block \notin elim.reached
    <2>1. ir' = RemoveBlock(g, block)
      BY <1>1, <1>6
    <2>2. SameGraph(ir, g)
      BY <1>4, DropDeadFacts
    <2> HIDE DEF g
    <2>3. BlockGone(ir', g, block)
      BY <1>2, <2>1, <2>2, RemoveBlockFacts DEF SameGraph
    <2>4. /\ IsFunction(ir') /\ IsInjective(ir'.blocks) /\ Blocks' = Blocks \ {block}
          /\ \A b \in AllBlocks : ir'.term[b].op = ir.term[b].op /\ ir'.term[b].to = ir.term[b].to
      BY <1>4, <2>2, <2>3 DEF BlockGone, SameGraph, EdgesWithin, Blocks
    <2>5. \A c \in AllBlocks :
        /\ ToSet(ir'.succ[c]) = IF c \in ToSet(ir.pred[block]) THEN ToSet(ir.succ[c]) \ {block} ELSE ToSet(ir.succ[c])
        /\ ToSet(ir'.pred[c]) = IF c \in ToSet(ir.succ[block]) THEN ToSet(ir.pred[c]) \ {block} ELSE ToSet(ir.pred[c])
      BY <2>2, <2>3 DEF BlockGone, SameGraph
    <2>6. Blocks \subseteq AllBlocks
      BY <1>4, BlocksOf DEF Blocks
    <2>7. \A b \in Blocks :
        /\ ir.term[b].op # "none"
        /\ ToSet(ir.succ[b]) = ToSet(ir.term[b].to) \cap Blocks
        /\ ToSet(ir.pred[b]) = {p \in Blocks : b \in ToSet(ir.term[p].to)}
      BY <1>4 DEF EdgesWithin, Blocks
    <2>8. \A b \in Blocks' :
        /\ ir'.term[b].op # "none"
        /\ ToSet(ir'.succ[b]) = ToSet(ir'.term[b].to) \cap Blocks'
        /\ ToSet(ir'.pred[b]) = {p \in Blocks' : b \in ToSet(ir'.term[p].to)}
      <3> TAKE b \in Blocks'
      <3>1. b \in Blocks /\ b # block /\ b \in AllBlocks
        BY <2>4, <2>6
      <3>2. ToSet(ir'.succ[b]) = ToSet(ir.term[b].to) \cap (Blocks \ {block})
        <4>1. CASE b \in ToSet(ir.pred[block])
          BY <2>5, <2>7, <3>1, <4>1
        <4>2. CASE b \notin ToSet(ir.pred[block])
          <5>1. block \in Blocks => block \notin ToSet(ir.term[b].to)
            BY <2>7, <3>1, <4>2
          <5>2. ToSet(ir'.succ[b]) = ToSet(ir.succ[b])
            BY <2>5, <3>1, <4>2
          <5>3. ToSet(ir.succ[b]) = ToSet(ir.term[b].to) \cap Blocks
            BY <2>7, <3>1
          <5> QED BY <5>1, <5>2, <5>3
        <4> QED BY <4>1, <4>2
      <3>3. ToSet(ir'.pred[b]) = {p \in Blocks \ {block} : b \in ToSet(ir.term[p].to)}
        <4>1. CASE b \in ToSet(ir.succ[block])
          BY <2>5, <2>7, <3>1, <4>1
        <4>2. CASE b \notin ToSet(ir.succ[block])
          <5>1. block \in Blocks => b \notin ToSet(ir.term[block].to)
            BY <2>7, <3>1, <4>2
          <5>2. ToSet(ir'.pred[b]) = ToSet(ir.pred[b])
            BY <2>5, <3>1, <4>2
          <5>3. ToSet(ir.pred[b]) = {p \in Blocks : b \in ToSet(ir.term[p].to)}
            BY <2>7, <3>1
          <5> QED BY <5>1, <5>2, <5>3
        <4> QED BY <4>1, <4>2
      <3>4. {p \in Blocks \ {block} : b \in ToSet(ir.term[p].to)}
                = {p \in Blocks' : b \in ToSet(ir'.term[p].to)}
        BY <2>4, <2>6
      <3> QED BY <2>4, <2>7, <3>1, <3>2, <3>3, <3>4
    <2>9. \A b \in AllBlocks : ir'.term[b].op = "none" => ToSet(ir'.succ[b]) = {} /\ ToSet(ir'.pred[b]) = {}
      BY <1>4, <2>4, <2>5 DEF EdgesWithin
    <2>10. EdgesWithin(ir')
      BY <2>4, <2>8, <2>9 DEF EdgesWithin, Blocks
    <2>11. \A S \in SUBSET AllBlocks : Closed(ir', S) => Closed(ir, S)
      BY <2>4 DEF Closed
    <2>12. elim.reached \subseteq Blocks' /\ Blocks' \ elim.reached \subseteq ToSet(Tail(elim.left))
      BY <1>2, <1>4, <1>6, <2>4 DEF ElimInv
    <2>13. \A b \in elim.reached :
            b \in ToSet(elim.worklist) \/ ToSet(ir'.term[b].to) \subseteq elim.reached
      BY <2>4, <2>6 DEF ElimInv
    <2> QED BY <1>1, <1>2, <1>3, <1>4, <2>10, <2>11, <2>12, <2>13 DEF ElimInv
  <1> QED BY <1>5, <1>6

LEMMA ElimKeeps ==
  ASSUME ElimInv, ElimStep
  PROVE  ElimInv'
  BY SearchKeeps, ElimVisitKeeps DEF ElimStep
LEMMA ScanFacts ==
  ASSUME NEW g, IsFunction(g), NEW block \in AllBlocks, NEW stacks
  PROVE  SameGraph(g, Scan(block, stacks, g).ir)
  <1> DEFINE body == g.body[block]
             n == Len(body)
             base == [stacks |-> FoldSeq(LAMBDA phi, st : Push(st, phi.var, PhiId(block, phi.var)),
                                         stacks, g.phis[block]),
                      ir |-> g]
             next(prev, i) ==
                LET inst == prev.ir.body[block][i]
                IN  CASE inst.op = "store" ->
                            [prev EXCEPT !.stacks = Push(@, inst.var, inst.args[1])]
                      [] inst.op = "load" ->
                            [prev EXCEPT !.ir = ReplaceAllUses(@, inst.id,
                                                    Reaching(prev.stacks, inst.var))]
                      [] OTHER -> prev
             after == CHOOSE f : f = [i \in 0 .. n |-> IF i = 0 THEN base ELSE next(f[i - 1], i)]
  <1>1. n \in Nat
    BY ListFacts DEF IsFunction
  <1>2. Scan(block, stacks, g) = after[n]
    BY DEF Scan
  <1>3. base = [stacks |-> base.stacks, ir |-> base.ir] /\ base.ir = g
    OBVIOUS
  <1> HIDE DEF n, next, base, after
  <1>4. \E f : f = [i \in 0 .. n |-> IF i = 0 THEN base ELSE next(f[i - 1], i)]
    <2> DEFINE T == {k \in 0 .. n : \E f : f = [i \in 0 .. k |-> IF i = 0 THEN base ELSE next(f[i - 1], i)]}
    <2>1. 0 \in T
      <3> DEFINE f == [i \in 0 .. 0 |-> base]
      <3>1. f = [i \in 0 .. 0 |-> IF i = 0 THEN base ELSE next(f[i - 1], i)]
        OBVIOUS
      <3> HIDE DEF f
      <3>2. 0 \in 0 .. n /\ \E h : h = [i \in 0 .. 0 |-> IF i = 0 THEN base ELSE next(h[i - 1], i)]
        BY <1>1, <3>1
      <3> QED BY <3>2
    <2>2. ASSUME NEW k \in 1 .. n, k - 1 \in T PROVE k \in T
      <3>1. PICK f : f = [i \in 0 .. k - 1 |-> IF i = 0 THEN base ELSE next(f[i - 1], i)]
        BY <2>2
      <3> DEFINE h == [i \in 0 .. k |-> IF i = k THEN next(f[k - 1], k) ELSE f[i]]
      <3>2. /\ h[k] = next(f[k - 1], k) /\ k # 0 /\ h[k - 1] = f[k - 1]
            /\ \A i \in 0 .. k : i # k => h[i] = f[i] /\ (i # 0 => h[i - 1] = f[i - 1])
            /\ \A i \in 0 .. k : i # k => i \in 0 .. k - 1
        OBVIOUS
      <3>3. ASSUME NEW i \in 0 .. k
            PROVE  h[i] = IF i = 0 THEN base ELSE next(h[i - 1], i)
        <4> HIDE DEF h
        <4>1. CASE i = k
          BY <3>2, <4>1
        <4>2. CASE i # k
          <5>1. f[i] = IF i = 0 THEN base ELSE next(f[i - 1], i)
            BY <3>1, <3>2, <4>2
          <5> QED BY <3>2, <4>2, <5>1
        <4> QED BY <4>1, <4>2
      <3>4. h = [i \in 0 .. k |-> h[i]] /\ k \in 0 .. n
        OBVIOUS
      <3> HIDE DEF h
      <3>5. h = [i \in 0 .. k |-> IF i = 0 THEN base ELSE next(h[i - 1], i)]
        BY <3>3, <3>4
      <3> QED BY <3>4, <3>5
    <2> HIDE DEF T
    <2>3. n \in T
      <3>1. 0 .. n \subseteq T
        BY <1>1, <2>1, <2>2, UpTo
      <3> QED BY <1>1, <3>1
    <2> QED BY <2>3 DEF T
  <1>5. after = [i \in 0 .. n |-> IF i = 0 THEN base ELSE next(after[i - 1], i)]
    BY <1>4 DEF after
  <1> DEFINE T == {k \in 0 .. n : /\ after[k] = [stacks |-> after[k].stacks, ir |-> after[k].ir]
                                  /\ SameGraph(g, after[k].ir)}
  <1>6. 0 \in T
    <2>1. after[0] = base /\ 0 \in 0 .. n
      BY <1>1, <1>5
    <2> QED BY <1>3, <2>1, SameGraphFacts
  <1>7. ASSUME NEW k \in 1 .. n, k - 1 \in T PROVE k \in T
    <2> DEFINE prev == after[k - 1]
               inst == prev.ir.body[block][k]
               new == ReplaceAllUses(prev.ir, inst.id, Reaching(prev.stacks, inst.var))
    <2>1. after[k] = next(prev, k) /\ k \in 0 .. n
      BY <1>1, <1>5
    <2>2. prev = [stacks |-> prev.stacks, ir |-> prev.ir] /\ SameGraph(g, prev.ir)
      BY <1>7
    <2>3. SameGraph(prev.ir, new)
      <3> DEFINE u == prev.ir
                 x == inst.id
                 y == Reaching(prev.stacks, inst.var)
      <3>1. IsFunction(u)
        BY <2>2 DEF SameGraph
      <3> HIDE DEF u, x, y
      <3>2. SameGraph(u, ReplaceAllUses(u, x, y))
        BY <3>1, ReplaceFacts
      <3> QED BY <3>2 DEF u, x, y
    <2>4. SameGraph(g, new)
      BY <2>2, <2>3, SameGraphFacts
    <2> HIDE DEF new, prev
    <2>5. \/ after[k] = [stacks |-> Push(prev.stacks, inst.var, inst.args[1]), ir |-> prev.ir]
          \/ after[k] = [stacks |-> prev.stacks, ir |-> new]
          \/ after[k] = prev
      <3> SUFFICES ASSUME NEW q, q = next(prev, k)
                   PROVE  \/ q = [stacks |-> Push(prev.stacks, inst.var, inst.args[1]), ir |-> prev.ir]
                          \/ q = [stacks |-> prev.stacks, ir |-> new]
                          \/ q = prev
        BY <2>1
      <3>1. CASE inst.op = "store"
        <4>1. q = [prev EXCEPT !.stacks = Push(prev.stacks, inst.var, inst.args[1])]
          BY <3>1 DEF next
        <4> HIDE DEF inst
        <4> QED BY <2>2, <4>1
      <3>2. CASE inst.op = "load"
        <4>1. q = [prev EXCEPT !.ir = new]
          BY <3>2 DEF next, new
        <4> HIDE DEF inst
        <4> QED BY <2>2, <4>1
      <3>3. CASE inst.op # "store" /\ inst.op # "load"
        <4>1. q = prev
          BY <3>3 DEF next
        <4> QED BY <4>1
      <3> QED BY <3>1, <3>2, <3>3
    <2>6. after[k] = [stacks |-> after[k].stacks, ir |-> after[k].ir] /\ SameGraph(g, after[k].ir)
      <3> HIDE DEF inst
      <3> QED BY <2>2, <2>4, <2>5
    <2> QED BY <2>1, <2>6
  <1> HIDE DEF T
  <1>8. n \in T
    <2>1. 0 .. n \subseteq T
      BY <1>1, <1>6, <1>7, UpTo
    <2> QED BY <1>1, <2>1
  <1> QED BY <1>2, <1>8 DEF T
-----------------------------------------------------------------------------
(* Mem2Reg. *)

LEMMA FillFacts ==
  ASSUME NEW g, IsFunction(g), NEW block, NEW stacks
  PROVE  SameGraph(g, FillSuccessors(block, stacks, g))
  <1> DEFINE filled(phi) ==
                [phi EXCEPT !.inc =
                    Append(phi.inc, [val |-> Reaching(stacks, phi.var), from |-> block])]
             phis == [b \in AllBlocks |->
                        IF b \in ToSet(g.succ[block])
                        THEN [i \in DOMAIN g.phis[b] |-> filled(g.phis[b][i])]
                        ELSE g.phis[b]]
  <1>1. FillSuccessors(block, stacks, g) = [g EXCEPT !.phis = phis]
    BY Zenon DEF FillSuccessors
  <1>2. phis = [b \in AllBlocks |-> phis[b]]
    OBVIOUS
  <1>3. \A b \in AllBlocks : IsList(phis[b])
    <2> TAKE b \in AllBlocks
    <2> DEFINE s == g.phis[b]
               more == [i \in DOMAIN s |-> filled(s[i])]
    <2>1. IsList(s)
      BY DEF IsFunction
    <2>2. more = [i \in DOMAIN s |-> more[i]]
      OBVIOUS
    <2>3. phis[b] = IF b \in ToSet(g.succ[block]) THEN more ELSE s
      OBVIOUS
    <2> HIDE DEF s, more, phis
    <2>4. IsList(more)
      BY <2>1, <2>2, ListFacts, ListOf
    <2> QED BY <2>1, <2>3, <2>4
  <1> HIDE DEF phis
  <1> QED BY <1>1, <1>2, <1>3, NewPhis

IsCall(call) ==
    /\ call = [block |-> call.block, children |-> call.children, pushed |-> call.pushed]
    /\ call.children \subseteq AllBlocks

(* Calls of rename are for blocks. *)
M2rInv ==
    /\ m2r = [phase |-> m2r.phase, vars |-> m2r.vars, var |-> m2r.var, todo |-> m2r.todo,
              defs |-> m2r.defs, dom |-> m2r.dom, calls |-> m2r.calls, var_stack |-> m2r.var_stack]
    /\ IsList(m2r.calls)
    /\ \A i \in 1 .. Len(m2r.calls) : IsCall(m2r.calls[i])

LEMMA M2rBegins ==
  ASSUME m2r' = Mem2RegStart
  PROVE  M2rInv'
  BY ShortLists DEF Mem2RegStart, M2rInv

LEMMA PlacePhisKeeps ==
  ASSUME M2rInv, IsFunction(ir), PlacePhis
  PROVE  M2rInv' /\ SameGraph(ir, ir')
  <1> DEFINE v == m2r.var
             new == {b \in FrontierOf(CfgOf(ir), m2r.dom, Head(m2r.todo)) : ~HasPhi(b, v)}
             phis == [b \in AllBlocks |->
                        IF b \in new THEN <<EmptyPhi(v)>> \o ir.phis[b] ELSE ir.phis[b]]
             todo == Tail(m2r.todo) \o SetToSeq(new \ m2r.defs)
  <1>1. ir' = [ir EXCEPT !.phis = phis] /\ m2r' = [m2r EXCEPT !.todo = todo]
    BY DEF PlacePhis
  <1>2. phis = [b \in AllBlocks |-> phis[b]]
    OBVIOUS
  <1>3. \A b \in AllBlocks : IsList(phis[b])
    <2> TAKE b \in AllBlocks
    <2> DEFINE s == ir.phis[b]
               first == <<EmptyPhi(v)>>
    <2>1. IsList(s) /\ IsList(first)
      BY ShortLists DEF IsFunction
    <2>2. phis[b] = IF b \in new THEN first \o s ELSE s
      OBVIOUS
    <2> HIDE DEF s, first, phis
    <2>4. IsList(first \o s)
      BY <2>1, ListJoin
    <2> QED BY <2>1, <2>2, <2>4
  <1> HIDE DEF phis, todo
  <1>4. SameGraph(ir, ir')
    BY <1>1, <1>2, <1>3, NewPhis
  <1>5. M2rInv'
    BY <1>1 DEF M2rInv, IsCall
  <1> QED BY <1>4, <1>5

LEMMA RenameFacts ==
  ASSUME M2rInv, IsFunction(ir), NEW block \in AllBlocks, Rename(block)
  PROVE  M2rInv' /\ SameGraph(ir, ir')
  <1> DEFINE scan == Scan(block, m2r.var_stack, ir)
             g == scan.ir
             h == FillSuccessors(block, scan.stacks, g)
             n == Len(m2r.calls)
             callers == IF m2r.calls = <<>> THEN <<>>
                        ELSE [m2r.calls EXCEPT ![n].children = @ \ {block}]
             call == [block |-> block, children |-> ChildrenOf(m2r.dom, block) \cap Blocks,
                      pushed |-> [v \in Vars |-> Len(scan.stacks[v]) - Len(m2r.var_stack[v])]]
             calls == callers \o <<call>>
  <1>1. /\ ir' = h
        /\ m2r' = [m2r EXCEPT !.phase = "rename", !.var_stack = scan.stacks, !.calls = calls]
    BY DEF Rename
  <1>2. SameGraph(ir, g)
    BY ScanFacts
  <1> HIDE DEF g
  <1>3. SameGraph(g, h)
    <2>1. IsFunction(g)
      BY <1>2 DEF SameGraph
    <2> QED BY <2>1, FillFacts
  <1>4. SameGraph(ir, h)
    BY <1>2, <1>3, SameGraphFacts
  <1>5. IsCall(call)
    BY BlocksOf DEF IsCall, Blocks
  <1>6. IsList(callers) /\ \A i \in 1 .. Len(callers) : IsCall(callers[i])
    <2>1. CASE m2r.calls = <<>>
      <3>1. callers = <<>> /\ Len(<<>>) = 0
        BY <2>1
      <3> QED BY <3>1, ShortLists
    <2>2. CASE m2r.calls # <<>>
      <3>1. /\ n \in Nat /\ DOMAIN m2r.calls = 1 .. n /\ m2r.calls = [i \in 1 .. n |-> m2r.calls[i]]
            /\ \A i \in 1 .. n : IsCall(m2r.calls[i])
        BY ListFacts DEF M2rInv
      <3>2. callers = [i \in 1 .. n |->
                IF i = n THEN [m2r.calls[i] EXCEPT !.children = m2r.calls[i].children \ {block}]
                         ELSE m2r.calls[i]]
        BY <2>2, <3>1
      <3>3. ASSUME NEW i \in 1 .. n PROVE IsCall(callers[i])
        <4> DEFINE c == m2r.calls[i]
        <4>1. IsCall(c) /\ callers[i] = IF i = n THEN [c EXCEPT !.children = c.children \ {block}] ELSE c
          BY <3>1, <3>2
        <4> HIDE DEF c, callers
        <4> QED BY <4>1 DEF IsCall
      <3>4. callers = [i \in 1 .. n |-> callers[i]]
        BY <3>2
      <3> HIDE DEF callers, n
      <3> QED BY <3>1, <3>3, <3>4, ListOf
    <2> QED BY <2>1, <2>2
  <1> HIDE DEF callers, call
  <1>7. IsList(calls) /\ \A i \in 1 .. Len(calls) : IsCall(calls[i])
    <2>1. IsList(calls)
      BY <1>6, ShortLists, ListJoin
    <2>2. Len(calls) = Len(callers) + 1 /\ Len(callers) \in Nat
          /\ calls[Len(callers) + 1] = call /\ \A i \in 1 .. Len(callers) : calls[i] = callers[i]
      <3>1. PICK S : callers \in Seq(S)
        BY <1>6 DEF IsList
      <3>2. callers \in Seq(S \cup {call}) /\ <<call>> \in Seq(S \cup {call}) /\ Len(<<call>>) = 1
            /\ <<call>>[1] = call
        BY <3>1
      <3> QED BY <3>2
    <2> HIDE DEF calls
    <2> QED BY <1>5, <1>6, <2>1, <2>2
  <1> HIDE DEF calls, scan
  <1>8. M2rInv'
    <2>1. /\ m2r'.calls = calls
          /\ m2r' = [phase |-> m2r'.phase, vars |-> m2r'.vars, var |-> m2r'.var, todo |-> m2r'.todo,
              defs |-> m2r'.defs, dom |-> m2r'.dom, calls |-> m2r'.calls, var_stack |-> m2r'.var_stack]
      BY <1>1 DEF M2rInv
    <2> QED BY <1>7, <2>1 DEF M2rInv
  <1> QED BY <1>1, <1>4, <1>8

LEMMA RenameReturnKeeps ==
  ASSUME M2rInv, RenameReturn
  PROVE  M2rInv' /\ ir' = ir
  <1> DEFINE stacks == [v \in Vars |-> SubSeq(m2r.var_stack[v], 1,
                            Len(m2r.var_stack[v]) - Last(m2r.calls).pushed[v])]
             calls == Front(m2r.calls)
  <1>1. /\ m2r.calls # <<>> /\ ir' = ir
        /\ m2r' = [m2r EXCEPT !.calls = calls, !.var_stack = stacks]
    BY DEF RenameReturn
  <1>2. IsList(calls) /\ \A i \in 1 .. Len(calls) : IsCall(calls[i])
    <2>1. PICK S : m2r.calls \in Seq(S)
      BY DEF M2rInv, IsList
    <2>2. /\ calls \in Seq(S) /\ Len(calls) = Len(m2r.calls) - 1 /\ Len(m2r.calls) \in Nat
          /\ \A i \in 1 .. Len(calls) : calls[i] = m2r.calls[i]
      BY <1>1, <2>1 DEF Front
    <2>3. \A i \in 1 .. Len(calls) : i \in 1 .. Len(m2r.calls)
      BY <2>2
    <2> HIDE DEF calls
    <2> QED BY <2>2, <2>3 DEF IsList, M2rInv
  <1> HIDE DEF stacks, calls
  <1>3. /\ m2r'.calls = calls
        /\ m2r' = [phase |-> m2r'.phase, vars |-> m2r'.vars, var |-> m2r'.var, todo |-> m2r'.todo,
              defs |-> m2r'.defs, dom |-> m2r'.dom, calls |-> m2r'.calls, var_stack |-> m2r'.var_stack]
    BY <1>1 DEF M2rInv
  <1> QED BY <1>1, <1>2, <1>3 DEF M2rInv

LEMMA DeletePromotedKeeps ==
  ASSUME M2rInv, IsFunction(ir), DeletePromoted
  PROVE  M2rInv' /\ SameGraph(ir, ir')
  <1> DEFINE at(b) == {i \in DOMAIN ir.body[b] : ir.body[b][i].op \notin {"load", "store"}}
             body == [b \in AllBlocks |-> IF b \in Blocks THEN Kept(ir.body[b], at(b)) ELSE ir.body[b]]
  <1>1. ir' = [ir EXCEPT !.body = body] /\ m2r' = [m2r EXCEPT !.phase = "done"]
    BY DEF DeletePromoted
  <1>2. \A b \in AllBlocks : IsList(body[b])
    <2> HIDE DEF at
    <2> QED BY ListKept DEF IsFunction
  <1>3. body = [b \in AllBlocks |-> body[b]]
    OBVIOUS
  <1> HIDE DEF body
  <1>4. SameGraph(ir, ir')
    BY <1>1, <1>2, <1>3, NewBody
  <1> QED BY <1>1, <1>4 DEF M2rInv, IsCall

LEMMA Lowest ==
  ASSUME NEW S \in SUBSET Nat, S # {}
  PROVE  \E c \in S : \A d \in S : c <= d
  <1>1. PICK c \in S : \A d \in S : <<d, c>> \notin OpToRel(<, Nat)
    BY NatLessThanWellFounded, WFMin
  <1>2. \A d \in S : ~(d < c)
    BY <1>1 DEF OpToRel
  <1> QED BY <1>2

(* Mem2Reg changes no block and no edge. *)
LEMMA Mem2RegKeeps ==
  ASSUME M2rInv, IsFunction(ir), Mem2RegStep
  PROVE  M2rInv' /\ SameGraph(ir, ir')
  <1>1. CASE RequestDominators
    BY <1>1, SameGraphFacts DEF RequestDominators, M2rInv, IsCall
  <1>2. CASE \E v \in Vars : PlaceVariable(v)
    BY <1>2, SameGraphFacts DEF PlaceVariable, M2rInv, IsCall
  <1>3. CASE PlacePhis
    BY <1>3, PlacePhisKeeps
  <1>4. CASE RenameEntry
    <2>1. Entry \in AllBlocks /\ Rename(Entry)
      BY <1>4, BuilderAssumption DEF RenameEntry, Entry, AllBlocks
    <2> QED BY <2>1, RenameFacts
  <1>5. CASE RenameChild
    <2> DEFINE children == Last(m2r.calls).children
               block == CHOOSE c \in children : \A d \in children : c <= d
    <2>1. m2r.calls # <<>> /\ children # {} /\ Rename(block)
      BY <1>5 DEF RenameChild
    <2>2. children \subseteq AllBlocks
      <3>1. PICK S : m2r.calls \in Seq(S)
        BY DEF M2rInv, IsList
      <3>2. Len(m2r.calls) \in 1 .. Len(m2r.calls)
        BY <2>1, <3>1
      <3> QED BY <3>2 DEF M2rInv, IsCall, Last
    <2>3. \E c \in children : \A d \in children : c <= d
      BY <2>1, <2>2, Lowest DEF AllBlocks
    <2>4. block \in AllBlocks
      BY <2>2, <2>3
    <2> HIDE DEF block
    <2> QED BY <2>1, <2>4, RenameFacts
  <1>6. CASE RenameReturn
    BY <1>6, RenameReturnKeeps, SameGraphFacts
  <1>7. CASE DeletePromoted
    BY <1>7, DeletePromotedKeeps
  <1> QED BY <1>1, <1>2, <1>3, <1>4, <1>5, <1>6, <1>7 DEF Mem2RegStep
-----------------------------------------------------------------------------
(* DeadCode. *)

LEMMA NewContents ==
  ASSUME NEW g, IsFunction(g), NEW phis, phis = [b \in AllBlocks |-> phis[b]],
         NEW body, body = [b \in AllBlocks |-> body[b]],
         \A b \in AllBlocks : IsList(phis[b]) /\ IsList(body[b])
  PROVE  SameGraph(g, [g EXCEPT !.phis = phis, !.body = body])
  <1> SUFFICES ASSUME NEW h, h = [g EXCEPT !.phis = phis, !.body = body]
               PROVE  SameGraph(g, h)
    OBVIOUS
  <1>1. h = [blocks |-> g.blocks, succ |-> g.succ, pred |-> g.pred, term |-> g.term,
             phis |-> phis, body |-> body]
    <2>1. g = [blocks |-> g.blocks, succ |-> g.succ, pred |-> g.pred, term |-> g.term,
               phis |-> g.phis, body |-> g.body]
      BY DEF IsFunction
    <2> QED BY <2>1
  <1>2. IsFunction([blocks |-> g.blocks, succ |-> g.succ, pred |-> g.pred, term |-> g.term,
               phis |-> phis, body |-> body])
    BY FunctionBy DEF IsFunction
  <1> QED BY <1>1, <1>2 DEF SameGraph

(* DeadCode changes no block and no edge. *)
LEMMA DeadCodeKeeps ==
  ASSUME IsFunction(ir), DeadCodeStep
  PROVE  SameGraph(ir, ir')
  <1> DEFINE phisAt(b) == {k \in DOMAIN ir.phis[b] : PhiId(b, ir.phis[b][k].var) \in dc.marked}
             bodyAt(b) == {k \in DOMAIN ir.body[b] :
                                IsCriticalInst(ir.body[b][k]) \/ ir.body[b][k].id \in dc.marked}
             phis == [b \in AllBlocks |-> IF b \in Blocks THEN Kept(ir.phis[b], phisAt(b)) ELSE ir.phis[b]]
             body == [b \in AllBlocks |-> IF b \in Blocks THEN Kept(ir.body[b], bodyAt(b)) ELSE ir.body[b]]
  <1>1. CASE Mark
    BY <1>1, SameGraphFacts DEF Mark
  <1>2. CASE Sweep
    <2>1. ir' = [ir EXCEPT !.phis = phis, !.body = body]
      BY <1>2, Zenon DEF Sweep, Swept
    <2>2. \A b \in AllBlocks : IsList(phis[b]) /\ IsList(body[b])
      <3> HIDE DEF phisAt, bodyAt
      <3> QED BY ListKept DEF IsFunction
    <2>3. phis = [b \in AllBlocks |-> phis[b]] /\ body = [b \in AllBlocks |-> body[b]]
      OBVIOUS
    <2> HIDE DEF phis, body
    <2> QED BY <2>1, <2>2, <2>3, NewContents
  <1> QED BY <1>1, <1>2 DEF DeadCodeStep

-----------------------------------------------------------------------------
(* LoopInvHoist. *)

HoistInv ==
    /\ hoist = [loops |-> hoist.loops, done |-> hoist.done]
    /\ \A loop \in hoist.loops : loop.blocks \subseteq AllBlocks

LEMMA HoistBegins ==
  ASSUME IsFunction(ir), hoist' = HoistStart
  PROVE  HoistInv'
  <1> DEFINE cfg == CfgOf(ir)
             live == Reached(cfg, {Entry}, {})
  <1>1. cfg \in [AllBlocks -> Seq(AllBlocks)]
    BY DEF CfgOf, IsFunction
  <1>2. Entry \in AllBlocks /\ IsFiniteSet(AllBlocks)
    BY BuilderAssumption, FS_Interval DEF Entry, AllBlocks
  <1> HIDE DEF cfg
  <1>3. live \subseteq AllBlocks
    <2>1. live = Least(cfg, {Entry} \ {}, {})
      BY <1>1, <1>2, ReachedIsLeast
    <2> QED BY <1>1, <2>1 DEF Least
  <1>4. \A loop \in NaturalLoops(cfg, Entry) : loop.blocks \subseteq AllBlocks
    <2> HIDE DEF live
    <2> SUFFICES ASSUME NEW loop \in NaturalLoops(cfg, Entry) PROVE loop.blocks \subseteq AllBlocks
      OBVIOUS
    <2> DEFINE dom == Dominated(cfg, Entry)
               sources(h) == {p \in dom[h] \cap live : h \in ToSet(cfg[p])}
               body(h) == {b \in live \ {h} : Reached(cfg, {b}, {h}) \cap sources(h) # {}}
    <2>1. \E h \in live : loop = [base |-> h, blocks |-> {h} \cup body(h)]
      BY DEF NaturalLoops, live
    <2>2. PICK h \in live : loop = [base |-> h, blocks |-> {h} \cup body(h)]
      BY <2>1
    <2>3. body(h) \subseteq live
      OBVIOUS
    <2> HIDE DEF body
    <2> QED BY <1>3, <2>2, <2>3
  <1> QED BY <1>4 DEF HoistStart, HoistInv, cfg

LEMMA ImageFinite ==
  ASSUME NEW S, IsFiniteSet(S), NEW f
  PROVE  IsFiniteSet({f[x] : x \in S})
  <1> DEFINE T == {f[x] : x \in S}
             g == [x \in S |-> f[x]]
  <1>1. g \in Surjection(S, T)
    BY DEF Surjection
  <1> QED BY <1>1, FS_Surjection

LEMMA InvariantsFinite ==
  ASSUME IsFunction(ir), NEW loop, loop.blocks \subseteq AllBlocks, NEW processed
  PROVE  IsFiniteSet(Invariants(loop, processed))
  <1> DEFINE mine == {inst \in UNION {ToSet(ir.body[b]) : b \in loop.blocks \ processed} :
                            IsMovable(inst)}
             inside == DefinedInLoop(loop)
             n == Cardinality(mine)
             base == {}
             next(prev, k) == UNION {{inst \in mine : Operands(inst) \cap inside \subseteq {i.id : i \in S}}
                                        : S \in {prev}}
             found == CHOOSE f : f = [k \in 0 .. n |-> IF k = 0 THEN base ELSE next(f[k - 1], k)]
  <1>0. IsFiniteSet(mine)
    <2>1. IsFiniteSet(loop.blocks \ processed)
      <3>1. IsFiniteSet(AllBlocks)
        BY BuilderAssumption, FS_Interval DEF AllBlocks
      <3>2. loop.blocks \ processed \subseteq AllBlocks
        OBVIOUS
      <3> QED BY <3>1, <3>2, FS_Subset
    <2>2. \A b \in AllBlocks : IsFiniteSet(ToSet(ir.body[b]))
      <3> TAKE b \in AllBlocks
      <3> DEFINE s == ir.body[b]
      <3>1. PICK S : s \in Seq(S)
        BY DEF IsFunction, IsList
      <3> HIDE DEF s
      <3>2. DOMAIN s = 1 .. Len(s) /\ Len(s) \in Nat /\ ToSet(s) = {s[i] : i \in DOMAIN s}
        BY <3>1 DEF ToSet
      <3>3. IsFiniteSet(1 .. Len(s))
        BY <3>2, FS_Interval
      <3>4. IsFiniteSet(ToSet(s))
        BY <3>2, <3>3, ImageFinite
      <3> QED BY <3>4 DEF s
    <2>3. IsFiniteSet(UNION {ToSet(ir.body[b]) : b \in loop.blocks \ processed})
      <3> DEFINE X == loop.blocks \ processed
                 f == [b \in AllBlocks |-> ToSet(ir.body[b])]
                 F == {f[b] : b \in X}
      <3>1. {ToSet(ir.body[b]) : b \in X} = F /\ \A T \in F : IsFiniteSet(T)
        BY <2>2
      <3>2. IsFiniteSet(X)
        BY <2>1
      <3> HIDE DEF X, f
      <3>3. IsFiniteSet(F)
        BY <3>2, ImageFinite
      <3> HIDE DEF F
      <3>4. IsFiniteSet(UNION F)
        BY <3>1, <3>3, FS_UNION
      <3> QED BY <3>1, <3>4 DEF X
    <2> QED BY <2>3, FS_Subset
  <1>1. n \in Nat
    BY <1>0, FS_CardinalityType
  <1>2. Invariants(loop, processed) = found[n]
    BY DEF Invariants
  <1>3. \A prev, k : next(prev, k) \subseteq mine
    OBVIOUS
  <1> HIDE DEF n, next, found, mine
  <1>4. \E f : f = [i \in 0 .. n |-> IF i = 0 THEN base ELSE next(f[i - 1], i)]
    <2> DEFINE T == {k \in 0 .. n : \E f : f = [i \in 0 .. k |-> IF i = 0 THEN base ELSE next(f[i - 1], i)]}
    <2>1. 0 \in T
      <3> DEFINE f == [i \in 0 .. 0 |-> base]
      <3>1. f = [i \in 0 .. 0 |-> IF i = 0 THEN base ELSE next(f[i - 1], i)]
        OBVIOUS
      <3> HIDE DEF f
      <3>2. 0 \in 0 .. n /\ \E h : h = [i \in 0 .. 0 |-> IF i = 0 THEN base ELSE next(h[i - 1], i)]
        BY <1>1, <3>1
      <3> QED BY <3>2
    <2>2. ASSUME NEW k \in 1 .. n, k - 1 \in T PROVE k \in T
      <3>1. PICK f : f = [i \in 0 .. k - 1 |-> IF i = 0 THEN base ELSE next(f[i - 1], i)]
        BY <2>2
      <3> DEFINE h == [i \in 0 .. k |-> IF i = k THEN next(f[k - 1], k) ELSE f[i]]
      <3>2. /\ h[k] = next(f[k - 1], k) /\ k # 0 /\ h[k - 1] = f[k - 1]
            /\ \A i \in 0 .. k : i # k => h[i] = f[i] /\ (i # 0 => h[i - 1] = f[i - 1])
            /\ \A i \in 0 .. k : i # k => i \in 0 .. k - 1
        OBVIOUS
      <3>3. ASSUME NEW i \in 0 .. k
            PROVE  h[i] = IF i = 0 THEN base ELSE next(h[i - 1], i)
        <4> HIDE DEF h
        <4>1. CASE i = k
          BY <3>2, <4>1
        <4>2. CASE i # k
          <5>1. f[i] = IF i = 0 THEN base ELSE next(f[i - 1], i)
            BY <3>1, <3>2, <4>2
          <5> QED BY <3>2, <4>2, <5>1
        <4> QED BY <4>1, <4>2
      <3>4. h = [i \in 0 .. k |-> h[i]] /\ k \in 0 .. n
        OBVIOUS
      <3> HIDE DEF h
      <3>5. h = [i \in 0 .. k |-> IF i = 0 THEN base ELSE next(h[i - 1], i)]
        BY <3>3, <3>4
      <3> QED BY <3>4, <3>5
    <2> HIDE DEF T
    <2>3. n \in T
      <3>1. 0 .. n \subseteq T
        BY <1>1, <2>1, <2>2, UpTo
      <3> QED BY <1>1, <3>1
    <2> QED BY <2>3 DEF T
  <1>5. found = [i \in 0 .. n |-> IF i = 0 THEN base ELSE next(found[i - 1], i)]
    BY <1>4 DEF found
  <1>6. found[n] \subseteq mine
    <2>1. n \in 0 .. n
      BY <1>1
    <2>2. found[n] = IF n = 0 THEN base ELSE next(found[n - 1], n)
      BY <1>5, <2>1
    <2>3. found[n] = {} \/ found[n] = next(found[n - 1], n)
      BY <2>2
    <2> QED BY <1>3, <2>3
  <1> QED BY <1>0, <1>2, <1>6, FS_Subset

LEMMA MoveFacts ==
  ASSUME IsFunction(ir), NEW preheader, NEW order, IsList(order)
  PROVE  SameGraph(ir, MoveTo(preheader, order))
  <1> DEFINE at(b) == {i \in DOMAIN ir.body[b] : ir.body[b][i] \notin ToSet(order)}
             body == [b \in AllBlocks |->
                        IF b = preheader THEN ir.body[b] \o order ELSE Kept(ir.body[b], at(b))]
  <1>1. MoveTo(preheader, order) = [ir EXCEPT !.body = body]
    BY Zenon DEF MoveTo
  <1>2. \A b \in AllBlocks : IsList(body[b])
    <2> TAKE b \in AllBlocks
    <2> DEFINE s == ir.body[b]
               t == at(b)
    <2>1. IsList(s) /\ body[b] = IF b = preheader THEN s \o order ELSE Kept(s, t)
      BY DEF IsFunction
    <2> HIDE DEF s, t, at, body
    <2>2. IsList(s \o order) /\ IsList(Kept(s, t))
      BY <2>1, ListJoin, ListKept
    <2> QED BY <2>1, <2>2
  <1>3. body = [b \in AllBlocks |-> body[b]]
    OBVIOUS
  <1> HIDE DEF body
  <1> QED BY <1>1, <1>2, <1>3, NewBody

(* LoopInvHoist changes no block and no edge. *)
LEMMA HoistKeeps ==
  ASSUME HoistInv, IsFunction(ir), HoistStep
  PROVE  HoistInv' /\ SameGraph(ir, ir')
  <1>1. PICK loop \in hoist.loops : HoistLoop(loop)
    BY DEF HoistStep
  <1> DEFINE processed == UNION {l.blocks : l \in hoist.done}
             S == Invariants(loop, processed)
  <1>2. HoistInv'
    <2>1. hoist' = [hoist EXCEPT !.done = hoist.done \cup {loop}]
      BY <1>1 DEF HoistLoop
    <2> QED BY <2>1 DEF HoistInv
  <1>3. ir' = ir \/ \E p, order : order \in TopologicalOrders(S) /\ ir' = MoveTo(p, order)
    BY <1>1 DEF HoistLoop
  <1>4. IsFiniteSet(S)
    BY InvariantsFinite DEF HoistInv
  <1> HIDE DEF S
  <1>5. ASSUME NEW p, NEW order, order \in TopologicalOrders(S), ir' = MoveTo(p, order)
        PROVE  SameGraph(ir, ir')
    <2>1. Cardinality(S) \in Nat
      BY <1>4, FS_CardinalityType
    <2>2. order \in [1 .. Cardinality(S) -> S]
      BY <1>5 DEF TopologicalOrders, SetToSeqs
    <2>3. IsList(order)
      <3> DEFINE n == Cardinality(S)
      <3>1. n \in Nat /\ order = [i \in 1 .. n |-> order[i]]
        BY <2>1, <2>2
      <3> HIDE DEF n
      <3> QED BY <3>1, ListOf
    <2> QED BY <1>5, <2>3, MoveFacts
  <1> QED BY <1>2, <1>3, <1>5, SameGraphFacts

-----------------------------------------------------------------------------
(* SimplifyPhi changes no block and no edge. *)
LEMMA SimplifyKeeps ==
  ASSUME IsFunction(ir), SimplifyStep
  PROVE  SameGraph(ir, ir')
  <1>1. CASE SimplifyNext
    <2>1. ir' = ir \/ \E id, value : ir' = ReplaceAllUses(ir, id, value)
      BY <1>1 DEF SimplifyNext
    <2> QED BY <2>1, ReplaceFacts, SameGraphFacts
  <1>2. CASE ErasePhis
    <2> DEFINE at(b) == {i \in DOMAIN ir.phis[b] : PhiId(b, ir.phis[b][i].var) \notin simp.erase}
               phis == [b \in AllBlocks |-> Kept(ir.phis[b], at(b))]
    <2>1. ir' = [ir EXCEPT !.phis = phis]
      BY <1>2, Zenon DEF ErasePhis
    <2>2. \A b \in AllBlocks : IsList(phis[b])
      <3> HIDE DEF at
      <3> QED BY ListKept DEF IsFunction
    <2>3. phis = [b \in AllBlocks |-> phis[b]]
      OBVIOUS
    <2> HIDE DEF phis
    <2> QED BY <2>1, <2>2, <2>3, NewPhis
  <1> QED BY <1>1, <1>2 DEF SimplifyStep
-----------------------------------------------------------------------------
(* ConstPropagation. *)

LEMMA ListPart ==
  ASSUME NEW s, NEW m \in Int, NEW n \in Int
  PROVE  IsList(SubSeq(s, m, n))
  <1> DEFINE S == {s[j] : j \in m .. n}
  <1>1. \A j \in m .. n : s[j] \in S
    OBVIOUS
  <1> HIDE DEF S
  <1>2. SubSeq(s, m, n) \in Seq(S)
    BY <1>1, SubSeqProperties
  <1> QED BY <1>2 DEF IsList

LEMMA ListWithout ==
  ASSUME NEW s, IsList(s), NEW i \in Nat \ {0}
  PROVE  IsList(RemoveAt(s, i))
  <1>1. Len(s) \in Int /\ i - 1 \in Int /\ i + 1 \in Int
    BY ListFacts
  <1>2. IsList(SubSeq(s, 1, i - 1)) /\ IsList(SubSeq(s, i + 1, Len(s)))
    BY <1>1, ListPart
  <1> QED BY <1>2, ListJoin DEF RemoveAt

LEMMA OneBody ==
  ASSUME NEW g, IsFunction(g), NEW b \in AllBlocks, NEW s, IsList(s)
  PROVE  SameGraph(g, [g EXCEPT !.body[b] = s])
  <1> DEFINE body == [g.body EXCEPT ![b] = s]
  <1>1. body = [c \in AllBlocks |-> IF c = b THEN s ELSE g.body[c]]
    BY DEF IsFunction
  <1>2. [g EXCEPT !.body[b] = s] = [g EXCEPT !.body = body]
    OBVIOUS
  <1>3. body = [c \in AllBlocks |-> body[c]] /\ \A c \in AllBlocks : IsList(body[c])
    BY <1>1 DEF IsFunction
  <1> HIDE DEF body
  <1>4. SameGraph(g, [g EXCEPT !.body = body])
    BY <1>3, NewBody
  <1> QED BY <1>2, <1>4

LEMMA OnePhis ==
  ASSUME NEW g, IsFunction(g), NEW b \in AllBlocks, NEW s, IsList(s)
  PROVE  SameGraph(g, [g EXCEPT !.phis[b] = s])
  <1> DEFINE phis == [g.phis EXCEPT ![b] = s]
  <1>1. phis = [c \in AllBlocks |-> IF c = b THEN s ELSE g.phis[c]]
    BY DEF IsFunction
  <1>2. [g EXCEPT !.phis[b] = s] = [g EXCEPT !.phis = phis]
    OBVIOUS
  <1>3. phis = [c \in AllBlocks |-> phis[c]] /\ \A c \in AllBlocks : IsList(phis[c])
    BY <1>1 DEF IsFunction
  <1> HIDE DEF phis
  <1>4. SameGraph(g, [g EXCEPT !.phis = phis])
    BY <1>3, NewPhis
  <1> QED BY <1>2, <1>4

FoldsFrom(g, s) ==
    /\ s = [g |-> s.g, next |-> s.next, known |-> s.known, traps |-> s.traps]
    /\ s.next \in Nat \ {0} /\ SameGraph(g, s.g)

LEMMA FoldInstFacts ==
  ASSUME NEW g, NEW s, FoldsFrom(g, s), NEW b \in AllBlocks, NEW inst
  PROVE  FoldsFrom(g, FoldInst(s, b, inst))
  <1> DEFINE known == Learn(s.known, inst)
             traps == s.traps \/ HostTraps(inst.op, inst.args)
             constants == Replacement(s.known, inst)
             rest == RemoveAt(s.g.body[b], s.next)
             without == [s.g EXCEPT !.body[b] = rest]
             value == CHOOSE c \in constants : TRUE
             id == inst.id
             new == ReplaceAllUses(without, id, value)
             s1 == [s EXCEPT !.known = known, !.traps = traps]
  <1>1. s1 = [g |-> s.g, next |-> s.next, known |-> known, traps |-> traps]
    <2> HIDE DEF known, traps
    <2>1. s = [g |-> s.g, next |-> s.next, known |-> s.known, traps |-> s.traps]
      BY DEF FoldsFrom
    <2> SUFFICES ASSUME NEW r, r = [s EXCEPT !.known = known, !.traps = traps]
                 PROVE  r = [g |-> s.g, next |-> s.next, known |-> known, traps |-> traps]
      OBVIOUS
    <2> QED BY <2>1
  <1>2. FoldInst(s, b, inst) = Replace(s1, b, inst, constants)
    BY Zenon DEF FoldInst
  <1> HIDE DEF known, traps, constants, s1
  <1>3. Replace(s1, b, inst, constants) =
            IF constants = {} THEN [g |-> s.g, next |-> s.next + 1, known |-> known, traps |-> traps]
            ELSE [g |-> new, next |-> s.next, known |-> known, traps |-> traps]
    <2>1. s1.g = s.g /\ s1.next = s.next
      BY <1>1
    <2>2. Replace(s1, b, inst, constants) =
            IF constants = {} THEN [s1 EXCEPT !.next = s.next + 1] ELSE [s1 EXCEPT !.g = new]
      BY <2>1, Zenon DEF Replace
    <2> HIDE DEF new
    <2> QED BY <1>1, <2>2
  <1>4. IsFunction(s.g) /\ IsList(s.g.body[b])
    BY DEF FoldsFrom, SameGraph, IsFunction
  <1>5. IsList(rest)
    <2> DEFINE u == s.g.body[b]
               i == s.next
    <2>1. IsList(u) /\ i \in Nat \ {0}
      BY <1>4 DEF FoldsFrom
    <2> HIDE DEF u, i
    <2>2. IsList(RemoveAt(u, i))
      BY <2>1, ListWithout
    <2> QED BY <2>2 DEF u, i
  <1> HIDE DEF rest
  <1>6. SameGraph(s.g, without)
    <2> DEFINE h == s.g
    <2>1. IsFunction(h)
      BY <1>4
    <2> HIDE DEF h
    <2>2. SameGraph(h, [h EXCEPT !.body[b] = rest])
      BY <1>5, <2>1, OneBody
    <2> QED BY <2>2 DEF h
  <1> HIDE DEF without, value, id
  <1>7. SameGraph(without, new)
    BY <1>6, ReplaceFacts DEF SameGraph
  <1> HIDE DEF new
  <1>8. SameGraph(g, new) /\ SameGraph(g, s.g)
    BY <1>6, <1>7, SameGraphFacts DEF FoldsFrom
  <1>9. s.next + 1 \in Nat \ {0} /\ s.next \in Nat \ {0}
    BY DEF FoldsFrom
  <1>10. FoldsFrom(g, [g |-> s.g, next |-> s.next + 1, known |-> known, traps |-> traps])
    BY <1>8, <1>9 DEF FoldsFrom
  <1>11. FoldsFrom(g, [g |-> new, next |-> s.next, known |-> known, traps |-> traps])
    BY <1>8, <1>9 DEF FoldsFrom
  <1> QED BY <1>2, <1>3, <1>10, <1>11

LEMMA FoldedFacts ==
  ASSUME IsFunction(ir), NEW b \in AllBlocks
  PROVE  SameGraph(ir, Folded(b).g)
  <1> DEFINE n == Len(ir.body[b])
             base == [g |-> ir, next |-> 1, known |-> <<>>, traps |-> FALSE]
             next(s, i) == FoldInst(s, b, s.g.body[b][s.next])
             after == CHOOSE f : f = [i \in 0 .. n |-> IF i = 0 THEN base ELSE next(f[i - 1], i)]
  <1>1. n \in Nat
    BY ListFacts DEF IsFunction
  <1>2. Folded(b) = after[n]
    BY DEF Folded
  <1>3. FoldsFrom(ir, base)
    BY SameGraphFacts DEF FoldsFrom
  <1>7. \A s, i : FoldsFrom(ir, s) => FoldsFrom(ir, next(s, i))
    BY FoldInstFacts
  <1> HIDE DEF n, next, base, after
  <1>4. \E f : f = [i \in 0 .. n |-> IF i = 0 THEN base ELSE next(f[i - 1], i)]
    <2> DEFINE T == {k \in 0 .. n : \E f : f = [i \in 0 .. k |-> IF i = 0 THEN base ELSE next(f[i - 1], i)]}
    <2>1. 0 \in T
      <3> DEFINE f == [i \in 0 .. 0 |-> base]
      <3>1. f = [i \in 0 .. 0 |-> IF i = 0 THEN base ELSE next(f[i - 1], i)]
        OBVIOUS
      <3> HIDE DEF f
      <3>2. 0 \in 0 .. n /\ \E h : h = [i \in 0 .. 0 |-> IF i = 0 THEN base ELSE next(h[i - 1], i)]
        BY <1>1, <3>1
      <3> QED BY <3>2
    <2>2. ASSUME NEW k \in 1 .. n, k - 1 \in T PROVE k \in T
      <3>1. PICK f : f = [i \in 0 .. k - 1 |-> IF i = 0 THEN base ELSE next(f[i - 1], i)]
        BY <2>2
      <3> DEFINE h == [i \in 0 .. k |-> IF i = k THEN next(f[k - 1], k) ELSE f[i]]
      <3>2. /\ h[k] = next(f[k - 1], k) /\ k # 0 /\ h[k - 1] = f[k - 1]
            /\ \A i \in 0 .. k : i # k => h[i] = f[i] /\ (i # 0 => h[i - 1] = f[i - 1])
            /\ \A i \in 0 .. k : i # k => i \in 0 .. k - 1
        OBVIOUS
      <3>3. ASSUME NEW i \in 0 .. k
            PROVE  h[i] = IF i = 0 THEN base ELSE next(h[i - 1], i)
        <4> HIDE DEF h
        <4>1. CASE i = k
          BY <3>2, <4>1
        <4>2. CASE i # k
          <5>1. f[i] = IF i = 0 THEN base ELSE next(f[i - 1], i)
            BY <3>1, <3>2, <4>2
          <5> QED BY <3>2, <4>2, <5>1
        <4> QED BY <4>1, <4>2
      <3>4. h = [i \in 0 .. k |-> h[i]] /\ k \in 0 .. n
        OBVIOUS
      <3> HIDE DEF h
      <3>5. h = [i \in 0 .. k |-> IF i = 0 THEN base ELSE next(h[i - 1], i)]
        BY <3>3, <3>4
      <3> QED BY <3>4, <3>5
    <2> HIDE DEF T
    <2>3. n \in T
      <3>1. 0 .. n \subseteq T
        BY <1>1, <2>1, <2>2, UpTo
      <3> QED BY <1>1, <3>1
    <2> QED BY <2>3 DEF T
  <1>5. after = [i \in 0 .. n |-> IF i = 0 THEN base ELSE next(after[i - 1], i)]
    BY <1>4 DEF after
  <1> DEFINE T == {k \in 0 .. n : FoldsFrom(ir, after[k])}
  <1>6. 0 \in T
    <2>1. after[0] = base /\ 0 \in 0 .. n
      BY <1>1, <1>5
    <2> QED BY <1>3, <2>1
  <1>8. ASSUME NEW k \in 1 .. n, k - 1 \in T PROVE k \in T
    <2>1. after[k] = next(after[k - 1], k) /\ k \in 0 .. n
      BY <1>1, <1>5
    <2> QED BY <1>7, <1>8, <2>1
  <1> HIDE DEF T
  <1>9. n \in T
    <2>1. 0 .. n \subseteq T
      BY <1>1, <1>6, <1>8, UpTo
    <2> QED BY <1>1, <2>1
  <1>10. FoldsFrom(ir, after[n])
    BY <1>9 DEF T
  <1> QED BY <1>2, <1>10 DEF FoldsFrom

DropsFrom(g, s) ==
    /\ s = [g |-> s.g, next |-> s.next]
    /\ s.next \in Nat \ {0} /\ SameGraph(g, s.g)

LEMMA DropFromPhiFacts ==
  ASSUME NEW g, NEW s, DropsFrom(g, s), NEW cur, NEW b \in AllBlocks
  PROVE  DropsFrom(g, DropFromPhi(s, cur, b))
  <1> DEFINE h == s.g
             list == h.phis[b]
             i == s.next
             phi == DropIncoming(list[i], cur)
             rest == RemoveAt(list, i)
             without == [h EXCEPT !.phis[b] = rest]
             id == PhiId(b, phi.var)
             value == phi.inc[1].val
             new == ReplaceAllUses(without, id, value)
             kept == [list EXCEPT ![i] = phi]
             with == [h EXCEPT !.phis[b] = kept]
  <1>1. /\ s = [g |-> h, next |-> i] /\ i \in Nat \ {0} /\ SameGraph(g, h)
        /\ IsFunction(h) /\ IsList(list)
    BY DEF DropsFrom, SameGraph, IsFunction
  <1>2. with = [h EXCEPT !.phis[b][i] = phi]
    <2> HIDE DEF phi, h, i
    <2> QED OBVIOUS
  <1>3. DropFromPhi(s, cur, b) =
            IF Len(phi.inc) = 1 THEN [s EXCEPT !.g = new] ELSE [g |-> with, next |-> i + 1]
    BY <1>2, Zenon DEF DropFromPhi
  <1>4. IsList(rest) /\ IsList(kept)
    <2> HIDE DEF phi, list, i
    <2>1. IsList(rest)
      BY <1>1, ListWithout
    <2>2. /\ Len(list) \in Nat /\ DOMAIN list = 1 .. Len(list)
          /\ kept = [j \in DOMAIN list |-> kept[j]]
      BY <1>1, ListFacts
    <2> HIDE DEF kept
    <2> QED BY <2>1, <2>2, ListOf
  <1> HIDE DEF rest, kept, h, i
  <1>5. SameGraph(h, without) /\ SameGraph(h, with)
    BY <1>1, <1>4, OnePhis
  <1> HIDE DEF without, with, id, value
  <1>6. SameGraph(without, new)
    <2>1. IsFunction(without)
      BY <1>5 DEF SameGraph
    <2> QED BY <2>1, ReplaceFacts
  <1> HIDE DEF new
  <1>7. SameGraph(g, new) /\ SameGraph(g, with)
    BY <1>1, <1>5, <1>6, SameGraphFacts
  <1>8. DropFromPhi(s, cur, b) =
            IF Len(phi.inc) = 1 THEN [g |-> new, next |-> i] ELSE [g |-> with, next |-> i + 1]
    <2>1. [s EXCEPT !.g = new] = [g |-> new, next |-> i]
      BY <1>1
    <2> HIDE DEF phi
    <2> QED BY <1>3, <2>1
  <1> HIDE DEF phi
  <1>9. DropsFrom(g, [g |-> new, next |-> i]) /\ DropsFrom(g, [g |-> with, next |-> i + 1])
    BY <1>1, <1>7 DEF DropsFrom
  <1> QED BY <1>8, <1>9

LEMMA DropFromPhisFacts ==
  ASSUME NEW g, IsFunction(g), NEW cur, NEW b \in AllBlocks
  PROVE  SameGraph(g, DropFromPhis(g, cur, b))
  <1> DEFINE n == Len(g.phis[b])
             base == [g |-> g, next |-> 1]
             next(s, i) == DropFromPhi(s, cur, b)
             after == CHOOSE f : f = [i \in 0 .. n |-> IF i = 0 THEN base ELSE next(f[i - 1], i)]
  <1>1. n \in Nat
    BY ListFacts DEF IsFunction
  <1>2. DropFromPhis(g, cur, b) = after[n].g
    BY DEF DropFromPhis
  <1>3. DropsFrom(g, base)
    BY SameGraphFacts DEF DropsFrom
  <1>7. \A s, i : DropsFrom(g, s) => DropsFrom(g, next(s, i))
    BY DropFromPhiFacts
  <1> HIDE DEF n, next, base, after
  <1>4. \E f : f = [i \in 0 .. n |-> IF i = 0 THEN base ELSE next(f[i - 1], i)]
    <2> DEFINE T == {k \in 0 .. n : \E f : f = [i \in 0 .. k |-> IF i = 0 THEN base ELSE next(f[i - 1], i)]}
    <2>1. 0 \in T
      <3> DEFINE f == [i \in 0 .. 0 |-> base]
      <3>1. f = [i \in 0 .. 0 |-> IF i = 0 THEN base ELSE next(f[i - 1], i)]
        OBVIOUS
      <3> HIDE DEF f
      <3>2. 0 \in 0 .. n /\ \E h : h = [i \in 0 .. 0 |-> IF i = 0 THEN base ELSE next(h[i - 1], i)]
        BY <1>1, <3>1
      <3> QED BY <3>2
    <2>2. ASSUME NEW k \in 1 .. n, k - 1 \in T PROVE k \in T
      <3>1. PICK f : f = [i \in 0 .. k - 1 |-> IF i = 0 THEN base ELSE next(f[i - 1], i)]
        BY <2>2
      <3> DEFINE h == [i \in 0 .. k |-> IF i = k THEN next(f[k - 1], k) ELSE f[i]]
      <3>2. /\ h[k] = next(f[k - 1], k) /\ k # 0 /\ h[k - 1] = f[k - 1]
            /\ \A i \in 0 .. k : i # k => h[i] = f[i] /\ (i # 0 => h[i - 1] = f[i - 1])
            /\ \A i \in 0 .. k : i # k => i \in 0 .. k - 1
        OBVIOUS
      <3>3. ASSUME NEW i \in 0 .. k
            PROVE  h[i] = IF i = 0 THEN base ELSE next(h[i - 1], i)
        <4> HIDE DEF h
        <4>1. CASE i = k
          BY <3>2, <4>1
        <4>2. CASE i # k
          <5>1. f[i] = IF i = 0 THEN base ELSE next(f[i - 1], i)
            BY <3>1, <3>2, <4>2
          <5> QED BY <3>2, <4>2, <5>1
        <4> QED BY <4>1, <4>2
      <3>4. h = [i \in 0 .. k |-> h[i]] /\ k \in 0 .. n
        OBVIOUS
      <3> HIDE DEF h
      <3>5. h = [i \in 0 .. k |-> IF i = 0 THEN base ELSE next(h[i - 1], i)]
        BY <3>3, <3>4
      <3> QED BY <3>4, <3>5
    <2> HIDE DEF T
    <2>3. n \in T
      <3>1. 0 .. n \subseteq T
        BY <1>1, <2>1, <2>2, UpTo
      <3> QED BY <1>1, <3>1
    <2> QED BY <2>3 DEF T
  <1>5. after = [i \in 0 .. n |-> IF i = 0 THEN base ELSE next(after[i - 1], i)]
    BY <1>4 DEF after
  <1> DEFINE T == {k \in 0 .. n : DropsFrom(g, after[k])}
  <1>6. 0 \in T
    <2>1. after[0] = base /\ 0 \in 0 .. n
      BY <1>1, <1>5
    <2> QED BY <1>3, <2>1
  <1>8. ASSUME NEW k \in 1 .. n, k - 1 \in T PROVE k \in T
    <2>1. after[k] = next(after[k - 1], k) /\ k \in 0 .. n
      BY <1>1, <1>5
    <2> QED BY <1>7, <1>8, <2>1
  <1> HIDE DEF T
  <1>9. n \in T
    <2>1. 0 .. n \subseteq T
      BY <1>1, <1>6, <1>8, UpTo
    <2> QED BY <1>1, <2>1
  <1>10. DropsFrom(g, after[n])
    BY <1>9 DEF T
  <1> QED BY <1>2, <1>10 DEF DropsFrom

LEMMA DropFromSuccessorsFacts ==
  ASSUME NEW g, IsFunction(g), NEW cur \in AllBlocks
  PROVE  SameGraph(g, DropFromSuccessors(g, cur))
  <1> DEFINE n == Len(g.succ[cur])
             base == g
             next(h, i) == DropFromPhis(h, cur, g.succ[cur][i])
             after == CHOOSE f : f = [i \in 0 .. n |-> IF i = 0 THEN base ELSE next(f[i - 1], i)]
  <1>11. g.succ[cur] \in Seq(AllBlocks)
    BY DEF IsFunction
  <1>1. n \in Nat /\ \A i \in 1 .. n : g.succ[cur][i] \in AllBlocks
    BY <1>11
  <1>2. DropFromSuccessors(g, cur) = after[n]
    BY DEF DropFromSuccessors
  <1>3. SameGraph(g, base)
    BY SameGraphFacts
  <1>7. \A h : \A i \in 1 .. n : SameGraph(g, h) => SameGraph(g, next(h, i))
    <2> SUFFICES ASSUME NEW h, NEW i \in 1 .. n, SameGraph(g, h) PROVE SameGraph(g, next(h, i))
      OBVIOUS
    <2> DEFINE b == g.succ[cur][i]
    <2>1. b \in AllBlocks /\ IsFunction(h)
      BY <1>1 DEF SameGraph
    <2> HIDE DEF b
    <2>2. SameGraph(h, DropFromPhis(h, cur, b))
      BY <2>1, DropFromPhisFacts
    <2> QED BY <2>2, SameGraphFacts DEF b
  <1> HIDE DEF n, next, base, after
  <1>4. \E f : f = [i \in 0 .. n |-> IF i = 0 THEN base ELSE next(f[i - 1], i)]
    <2> DEFINE T == {k \in 0 .. n : \E f : f = [i \in 0 .. k |-> IF i = 0 THEN base ELSE next(f[i - 1], i)]}
    <2>1. 0 \in T
      <3> DEFINE f == [i \in 0 .. 0 |-> base]
      <3>1. f = [i \in 0 .. 0 |-> IF i = 0 THEN base ELSE next(f[i - 1], i)]
        OBVIOUS
      <3> HIDE DEF f
      <3>2. 0 \in 0 .. n /\ \E h : h = [i \in 0 .. 0 |-> IF i = 0 THEN base ELSE next(h[i - 1], i)]
        BY <1>1, <3>1
      <3> QED BY <3>2
    <2>2. ASSUME NEW k \in 1 .. n, k - 1 \in T PROVE k \in T
      <3>1. PICK f : f = [i \in 0 .. k - 1 |-> IF i = 0 THEN base ELSE next(f[i - 1], i)]
        BY <2>2
      <3> DEFINE h == [i \in 0 .. k |-> IF i = k THEN next(f[k - 1], k) ELSE f[i]]
      <3>2. /\ h[k] = next(f[k - 1], k) /\ k # 0 /\ h[k - 1] = f[k - 1]
            /\ \A i \in 0 .. k : i # k => h[i] = f[i] /\ (i # 0 => h[i - 1] = f[i - 1])
            /\ \A i \in 0 .. k : i # k => i \in 0 .. k - 1
        OBVIOUS
      <3>3. ASSUME NEW i \in 0 .. k
            PROVE  h[i] = IF i = 0 THEN base ELSE next(h[i - 1], i)
        <4> HIDE DEF h
        <4>1. CASE i = k
          BY <3>2, <4>1
        <4>2. CASE i # k
          <5>1. f[i] = IF i = 0 THEN base ELSE next(f[i - 1], i)
            BY <3>1, <3>2, <4>2
          <5> QED BY <3>2, <4>2, <5>1
        <4> QED BY <4>1, <4>2
      <3>4. h = [i \in 0 .. k |-> h[i]] /\ k \in 0 .. n
        OBVIOUS
      <3> HIDE DEF h
      <3>5. h = [i \in 0 .. k |-> IF i = 0 THEN base ELSE next(h[i - 1], i)]
        BY <3>3, <3>4
      <3> QED BY <3>4, <3>5
    <2> HIDE DEF T
    <2>3. n \in T
      <3>1. 0 .. n \subseteq T
        BY <1>1, <2>1, <2>2, UpTo
      <3> QED BY <1>1, <3>1
    <2> QED BY <2>3 DEF T
  <1>5. after = [i \in 0 .. n |-> IF i = 0 THEN base ELSE next(after[i - 1], i)]
    BY <1>4 DEF after
  <1> DEFINE T == {k \in 0 .. n : SameGraph(g, after[k])}
  <1>6. 0 \in T
    <2>1. after[0] = base /\ 0 \in 0 .. n
      BY <1>1, <1>5
    <2> QED BY <1>3, <2>1
  <1>8. ASSUME NEW k \in 1 .. n, k - 1 \in T PROVE k \in T
    <2>1. after[k] = next(after[k - 1], k) /\ k \in 0 .. n
      BY <1>1, <1>5
    <2> QED BY <1>7, <1>8, <2>1
  <1> HIDE DEF T
  <1>9. n \in T
    <2>1. 0 .. n \subseteq T
      BY <1>1, <1>6, <1>8, UpTo
    <2> QED BY <1>1, <2>1
  <1>10. SameGraph(g, after[n])
    BY <1>9 DEF T
  <1> QED BY <1>2, <1>10

(* A branch on a constant becomes the branch to one of its targets. *)
LEMMA StraightenFacts ==
  ASSUME NEW g, Wired(g), NEW b \in ToSet(g.blocks), OnConstant(g, b)
  PROVE  Wired(Straighten(g, b)) /\ Straighten(g, b).blocks = g.blocks
  <1> DEFINE to == g.term[b].to
             one == to[1]
             two == to[2]
             target == to[IF IsTrue(g.term[b].val) THEN 1 ELSE 2]
             g1 == RemoveEdge(g, b, one)
             g2 == RemoveEdge(g1, b, two)
             t == Br(target)
  <1> SUFFICES ASSUME NEW h, h = Terminate(g2, b, t)
               PROVE  Wired(h) /\ h.blocks = g.blocks
    BY DEF Straighten
  <1>1. IsFunction(g) /\ b \in AllBlocks /\ ToSet(g.blocks) \subseteq AllBlocks
    BY BlocksOf DEF Wired
  <1>2. to \in Seq(AllBlocks) /\ Len(to) = 2 /\ ToSet(to) \subseteq ToSet(g.blocks)
    BY <1>1 DEF Wired, IsFunction, IsTerminator, OnConstant
  <1>3. ToSet(to) = {one, two} /\ target \in {one, two} /\ {one, two} \subseteq AllBlocks
    <2>1. DOMAIN to = {1, 2} /\ to[1] \in AllBlocks /\ to[2] \in AllBlocks
      BY <1>2
    <2> QED BY <2>1 DEF ToSet
  <1> HIDE DEF to, one, two, target
  <1>4. EdgeGone(g1, g, b, one)
    BY <1>1, <1>3, RemoveEdgeFacts
  <1> HIDE DEF g1
  <1>5. EdgeGone(g2, g1, b, two)
    <2>1. IsFunction(g1)
      BY <1>4 DEF EdgeGone, SameBlocks
    <2> QED BY <1>1, <1>3, <2>1, RemoveEdgeFacts
  <1> HIDE DEF g2
  <1>6. IsTerminator(t) /\ t.op # "none" /\ ToSet(t.to) = {target}
    BY <1>3, Terminators DEF Ends
  <1> HIDE DEF t
  <1>7. EndsIn(h, g2, b, t)
    <2>1. IsFunction(g2)
      BY <1>5 DEF EdgeGone, SameBlocks
    <2> QED BY <1>1, <1>6, <2>1, TerminateGraph
  <1>8. /\ IsFunction(h) /\ h.blocks = g.blocks
        /\ \A c \in AllBlocks : h.term[c] = IF c = b THEN t ELSE g.term[c]
    BY <1>4, <1>5, <1>7 DEF EndsIn, EdgeGone, SameBlocks
  <1>9. \A c \in AllBlocks :
        /\ ToSet(h.succ[c]) = IF c = b THEN ((ToSet(g.succ[c]) \ {one}) \ {two}) \cup {target}
                              ELSE ToSet(g.succ[c])
        /\ \A p : p \in ToSet(h.pred[c]) <=>
                  \/ p \in ToSet(g.pred[c]) /\ ~(c \in {one, two} /\ p = b)
                  \/ c = target /\ p = b
    <2> TAKE c \in AllBlocks
    <2>1. /\ ToSet(g1.succ[c]) = IF c = b THEN ToSet(g.succ[c]) \ {one} ELSE ToSet(g.succ[c])
          /\ ToSet(g1.pred[c]) = IF c = one THEN ToSet(g.pred[c]) \ {b} ELSE ToSet(g.pred[c])
      BY <1>4 DEF EdgeGone
    <2>2. /\ ToSet(g2.succ[c]) = IF c = b THEN ToSet(g1.succ[c]) \ {two} ELSE ToSet(g1.succ[c])
          /\ ToSet(g2.pred[c]) = IF c = two THEN ToSet(g1.pred[c]) \ {b} ELSE ToSet(g1.pred[c])
      BY <1>5 DEF EdgeGone
    <2>3. /\ ToSet(h.succ[c]) = IF c = b THEN ToSet(g2.succ[c]) \cup {target} ELSE ToSet(g2.succ[c])
          /\ ToSet(h.pred[c]) = IF c = target THEN ToSet(g2.pred[c]) \cup {b} ELSE ToSet(g2.pred[c])
      BY <1>6, <1>7 DEF EndsIn
    <2>4. ToSet(h.succ[c]) = IF c = b THEN ((ToSet(g.succ[c]) \ {one}) \ {two}) \cup {target}
                             ELSE ToSet(g.succ[c])
      BY <2>1, <2>2, <2>3
    <2>5. \A p : p \in ToSet(g2.pred[c]) <=>
                    p \in ToSet(g.pred[c]) /\ ~(c \in {one, two} /\ p = b)
      BY <2>1, <2>2
    <2> QED BY <2>3, <2>4, <2>5
  <1>10. \A c \in ToSet(g.blocks) :
        /\ g.term[c].op # "none"
        /\ ToSet(g.term[c].to) \subseteq ToSet(g.blocks)
        /\ ToSet(g.succ[c]) = ToSet(g.term[c].to)
        /\ ToSet(g.pred[c]) = {p \in ToSet(g.blocks) : c \in ToSet(g.term[p].to)}
    BY DEF Wired
  <1>11. ToSet(g.term[b].to) = {one, two}
    BY <1>3 DEF to
  <1>12. ASSUME NEW c \in ToSet(h.blocks)
         PROVE  /\ h.term[c].op # "none"
                /\ ToSet(h.term[c].to) \subseteq ToSet(h.blocks)
                /\ ToSet(h.succ[c]) = ToSet(h.term[c].to)
                /\ ToSet(h.pred[c]) = {p \in ToSet(h.blocks) : c \in ToSet(h.term[p].to)}
    <2>1. c \in AllBlocks /\ c \in ToSet(g.blocks)
      BY <1>1, <1>8
    <2>2. ToSet(h.term[c].to) \subseteq ToSet(h.blocks) /\ h.term[c].op # "none"
      BY <1>3, <1>6, <1>8, <1>10, <1>11, <2>1
    <2>3. ToSet(h.succ[c]) = ToSet(h.term[c].to)
      <3>1. CASE c = b
        <4>1. ToSet(g.succ[b]) = {one, two}
          BY <1>10, <1>11
        <4> QED BY <1>6, <1>8, <1>9, <2>1, <3>1, <4>1
      <3>2. CASE c # b
        BY <1>8, <1>9, <1>10, <2>1, <3>2
      <3> QED BY <3>1, <3>2
    <2>4. ToSet(h.pred[c]) = {p \in ToSet(h.blocks) : c \in ToSet(h.term[p].to)}
      <3>1. ASSUME NEW p \in ToSet(g.blocks)
            PROVE  p \in ToSet(h.pred[c]) <=> c \in ToSet(h.term[p].to)
        <4>1. p \in AllBlocks /\ (p \in ToSet(g.pred[c]) <=> c \in ToSet(g.term[p].to))
          BY <1>1, <1>10, <2>1
        <4>2. CASE p = b
          <5>1. ToSet(h.term[p].to) = {target}
            BY <1>6, <1>8, <4>1, <4>2
          <5>2. c \in ToSet(g.term[p].to) <=> c \in {one, two}
            BY <1>11, <4>2
          <5> QED BY <1>3, <1>9, <2>1, <4>1, <4>2, <5>1, <5>2
        <4>3. CASE p # b
          <5>1. h.term[p] = g.term[p]
            BY <1>8, <4>1, <4>3
          <5>2. p \in ToSet(h.pred[c]) <=> p \in ToSet(g.pred[c])
            BY <1>9, <2>1, <4>3
          <5> QED BY <4>1, <5>1, <5>2
        <4> QED BY <4>2, <4>3
      <3>2. ToSet(h.pred[c]) \subseteq ToSet(g.blocks)
        <4>1. ToSet(g.pred[c]) \subseteq ToSet(g.blocks)
          BY <1>10, <2>1
        <4>2. \A p : p \in ToSet(h.pred[c]) => p \in ToSet(g.pred[c]) \/ p = b
          BY <1>9, <2>1
        <4> QED BY <4>1, <4>2
      <3> QED BY <1>8, <3>1, <3>2
    <2> QED BY <2>2, <2>3, <2>4
  <1>13. \A c \in AllBlocks : h.term[c].op = "none" => ToSet(h.succ[c]) = {} /\ ToSet(h.pred[c]) = {}
    <2> SUFFICES ASSUME NEW c \in AllBlocks, h.term[c].op = "none"
                 PROVE  ToSet(h.succ[c]) = {} /\ ToSet(h.pred[c]) = {}
      OBVIOUS
    <2>1. c # b /\ g.term[c].op = "none"
      BY <1>6, <1>8
    <2>2. c # target
      BY <1>2, <1>3, <1>10, <2>1
    <2>3. ToSet(g.succ[c]) = {} /\ ToSet(g.pred[c]) = {}
      BY <2>1 DEF Wired
    <2> QED BY <1>9, <2>1, <2>2, <2>3
  <1>14. IsInjective(h.blocks) /\ Entry \in ToSet(h.blocks)
    BY <1>8 DEF Wired
  <1> QED BY <1>8, <1>12, <1>13, <1>14 DEF Wired

LEMMA StraightenedFacts ==
  ASSUME Wired(ir)
  PROVE  Wired(Straightened) /\ Straightened.blocks = ir.blocks
  <1> DEFINE n == Len(ir.blocks)
             base == ir
             next(g, i) == IF OnConstant(g, ir.blocks[i]) THEN Straighten(g, ir.blocks[i]) ELSE g
             after == CHOOSE f : f = [i \in 0 .. n |-> IF i = 0 THEN base ELSE next(f[i - 1], i)]
             Fine(g) == Wired(g) /\ g.blocks = ir.blocks
  <1>1. n \in Nat
    BY DEF Wired, IsFunction
  <1>2. Straightened = after[n]
    BY DEF Straightened
  <1>3. Fine(base)
    OBVIOUS
  <1>7. \A g : \A i \in 1 .. n : Fine(g) => Fine(next(g, i))
    <2>1. \A i \in 1 .. n : ir.blocks[i] \in ToSet(ir.blocks)
      <3>1. ir.blocks \in Seq(AllBlocks)
        BY DEF Wired, IsFunction
      <3>2. DOMAIN ir.blocks = 1 .. n
        BY <3>1
      <3> QED BY <3>2 DEF ToSet
    <2> SUFFICES ASSUME NEW g, NEW i \in 1 .. n, Wired(g), g.blocks = ir.blocks
                 PROVE  Fine(next(g, i))
      OBVIOUS
    <2> DEFINE b == ir.blocks[i]
    <2>2. b \in ToSet(g.blocks)
      BY <2>1
    <2> HIDE DEF b, n
    <2>3. OnConstant(g, b) => Wired(Straighten(g, b)) /\ Straighten(g, b).blocks = g.blocks
      BY <2>2, StraightenFacts
    <2> QED BY <2>3 DEF b
  <1> HIDE DEF n, next, base, after, Fine
  <1>4. \E f : f = [i \in 0 .. n |-> IF i = 0 THEN base ELSE next(f[i - 1], i)]
    <2> DEFINE T == {k \in 0 .. n : \E f : f = [i \in 0 .. k |-> IF i = 0 THEN base ELSE next(f[i - 1], i)]}
    <2>1. 0 \in T
      <3> DEFINE f == [i \in 0 .. 0 |-> base]
      <3>1. f = [i \in 0 .. 0 |-> IF i = 0 THEN base ELSE next(f[i - 1], i)]
        OBVIOUS
      <3> HIDE DEF f
      <3>2. 0 \in 0 .. n /\ \E h : h = [i \in 0 .. 0 |-> IF i = 0 THEN base ELSE next(h[i - 1], i)]
        BY <1>1, <3>1
      <3> QED BY <3>2
    <2>2. ASSUME NEW k \in 1 .. n, k - 1 \in T PROVE k \in T
      <3>1. PICK f : f = [i \in 0 .. k - 1 |-> IF i = 0 THEN base ELSE next(f[i - 1], i)]
        BY <2>2
      <3> DEFINE h == [i \in 0 .. k |-> IF i = k THEN next(f[k - 1], k) ELSE f[i]]
      <3>2. /\ h[k] = next(f[k - 1], k) /\ k # 0 /\ h[k - 1] = f[k - 1]
            /\ \A i \in 0 .. k : i # k => h[i] = f[i] /\ (i # 0 => h[i - 1] = f[i - 1])
            /\ \A i \in 0 .. k : i # k => i \in 0 .. k - 1
        OBVIOUS
      <3>3. ASSUME NEW i \in 0 .. k
            PROVE  h[i] = IF i = 0 THEN base ELSE next(h[i - 1], i)
        <4> HIDE DEF h
        <4>1. CASE i = k
          BY <3>2, <4>1
        <4>2. CASE i # k
          <5>1. f[i] = IF i = 0 THEN base ELSE next(f[i - 1], i)
            BY <3>1, <3>2, <4>2
          <5> QED BY <3>2, <4>2, <5>1
        <4> QED BY <4>1, <4>2
      <3>4. h = [i \in 0 .. k |-> h[i]] /\ k \in 0 .. n
        OBVIOUS
      <3> HIDE DEF h
      <3>5. h = [i \in 0 .. k |-> IF i = 0 THEN base ELSE next(h[i - 1], i)]
        BY <3>3, <3>4
      <3> QED BY <3>4, <3>5
    <2> HIDE DEF T
    <2>3. n \in T
      <3>1. 0 .. n \subseteq T
        BY <1>1, <2>1, <2>2, UpTo
      <3> QED BY <1>1, <3>1
    <2> QED BY <2>3 DEF T
  <1>5. after = [i \in 0 .. n |-> IF i = 0 THEN base ELSE next(after[i - 1], i)]
    BY <1>4 DEF after
  <1> DEFINE T == {k \in 0 .. n : Fine(after[k])}
  <1>6. 0 \in T
    <2>1. after[0] = base /\ 0 \in 0 .. n
      BY <1>1, <1>5
    <2> QED BY <1>3, <2>1
  <1>8. ASSUME NEW k \in 1 .. n, k - 1 \in T PROVE k \in T
    <2>1. after[k] = next(after[k - 1], k) /\ k \in 0 .. n
      BY <1>1, <1>5
    <2> QED BY <1>7, <1>8, <2>1
  <1> HIDE DEF T
  <1>9. n \in T
    <2>1. 0 .. n \subseteq T
      BY <1>1, <1>6, <1>8, UpTo
    <2> QED BY <1>1, <2>1
  <1>10. Fine(after[n])
    BY <1>9 DEF T
  <1> QED BY <1>2, <1>10 DEF Fine


(* Between the steps the edges are those of the branches; what waits to be   *)
(* looked at is a block of the function or has been removed.                *)
ConstInv ==
    /\ cp = [phase |-> cp.phase, left |-> cp.left, worklist |-> cp.worklist, removed |-> cp.removed]
    /\ cp.left \in Seq(AllBlocks) /\ cp.worklist \in Seq(AllBlocks)
    /\ Wired(ir)
    /\ IF cp.phase = "blocks" THEN ToSet(cp.worklist) \subseteq Blocks \cup cp.removed
                              ELSE cp.removed = {}

LEMMA ConstBegins ==
  ASSUME Wired(ir), ir' = ir, cp' = ConstPropStart
  PROVE  ConstInv'
  <1>1. ir.blocks \in Seq(AllBlocks) /\ <<>> \in Seq(AllBlocks)
    BY DEF Wired, IsFunction
  <1>2. /\ cp' = [phase |-> "fold", left |-> ir.blocks, worklist |-> <<>>, removed |-> {}]
        /\ cp'.phase = "fold" /\ cp'.left = ir.blocks /\ cp'.worklist = <<>> /\ cp'.removed = {}
    BY DEF ConstPropStart
  <1>3. Wired(ir')
    OBVIOUS
  <1> QED BY <1>1, <1>2, <1>3 DEF ConstInv

LEMMA FoldKeeps ==
  ASSUME ConstInv, FoldBlock
  PROVE  ConstInv'
  <1> DEFINE b == Head(cp.left)
             h == Folded(b).g
  <1>1. /\ cp.phase = "fold" /\ cp.left # <<>> /\ ir' = h
        /\ cp' = [cp EXCEPT !.left = Tail(cp.left)]
    BY DEF FoldBlock
  <1>2. b \in AllBlocks /\ Tail(cp.left) \in Seq(AllBlocks)
    BY <1>1, Queue DEF ConstInv
  <1> HIDE DEF b
  <1>3. Wired(ir) /\ SameGraph(ir, h)
    BY <1>2, FoldedFacts DEF ConstInv, Wired
  <1>4. Wired(ir')
    BY <1>1, <1>3, WiredSame
  <1>5. /\ cp' = [phase |-> cp'.phase, left |-> cp'.left, worklist |-> cp'.worklist, removed |-> cp'.removed]
        /\ cp'.phase = cp.phase /\ cp'.left = Tail(cp.left) /\ cp'.worklist = cp.worklist
        /\ cp'.removed = cp.removed
    BY <1>1 DEF ConstInv
  <1> QED BY <1>1, <1>2, <1>4, <1>5 DEF ConstInv

LEMMA BranchesKeep ==
  ASSUME ConstInv, SimplifyBranches
  PROVE  ConstInv'
  <1> DEFINE S == {DeadTarget(b) : b \in {c \in Blocks : OnConstant(ir, c)}}
  <1>1. PICK order \in SetToSeqs(S) :
            cp' = [cp EXCEPT !.phase = "blocks", !.worklist = order]
    BY DEF SimplifyBranches
  <1>2. ir' = Straightened
    BY DEF SimplifyBranches
  <1>3. Wired(ir') /\ Blocks' = Blocks
    BY <1>2, StraightenedFacts DEF ConstInv, Blocks
  <1>4. S \subseteq Blocks /\ Blocks \subseteq AllBlocks /\ IsFiniteSet(Blocks)
    <2>1. Blocks \subseteq AllBlocks /\ IsFiniteSet(Blocks)
      BY BlocksOf DEF ConstInv, Wired, Blocks
    <2>2. ASSUME NEW b \in Blocks, OnConstant(ir, b) PROVE DeadTarget(b) \in Blocks
      <3> DEFINE to == ir.term[b].to
      <3>1. to \in Seq(AllBlocks) /\ Len(to) = 2 /\ ToSet(to) \subseteq Blocks
        BY <2>1, <2>2 DEF ConstInv, Wired, IsFunction, IsTerminator, OnConstant, Blocks
      <3> HIDE DEF to
      <3>2. to[1] \in Blocks /\ to[2] \in Blocks
        <4>1. DOMAIN to = {1, 2}
          BY <3>1
        <4> QED BY <3>1, <4>1 DEF ToSet
      <3> QED BY <3>2 DEF DeadTarget, to
    <2> QED BY <2>1, <2>2
  <1> HIDE DEF S
  <1>5. order \in Seq(AllBlocks) /\ ToSet(order) \subseteq S
    <2>1. Cardinality(S) \in Nat
      BY <1>4, FS_Subset, FS_CardinalityType
    <2>2. order \in [1 .. Cardinality(S) -> S]
      BY DEF SetToSeqs
    <2>3. order \in Seq(S)
      <3> DEFINE n == Cardinality(S)
      <3>1. n \in Nat /\ order \in [1 .. n -> S]
        BY <2>1, <2>2
      <3> HIDE DEF n
      <3> QED BY <3>1
    <2>4. ToSet(order) \subseteq S
      BY <2>3 DEF ToSet
    <2> QED BY <1>4, <2>3, <2>4
  <1>6. /\ cp' = [phase |-> cp'.phase, left |-> cp'.left, worklist |-> cp'.worklist, removed |-> cp'.removed]
        /\ cp'.phase = "blocks" /\ cp'.left = cp.left /\ cp'.worklist = order /\ cp'.removed = cp.removed
    BY <1>1 DEF ConstInv
  <1> QED BY <1>3, <1>4, <1>5, <1>6 DEF ConstInv

LEMMA RemoveDeadKeeps ==
  ASSUME ConstInv, RemoveDead
  PROVE  ConstInv'
  <1> DEFINE cur == Head(cp.worklist)
             g == DropFromSuccessors(ir, cur)
  <1>1. cp.phase = "blocks" /\ cp.worklist # <<>>
    BY DEF RemoveDead
  <1>2. /\ cur \in AllBlocks /\ Tail(cp.worklist) \in Seq(AllBlocks)
        /\ ToSet(cp.worklist) = {cur} \cup ToSet(Tail(cp.worklist))
    BY <1>1, Queue DEF ConstInv
  <1>3. \/ cp' = [cp EXCEPT !.worklist = Tail(cp.worklist)] /\ ir' = ir
        \/ /\ cur # Entry /\ ir.pred[cur] = <<>> /\ cur \notin cp.removed
           /\ ir' = RemoveBlock(g, cur)
           /\ cp' = [cp EXCEPT !.worklist = Tail(cp.worklist) \o ir.succ[cur],
                               !.removed = cp.removed \cup {cur}]
    BY DEF RemoveDead
  <1> HIDE DEF cur
  <1>4. CASE cp' = [cp EXCEPT !.worklist = Tail(cp.worklist)] /\ ir' = ir
    <2>1. /\ cp' = [phase |-> cp'.phase, left |-> cp'.left, worklist |-> cp'.worklist, removed |-> cp'.removed]
          /\ cp'.phase = cp.phase /\ cp'.left = cp.left /\ cp'.worklist = Tail(cp.worklist)
          /\ cp'.removed = cp.removed /\ Blocks' = Blocks
      BY <1>4 DEF ConstInv, Blocks
    <2> QED BY <1>1, <1>2, <1>4, <2>1 DEF ConstInv
  <1>5. CASE /\ cur # Entry /\ ir.pred[cur] = <<>> /\ cur \notin cp.removed
             /\ ir' = RemoveBlock(g, cur)
             /\ cp' = [cp EXCEPT !.worklist = Tail(cp.worklist) \o ir.succ[cur],
                                 !.removed = cp.removed \cup {cur}]
    <2>1. Wired(ir) /\ IsFunction(ir) /\ Blocks \subseteq AllBlocks
      BY BlocksOf DEF ConstInv, Wired, Blocks
    <2>2. SameGraph(ir, g)
      BY <1>2, <2>1, DropFromSuccessorsFacts
    <2> HIDE DEF g
    <2>3. BlockGone(ir', g, cur)
      <3>1. IsFunction(g)
        BY <2>2 DEF SameGraph
      <3> QED BY <1>2, <1>5, <3>1, RemoveBlockFacts
    <2>4. /\ IsFunction(ir') /\ IsInjective(ir'.blocks) /\ Blocks' = Blocks \ {cur}
          /\ \A b \in AllBlocks : ir'.term[b].op = ir.term[b].op /\ ir'.term[b].to = ir.term[b].to
      BY <2>1, <2>2, <2>3 DEF BlockGone, SameGraph, Wired, Blocks
    <2>5. cur \in Blocks /\ ToSet(ir.pred[cur]) = {}
      <3>1. cur \in Blocks
        BY <1>1, <1>2, <1>5 DEF ConstInv
      <3> QED BY <1>5, <3>1 DEF ToSet
    <2>6. \A c \in AllBlocks :
        /\ ToSet(ir'.succ[c]) = ToSet(ir.succ[c])
        /\ ToSet(ir'.pred[c]) = IF c \in ToSet(ir.succ[cur]) THEN ToSet(ir.pred[c]) \ {cur} ELSE ToSet(ir.pred[c])
      BY <2>2, <2>3, <2>5 DEF BlockGone, SameGraph
    <2>7. \A b \in Blocks :
        /\ ir.term[b].op # "none"
        /\ ToSet(ir.term[b].to) \subseteq Blocks
        /\ ToSet(ir.succ[b]) = ToSet(ir.term[b].to)
        /\ ToSet(ir.pred[b]) = {p \in Blocks : b \in ToSet(ir.term[p].to)}
      BY <2>1 DEF Wired, Blocks
    <2>8. \A b \in Blocks : cur \notin ToSet(ir.term[b].to)
      BY <2>5, <2>7
    <2>9. ASSUME NEW b \in Blocks'
          PROVE  /\ ir'.term[b].op # "none"
                 /\ ToSet(ir'.term[b].to) \subseteq Blocks'
                 /\ ToSet(ir'.succ[b]) = ToSet(ir'.term[b].to)
                 /\ ToSet(ir'.pred[b]) = {p \in Blocks' : b \in ToSet(ir'.term[p].to)}
      <3>1. b \in Blocks /\ b # cur /\ b \in AllBlocks
        BY <2>1, <2>4
      <3>2. ToSet(ir'.pred[b]) = {p \in Blocks \ {cur} : b \in ToSet(ir.term[p].to)}
        <4>1. b \in ToSet(ir.succ[cur]) <=> b \in ToSet(ir.term[cur].to)
          BY <2>5, <2>7
        <4>2. ToSet(ir.pred[b]) = {p \in Blocks : b \in ToSet(ir.term[p].to)}
          BY <2>7, <3>1
        <4> QED BY <2>6, <3>1, <4>1, <4>2
      <3>3. {p \in Blocks \ {cur} : b \in ToSet(ir.term[p].to)}
                = {p \in Blocks' : b \in ToSet(ir'.term[p].to)}
        BY <2>1, <2>4
      <3>4. ir'.term[b].op = ir.term[b].op /\ ir'.term[b].to = ir.term[b].to
        BY <2>4, <3>1
      <3>5. ToSet(ir'.succ[b]) = ToSet(ir.term[b].to)
        BY <2>6, <2>7, <3>1
      <3>6. ToSet(ir.term[b].to) \subseteq Blocks'
        BY <2>4, <2>7, <2>8, <3>1
      <3>7. ir.term[b].op # "none"
        BY <2>7, <3>1
      <3> QED BY <3>2, <3>3, <3>4, <3>5, <3>6, <3>7
    <2>10. \A b \in AllBlocks : ir'.term[b].op = "none" => ToSet(ir'.succ[b]) = {} /\ ToSet(ir'.pred[b]) = {}
      BY <2>1, <2>4, <2>6 DEF Wired
    <2>11. Entry \in Blocks'
      BY <1>5, <2>1, <2>4 DEF Wired, Blocks
    <2>12. Wired(ir')
      BY <2>4, <2>9, <2>10, <2>11 DEF Wired, Blocks
    <2> DEFINE rest == Tail(cp.worklist)
               to == ir.succ[cur]
    <2>13. rest \in Seq(AllBlocks) /\ to \in Seq(AllBlocks) /\ ToSet(to) \subseteq Blocks
      BY <1>2, <2>1, <2>5, <2>7 DEF IsFunction
    <2>14. /\ cp' = [phase |-> cp'.phase, left |-> cp'.left, worklist |-> cp'.worklist, removed |-> cp'.removed]
           /\ cp'.phase = cp.phase /\ cp'.left = cp.left /\ cp'.worklist = rest \o to
           /\ cp'.removed = cp.removed \cup {cur}
      BY <1>5 DEF ConstInv
    <2>15. ToSet(rest) \subseteq Blocks \cup cp.removed
      BY <1>1, <1>2 DEF ConstInv
    <2> HIDE DEF rest, to
    <2>16. rest \o to \in Seq(AllBlocks) /\ ToSet(rest \o to) = ToSet(rest) \cup ToSet(to)
      BY <2>13, SetOfSeq
    <2>17. ToSet(cp'.worklist) \subseteq Blocks' \cup cp'.removed
      BY <2>4, <2>13, <2>14, <2>15, <2>16
    <2> QED BY <1>1, <2>12, <2>14, <2>16, <2>17 DEF ConstInv
  <1> QED BY <1>3, <1>4, <1>5

LEMMA ConstPropKeeps ==
  ASSUME ConstInv, ConstPropStep
  PROVE  ConstInv'
  <1>1. CASE FoldTraps
    <2>1. cp.phase = "fold" /\ ir' = ir /\ cp' = [cp EXCEPT !.phase = "trap"]
      BY <1>1 DEF FoldTraps
    <2>2. /\ cp' = [phase |-> cp'.phase, left |-> cp'.left, worklist |-> cp'.worklist, removed |-> cp'.removed]
          /\ cp'.phase = "trap" /\ cp'.left = cp.left /\ cp'.worklist = cp.worklist
          /\ cp'.removed = cp.removed
      BY <2>1 DEF ConstInv
    <2> QED BY <2>1, <2>2 DEF ConstInv
  <1> QED BY <1>1, FoldKeeps, BranchesKeep, RemoveDeadKeeps DEF ConstPropStep

-----------------------------------------------------------------------------
(* The pipeline. *)

(* What holds of the pass in progress, and of the function between passes. *)
PassInv ==
    /\ IF Passing("elim") THEN ElimInv ELSE Wired(ir)
    /\ Passing("mem2reg") => M2rInv
    /\ Passing("const") => ConstInv
    /\ Passing("hoist") => HoistInv

CompileInv ==
    /\ IsList(pipeline)
    /\ IF Building THEN BuilderInv /\ elim = Idle
       ELSE built /\ PassInv /\ (Passing("elim") \/ elim = Idle)

LEMMA StageWired ==
  ASSUME CompileInv, StageDone
  PROVE  Wired(ir)
  <1>1. CASE Building
    <2>1. built /\ BuilderInv
      BY <1>1 DEF CompileInv, StageDone, Passing
    <2> QED BY <2>1, BuiltWired
  <1>2. CASE Passing("elim")
    <2>1. ElimDone /\ ElimInv
      BY <1>2 DEF CompileInv, PassInv, StageDone, Passing
    <2> QED BY <2>1, ElimEnds
  <1>3. CASE ~Building /\ ~Passing("elim")
    BY <1>3 DEF CompileInv, PassInv, ConstInv
  <1> QED BY <1>1, <1>2, <1>3 DEF Passing

LEMMA NextStageList ==
  ASSUME IsList(pipeline), NextStage
  PROVE  IsList(pipeline)' /\ ~Building'
  <1>1. PICK p : pipeline' = SubSeq(p, 1, Len(pipeline) + 1)
    BY DEF NextStage
  <1> DEFINE n == Len(pipeline) + 1
  <1>2. n \in Nat /\ n >= 1
    BY DEF IsList
  <1>3. pipeline' = [i \in 1 .. n |-> p[i]]
    BY <1>1, <1>2
  <1>4. IsList(pipeline')
    BY <1>2, <1>3, ListOf
  <1>5. 1 \in DOMAIN pipeline'
    BY <1>2, <1>3
  <1>6. DOMAIN <<>> = {}
    OBVIOUS
  <1>7. pipeline' # <<>>
    BY <1>5, <1>6
  <1> QED BY <1>4, <1>7 DEF Building, Idle

(* Every pass begins with what the passes before it leave. *)
LEMMA NextStageKeeps ==
  ASSUME CompileInv, NextStage
  PROVE  CompileInv'
  <1>1. /\ Wired(ir) /\ ir' = ir /\ IsList(pipeline)
        /\ elim' = IF Starts("elim") THEN ElimStart ELSE Idle
        /\ Starts("mem2reg") => m2r' = Mem2RegStart
        /\ Starts("const") => cp' = ConstPropStart
        /\ Starts("hoist") => hoist' = HoistStart
    BY StageWired DEF NextStage, CompileInv
  <1>2. Wired(ir')
    BY <1>1
  <1>3. built'
    <2>1. built' = built /\ StageDone
      BY DEF NextStage, builderVars
    <2>2. CASE Building
      BY <2>1, <2>2 DEF StageDone, Passing
    <2>3. CASE ~Building
      BY <2>1, <2>3 DEF CompileInv
    <2> QED BY <2>2, <2>3
  <1>4. IsList(pipeline)' /\ ~Building'
    BY <1>1, NextStageList
  <1>5. \A p : Passing(p)' <=> Starts(p)
    BY <1>4 DEF Passing, Starts
  <1>6. /\ Passing("elim")' => ElimInv'
        /\ Passing("mem2reg")' => M2rInv'
        /\ Passing("const")' => ConstInv'
        /\ Passing("hoist")' => HoistInv'
    <2>1. IsFunction(ir)
      BY <1>1 DEF Wired
    <2> QED BY <1>1, <1>5, <2>1, ElimBegins, M2rBegins, ConstBegins, HoistBegins
  <1>7. PassInv'
    BY <1>2, <1>6 DEF PassInv
  <1>8. (Passing("elim") \/ elim = Idle)'
    BY <1>1, <1>5
  <1> QED BY <1>3, <1>4, <1>7, <1>8 DEF CompileInv


(* A step of GlobalValueNumbering replaces one value at most. *)
LEMMA GvnKeeps ==
  ASSUME IsFunction(ir), GvnStep
  PROVE  SameGraph(ir, ir')
  <1>1. ir' = ir \/ \E old, new : ir' = ReplaceAllUses(ir, old, new)
    BY DEF GvnStep, GvnRequest, AnalyzeEntry, AnalyzeChild, AnalyzeReturn, ReplaceValue
  <1> QED BY <1>1, ReplaceFacts, SameGraphFacts

LEMMA PassKeeps ==
  ASSUME CompileInv, PassStep
  PROVE  CompileInv'
  <1>1. /\ ~Building /\ IsList(pipeline) /\ built /\ PassInv /\ (Passing("elim") \/ elim = Idle)
        /\ pipeline' = pipeline /\ built' = built
    BY DEF CompileInv, PassStep, Passing, builderVars
  <1>2. \A p : Passing(p)' <=> Passing(p)
    BY <1>1 DEF Passing, Building
  <1>3. Building' = Building
    BY <1>1 DEF Building
  <1>4. SUFFICES PassInv' /\ (Passing("elim")' \/ elim' = elim)
    BY <1>1, <1>2, <1>3, Zenon DEF CompileInv
  <1>5. CASE Passing("elim") /\ ElimStep
    <2>1. ElimInv' /\ Passing("elim")'
      BY <1>1, <1>2, <1>5, ElimKeeps DEF PassInv
    <2>2. ~Passing("mem2reg")' /\ ~Passing("const")' /\ ~Passing("hoist")'
      BY <2>1 DEF Passing
    <2> QED BY <2>1, <2>2 DEF PassInv
  <1>6. ASSUME ~Passing("elim"), elim' = elim, SameGraph(ir, ir')
        PROVE  Wired(ir)' /\ ~Passing("elim")'
    BY <1>1, <1>2, <1>6, WiredSame DEF PassInv
  <1>7. CASE Passing("mem2reg") /\ Mem2RegStep /\ elim' = elim
    <2>1. ~Passing("elim") /\ Wired(ir) /\ M2rInv
      BY <1>1, <1>7 DEF PassInv, Passing
    <2>2. M2rInv' /\ SameGraph(ir, ir')
      BY <1>7, <2>1, Mem2RegKeeps DEF Wired
    <2>3. ~Passing("const")' /\ ~Passing("hoist")'
      BY <1>2, <1>7 DEF Passing
    <2> QED BY <1>6, <1>7, <2>1, <2>2, <2>3 DEF PassInv
  <1>8. CASE Passing("const") /\ ConstPropStep /\ elim' = elim
    <2>1. ~Passing("elim")' /\ ConstInv
      BY <1>1, <1>2, <1>8 DEF PassInv, Passing
    <2>2. ConstInv'
      BY <1>8, <2>1, ConstPropKeeps
    <2>3. Wired(ir)'
      BY <2>2 DEF ConstInv
    <2>4. ~Passing("mem2reg")' /\ ~Passing("hoist")'
      BY <1>2, <1>8 DEF Passing
    <2> QED BY <1>8, <2>1, <2>2, <2>3, <2>4 DEF PassInv
  <1>9. CASE Passing("hoist") /\ HoistStep /\ elim' = elim
    <2>1. ~Passing("elim") /\ Wired(ir) /\ HoistInv
      BY <1>1, <1>9 DEF PassInv, Passing
    <2>2. HoistInv' /\ SameGraph(ir, ir')
      BY <1>9, <2>1, HoistKeeps DEF Wired
    <2>3. ~Passing("const")' /\ ~Passing("mem2reg")'
      BY <1>2, <1>9 DEF Passing
    <2> QED BY <1>6, <1>9, <2>1, <2>2, <2>3 DEF PassInv
  <1>10. CASE ((Passing("dead") /\ DeadCodeStep) \/ (Passing("gvn") /\ GvnStep)) /\ elim' = elim
    <2>1. ~Passing("elim") /\ Wired(ir)
      BY <1>1, <1>10 DEF PassInv, Passing
    <2>2. SameGraph(ir, ir')
      BY <1>10, <2>1, DeadCodeKeeps, GvnKeeps DEF Wired
    <2>3. ~Passing("const")' /\ ~Passing("mem2reg")' /\ ~Passing("hoist")'
      BY <1>2, <1>10 DEF Passing
    <2> QED BY <1>6, <1>10, <2>1, <2>2, <2>3 DEF PassInv
  <1>11. \/ Passing("elim") /\ ElimStep
         \/ Passing("mem2reg") /\ Mem2RegStep /\ elim' = elim
         \/ Passing("const") /\ ConstPropStep /\ elim' = elim
         \/ Passing("hoist") /\ HoistStep /\ elim' = elim
         \/ Passing("dead") /\ DeadCodeStep /\ elim' = elim
         \/ Passing("gvn") /\ GvnStep /\ elim' = elim
    BY DEF PassStep
  <1> QED BY <1>5, <1>7, <1>8, <1>9, <1>10, <1>11, Zenon

LEMMA CompileStepKeeps ==
  ASSUME CompileInv, [Next]_vars
  PROVE  CompileInv'
  <1>1. CASE BuildStep
    <2>1. Building /\ BuilderInv' /\ elim' = elim /\ pipeline' = pipeline
      BY <1>1, BuildKeeps DEF BuildStep, CompileInv
    <2> QED BY <2>1 DEF CompileInv, Building
  <1>2. CASE UNCHANGED <<ir, builderVars, elim, m2r, cp, dc, hoist, gvn, pipeline>>
    <2>1. BuilderInv => BuilderInv'
      BY <1>2 DEF BuilderInv, BlocksNumbered, PendingOpen, OthersTerminated, Inside, Innermost,
                  builderVars, IsTerminated
    <2>2. ElimInv' = ElimInv /\ M2rInv' = M2rInv /\ ConstInv' = ConstInv /\ HoistInv' = HoistInv
      BY <1>2 DEF ElimInv, M2rInv, ConstInv, HoistInv, Blocks
    <2>3. (\A p : Passing(p)' <=> Passing(p)) /\ Building' = Building
      BY <1>2 DEF Passing, Building
    <2>4. PassInv => PassInv'
      BY <1>2, <2>2, <2>3 DEF PassInv
    <2> QED BY <1>2, <2>1, <2>3, <2>4 DEF CompileInv, builderVars
  <1> QED BY <1>1, <1>2, NextStageKeeps, PassKeeps DEF Next, StartRun, RunBoth, Ended, vars

THEOREM CompileInvariance == Spec => []CompileInv
  <1>1. CompileInit => CompileInv
    <2> SUFFICES ASSUME CompileInit PROVE CompileInv
      OBVIOUS
    <2>1. BuilderInv /\ pipeline = <<>> /\ elim = Idle
      BY InitBuilderInv DEF CompileInit, Idle
    <2> QED BY <2>1, ShortLists DEF CompileInv, Building, Idle
  <1> QED BY <1>1, CompileStepKeeps, PTL DEF Spec

(* For every program and every pipeline, whenever UnreachableBlockElim is    *)
(* not at work, the edge lists of the blocks are those of the branches.      *)
THEOREM CompileEdges == Spec => []EdgesAgree
  <1>1. CompileInv => EdgesAgree
    <2> SUFFICES ASSUME CompileInv, ~Eliminating PROVE EdgesMatchBranches(ir)
      BY DEF EdgesAgree
    <2>1. CASE Building
      BY <2>1, BuilderEdges DEF CompileInv
    <2>2. CASE Passing("elim")
      <3>1. ElimInv
        BY <2>2 DEF CompileInv, PassInv, Passing
      <3>2. elim # <<>>
        <4>1. DOMAIN elim = {"worklist", "reached", "left"}
          BY <3>1 DEF ElimInv
        <4> QED BY <4>1
      <3>3. ElimDone
        BY <3>2 DEF Eliminating
      <3> QED BY <3>1, <3>3, ElimEnds, WiredEdges
    <2>3. CASE ~Building /\ ~Passing("elim")
      BY <2>3, WiredEdges DEF CompileInv, PassInv
    <2> QED BY <2>1, <2>2, <2>3
  <1> QED BY <1>1, CompileInvariance, PTL

(* When UnreachableBlockElim has ended the blocks are the reachable ones.    *)
THEOREM CompileReachable == Spec => []OnlyReachableKept
  <1>1. CompileInv => OnlyReachableKept
    <2> SUFFICES ASSUME CompileInv, elim # <<>>, ElimDone PROVE Blocks = ReachableIn(ir)
      BY DEF OnlyReachableKept
    <2>1. ElimInv
      BY DEF CompileInv, PassInv, Passing, Idle
    <2> QED BY <2>1, ElimEnds
  <1> QED BY <1>1, CompileInvariance, PTL

(* Once the function is built every block of it has a terminator, through    *)
(* all the passes.                                                          *)
THEOREM CompileTerminated == Spec => []AllTerminated
  <1>1. CompileInv => AllTerminated
    <2> SUFFICES ASSUME CompileInv, built PROVE \A b \in Blocks : IsTerminated(ir, b)
      BY DEF AllTerminated
    <2>1. CASE Building
      BY <2>1, BuilderEdges DEF CompileInv, AllTerminated
    <2>2. CASE ~Building
      <3>1. \A b \in Blocks : ir.term[b].op # "none"
        BY <2>2 DEF CompileInv, PassInv, ElimInv, EdgesWithin, Wired, Blocks
      <3> QED BY <3>1 DEF IsTerminated, NoTerm
    <2> QED BY <2>1, <2>2
  <1> QED BY <1>1, CompileInvariance, PTL

(* While the function is built no step writes behind a terminator.           *)
THEOREM CompileTerminators == Spec => NothingAfterTerminator
  <1>1. CompileInv /\ [Next]_vars =>
            [~built => \A b \in Blocks : IsTerminated(ir, b) =>
                ir'.term[b] = ir.term[b] /\ ir'.body[b] = ir.body[b] /\ ir'.succ[b] = ir.succ[b]]_<<ir, builderVars>>
    <2> SUFFICES ASSUME CompileInv, [Next]_vars, ~built, <<ir, builderVars>>' # <<ir, builderVars>>,
                        NEW b \in Blocks, IsTerminated(ir, b)
                 PROVE  ir'.term[b] = ir.term[b] /\ ir'.body[b] = ir.body[b] /\ ir'.succ[b] = ir.succ[b]
      OBVIOUS
    <2>1. Building /\ BuilderInv
      BY DEF CompileInv
    <2>2. BuildStep
      BY <2>1 DEF Next, NextStage, StageDone, PassStep, Passing, StartRun, RunBoth, Ended, Finished, vars
    <2>3. Keeps(ir, ir') /\ b \in AllBlocks
      BY <2>1, <2>2, BuildKeeps, BuilderFacts DEF BuildStep, Blocks
    <2> QED BY <2>3 DEF Keeps
  <1> QED BY <1>1, CompileInvariance, PTL DEF Spec, NothingAfterTerminator

-----------------------------------------------------------------------------
(* SimplifyPhi. *)

(* Phis are variables and incoming pairs; a block has one for a variable at  *)
(* most.                                                                    *)
IsPhi(phi) ==
    /\ {"var", "inc"} \subseteq DOMAIN phi
    /\ IsList(phi.inc)
    /\ \A k \in DOMAIN phi.inc : phi.inc[k] = [val |-> phi.inc[k].val, from |-> phi.inc[k].from]

HasPhis(g) ==
    \A b \in AllBlocks : \A i \in DOMAIN g.phis[b] :
        /\ IsPhi(g.phis[b][i])
        /\ \A j \in DOMAIN g.phis[b] : g.phis[b][i].var = g.phis[b][j].var => g.phis[b][i] = g.phis[b][j]

PhiIds == UNION {ToSet(PhisOf(b)) : b \in Blocks}

(* A phi that has not been replaced waits for its turn or is not trivial.    *)
SimplifyInv ==
    /\ simp = [phase |-> simp.phase, erase |-> simp.erase, worklist |-> simp.worklist]
    /\ IsFunction(ir) /\ HasPhis(ir)
    /\ IsList(simp.worklist)
    /\ \A id \in PhiIds :
        \/ FindReplacement(id) = {}
        \/ simp.phase = "simplify" /\ (id \in simp.erase \/ id \in ToSet(simp.worklist))

SimplifySpec ==
    IsFunction(ir) /\ HasPhis(ir) /\ simp = SimplifyStart /\ [][SimplifyStep]_<<ir, simp>>

LEMMA ChosenPhi ==
  ASSUME NEW phis, NEW i \in DOMAIN phis, NEW v, phis[i].var = v,
         \A j \in DOMAIN phis : phis[j].var = v => phis[j] = phis[i]
  PROVE  phis[CHOOSE k \in DOMAIN phis : phis[k].var = v] = phis[i]
  OBVIOUS

LEMMA PhiIdsAre ==
  /\ \A id : id \in PhiIds <=> \E b \in Blocks : \E i \in DOMAIN ir.phis[b] : id = PhiId(b, ir.phis[b][i].var)
  /\ \A b, v : PhiId(b, v)[2] = b /\ PhiId(b, v)[3] = v
  <1>1. \A b : ToSet(PhisOf(b)) = {PhiId(b, ir.phis[b][i].var) : i \in DOMAIN ir.phis[b]}
    BY DEF ToSet, PhisOf
  <1>2. \A b, v : PhiId(b, v)[2] = b /\ PhiId(b, v)[3] = v
    BY DEF PhiId
  <1> QED BY <1>1, <1>2 DEF PhiIds

(* The incoming values of a phi of b. *)
LEMMA ValuesOfPhi ==
  ASSUME HasPhis(ir), NEW b \in AllBlocks, NEW i \in DOMAIN ir.phis[b]
  PROVE  ValuesInto(PhiId(b, ir.phis[b][i].var))
            = {ir.phis[b][i].inc[k].val : k \in DOMAIN ir.phis[b][i].inc}
  <1> DEFINE id == PhiId(b, ir.phis[b][i].var)
             phis == ir.phis[b]
  <1>1. id[2] = b /\ id[3] = phis[i].var
    BY DEF PhiId
  <1>2. \A j \in DOMAIN phis : phis[j].var = phis[i].var => phis[j] = phis[i]
    BY DEF HasPhis
  <1>3. PhiOf(id) = phis[CHOOSE k \in DOMAIN phis : phis[k].var = phis[i].var]
    BY <1>1, Zenon DEF PhiOf
  <1> HIDE DEF phis
  <1>4. i \in DOMAIN phis
    BY DEF phis
  <1>5. PhiOf(id) = phis[i]
    BY <1>2, <1>3, <1>4, ChosenPhi
  <1>6. ToSet(phis[i].inc) = {phis[i].inc[k] : k \in DOMAIN phis[i].inc}
    BY DEF ToSet
  <1>7. ValuesInto(id) = {pair.val : pair \in ToSet(phis[i].inc)}
    BY <1>5, Zenon DEF ValuesInto
  <1> QED BY <1>6, <1>7 DEF phis

LEMMA ValuesOfPhiNext ==
  ASSUME HasPhis(ir'), NEW b \in AllBlocks, NEW i \in DOMAIN ir'.phis[b], NEW v, ir'.phis[b][i].var = v
  PROVE  ValuesInto(PhiId(b, v))' = {ir'.phis[b][i].inc[k].val : k \in DOMAIN ir'.phis[b][i].inc}
  <1> DEFINE id == PhiId(b, v)
             phis == ir'.phis[b]
  <1>1. id[2] = b /\ id[3] = v
    BY DEF PhiId
  <1>2. \A j \in DOMAIN phis : phis[j].var = v => phis[j] = phis[i]
    BY DEF HasPhis
  <1>3. PhiOf(id)' = phis[CHOOSE k \in DOMAIN phis : phis[k].var = v]
    BY <1>1, Zenon DEF PhiOf
  <1> HIDE DEF phis
  <1>4. i \in DOMAIN phis /\ phis[i].var = v
    BY DEF phis
  <1>5. PhiOf(id)' = phis[i]
    BY <1>2, <1>3, <1>4, ChosenPhi
  <1>6. ToSet(phis[i].inc) = {phis[i].inc[k] : k \in DOMAIN phis[i].inc}
    BY DEF ToSet
  <1>7. ValuesInto(id)' = {pair.val : pair \in ToSet(phis[i].inc)}
    BY <1>5, Zenon DEF ValuesInto
  <1> QED BY <1>6, <1>7 DEF phis

(* In any order the users follow the rest of the worklist. *)
LEMMA OrderedSet ==
  ASSUME NEW S, IsFiniteSet(S), NEW order \in SetToSeqs(S)
  PROVE  order \in Seq(S) /\ ToSet(order) = S
  <1> DEFINE n == Cardinality(S)
  <1>1. n \in Nat /\ order \in [1 .. n -> S] /\ \A i, j \in 1 .. n : i # j => order[i] # order[j]
    BY FS_CardinalityType DEF SetToSeqs
  <1>2. IsFiniteSet(1 .. n) /\ Cardinality(1 .. n) = n
    <2> HIDE DEF n
    <2> QED BY <1>1, FS_Interval
  <1>3. order \in Injection(1 .. n, S)
    BY <1>1 DEF Injection, IsInjective
  <1>4. order \in Surjection(1 .. n, S)
    BY <1>2, <1>3, FS_Injection
  <1> HIDE DEF n
  <1>5. order \in Seq(S) /\ DOMAIN order = 1 .. n
    BY <1>1
  <1>6. ToSet(order) = {order[i] : i \in 1 .. n}
    BY <1>5 DEF ToSet
  <1> QED BY <1>1, <1>4, <1>5, <1>6 DEF Surjection

LEMMA ListFinite ==
  ASSUME NEW s, IsList(s)
  PROVE  IsFiniteSet(ToSet(s))
  <1>1. DOMAIN s = 1 .. Len(s) /\ Len(s) \in Nat /\ ToSet(s) = {s[i] : i \in DOMAIN s}
    BY ListFacts DEF ToSet
  <1>2. s = [i \in 1 .. Len(s) |-> s[i]]
    BY <1>1, ListFacts
  <1>3. s \in Surjection(1 .. Len(s), ToSet(s))
    <2> DEFINE n == Len(s)
    <2> HIDE DEF n
    <2> QED BY <1>1, <1>2 DEF Surjection, n
  <1>4. IsFiniteSet(1 .. Len(s))
    BY <1>1, FS_Interval
  <1> QED BY <1>3, <1>4, FS_Surjection

LEMMA AllPhis ==
  ASSUME IsFunction(ir)
  PROVE  /\ IsList(SimplifyStart.worklist) /\ ToSet(SimplifyStart.worklist) = PhiIds
         /\ IsFiniteSet(PhiIds)
  <1> DEFINE seqs == [i \in DOMAIN ir.blocks |-> PhisOf(ir.blocks[i])]
  <1>1. /\ DOMAIN ir.blocks = 1 .. Len(ir.blocks) /\ Len(ir.blocks) \in Nat
        /\ \A i \in DOMAIN ir.blocks : ir.blocks[i] \in AllBlocks
        /\ Blocks = {ir.blocks[i] : i \in DOMAIN ir.blocks}
    BY DEF IsFunction, Blocks, ToSet
  <1>2. ASSUME NEW b \in AllBlocks PROVE PhisOf(b) \in Seq(ToSet(PhisOf(b)))
    <2> DEFINE p == ir.phis[b]
               list == [i \in DOMAIN p |-> PhiId(b, p[i].var)]
    <2>1. IsList(p)
      BY DEF IsFunction
    <2> HIDE DEF p
    <2>2. DOMAIN p = 1 .. Len(p) /\ Len(p) \in Nat
      BY <2>1, ListFacts
    <2>3. \A i \in 1 .. Len(p) : list[i] \in ToSet(list)
      BY <2>2 DEF ToSet
    <2>4. list = [i \in 1 .. Len(p) |-> list[i]]
      BY <2>2
    <2> HIDE DEF list
    <2>5. list \in Seq(ToSet(list))
      BY <2>2, <2>3, <2>4
    <2> QED BY <2>5 DEF PhisOf, list, p
  <1>3. seqs \in Seq(Seq(PhiIds))
    <2>1. \A b \in Blocks : PhisOf(b) \in Seq(PhiIds)
      <3> TAKE b \in Blocks
      <3>1. ToSet(PhisOf(b)) \subseteq PhiIds
        BY DEF PhiIds
      <3>2. PhisOf(b) \in Seq(ToSet(PhisOf(b)))
        BY <1>1, <1>2
      <3> QED BY <3>1, <3>2
    <2>2. \A i \in 1 .. Len(ir.blocks) : seqs[i] \in Seq(PhiIds)
      BY <1>1, <2>1
    <2>3. seqs = [i \in 1 .. Len(ir.blocks) |-> seqs[i]]
      BY <1>1
    <2> DEFINE T == Seq(PhiIds)
               n == Len(ir.blocks)
    <2>4. n \in Nat /\ seqs = [i \in 1 .. n |-> seqs[i]] /\ \A i \in 1 .. n : seqs[i] \in T
      BY <1>1, <2>2, <2>3
    <2> HIDE DEF seqs, T, n
    <2>5. seqs \in Seq(T)
      BY <2>4
    <2> QED BY <2>5 DEF T
  <1>4. \A x : x \in PhiIds <=> \E i \in DOMAIN seqs : x \in ToSet(seqs[i])
    BY <1>1 DEF PhiIds
  <1>5. SimplifyStart.worklist = FlattenSeq(seqs)
    BY DEF SimplifyStart
  <1> HIDE DEF seqs
  <1>6. FlattenSeq(seqs) \in Seq(PhiIds) /\ ToSet(FlattenSeq(seqs)) = PhiIds
    <2>1. /\ FlattenSeq(seqs) \in Seq(PhiIds)
          /\ ToSet(FlattenSeq(seqs)) = {x \in PhiIds : \E i \in DOMAIN seqs : x \in ToSet(seqs[i])}
      BY <1>3, FlattenFacts, Zenon
    <2> QED BY <1>4, <2>1
  <1>7. IsList(FlattenSeq(seqs))
    BY <1>6 DEF IsList
  <1>8. IsFiniteSet(PhiIds)
    BY <1>6, <1>7, ListFinite
  <1> QED BY <1>5, <1>6, <1>7, <1>8

LEMMA SimplifyBegins ==
  ASSUME IsFunction(ir), HasPhis(ir), simp = SimplifyStart
  PROVE  SimplifyInv
  <1>1. /\ simp = [phase |-> "simplify", erase |-> {}, worklist |-> SimplifyStart.worklist]
        /\ simp.phase = "simplify" /\ simp.erase = {} /\ simp.worklist = SimplifyStart.worklist
    BY DEF SimplifyStart
  <1>2. IsList(simp.worklist) /\ ToSet(simp.worklist) = PhiIds
    BY <1>1, AllPhis
  <1>3. simp = [phase |-> simp.phase, erase |-> simp.erase, worklist |-> simp.worklist]
    BY <1>1
  <1> QED BY <1>1, <1>2, <1>3 DEF SimplifyInv

(* psi is phi after the replacement of a value. *)
Replaced(psi, phi, old, new) ==
    psi = [phi EXCEPT !.inc = [k \in DOMAIN phi.inc |->
            [phi.inc[k] EXCEPT !.val = IF phi.inc[k].val = old THEN new ELSE phi.inc[k].val]]]

LEMMA ReplacePhis ==
  ASSUME NEW g, IsFunction(g), NEW old, NEW new, NEW b \in AllBlocks
  PROVE  /\ DOMAIN ReplaceAllUses(g, old, new).phis[b] = DOMAIN g.phis[b]
         /\ \A i \in DOMAIN g.phis[b] :
                Replaced(ReplaceAllUses(g, old, new).phis[b][i], g.phis[b][i], old, new)
  <1> DEFINE subst(val) == IF val = old THEN new ELSE val
             inOperands(inst) ==
                  [inst EXCEPT !.args = [k \in DOMAIN inst.args |-> subst(inst.args[k])]]
             inValue(x) == [x EXCEPT !.val = subst(x.val)]
             inPhi(phi) == [phi EXCEPT !.inc = [k \in DOMAIN phi.inc |-> inValue(phi.inc[k])]]
             newTerm == [c \in AllBlocks |-> inValue(g.term[c])]
             newBody == [c \in AllBlocks |-> [i \in DOMAIN g.body[c] |-> inOperands(g.body[c][i])]]
             newPhis == [c \in AllBlocks |-> [i \in DOMAIN g.phis[c] |-> inPhi(g.phis[c][i])]]
             h == ReplaceAllUses(g, old, new)
  <1>1. h = [g EXCEPT !.body = newBody, !.term = newTerm, !.phis = newPhis]
    BY Zenon DEF ReplaceAllUses
  <1>2. g = [blocks |-> g.blocks, succ |-> g.succ, pred |-> g.pred, term |-> g.term,
             phis |-> g.phis, body |-> g.body]
    BY DEF IsFunction
  <1>3. newPhis[b] = [i \in DOMAIN g.phis[b] |-> inPhi(g.phis[b][i])]
    OBVIOUS
  <1> HIDE DEF newTerm, newBody, newPhis, h
  <1>4. h.phis = newPhis
    BY <1>1, <1>2
  <1>5. h.phis[b] = [i \in DOMAIN g.phis[b] |-> inPhi(g.phis[b][i])]
    BY <1>3, <1>4
  <1> HIDE DEF inPhi
  <1>6. DOMAIN h.phis[b] = DOMAIN g.phis[b] /\ \A i \in DOMAIN g.phis[b] : h.phis[b][i] = inPhi(g.phis[b][i])
    BY <1>5
  <1> QED BY <1>6 DEF h, inPhi, Replaced

(* What one replacement does to a phi. *)
LEMMA ReplacePhi ==
  ASSUME NEW phi, IsPhi(phi), NEW old, NEW new, NEW psi, Replaced(psi, phi, old, new)
  PROVE  /\ IsPhi(psi) /\ psi.var = phi.var /\ DOMAIN psi.inc = DOMAIN phi.inc
         /\ (\A k \in DOMAIN phi.inc : phi.inc[k].val # old)
                => \A k \in DOMAIN phi.inc : psi.inc[k].val = phi.inc[k].val
  <1> DEFINE inc == phi.inc
             x(k) == IF inc[k].val = old THEN new ELSE inc[k].val
             pair(k) == [inc[k] EXCEPT !.val = x(k)]
             new_inc == [k \in DOMAIN inc |-> pair(k)]
  <1>1. psi = [phi EXCEPT !.inc = new_inc]
    BY DEF Replaced
  <1>2. {"var", "inc"} \subseteq DOMAIN phi /\ IsList(inc)
        /\ \A k \in DOMAIN inc : inc[k] = [val |-> inc[k].val, from |-> inc[k].from]
    BY DEF IsPhi
  <1> HIDE DEF new_inc
  <1>3. psi.inc = new_inc /\ psi.var = phi.var /\ DOMAIN psi = DOMAIN phi
    BY <1>1, <1>2
  <1>4. DOMAIN new_inc = DOMAIN inc /\ \A k \in DOMAIN inc : new_inc[k] = pair(k)
    BY DEF new_inc
  <1> HIDE DEF inc, x
  <1>5. ASSUME NEW k \in DOMAIN inc
        PROVE  pair(k) = [val |-> x(k), from |-> inc[k].from]
    <2> DEFINE y == x(k)
               z == inc[k]
    <2>1. z = [val |-> z.val, from |-> z.from]
      BY <1>2
    <2> HIDE DEF z, y
    <2>2. [z EXCEPT !.val = y] = [val |-> y, from |-> z.from]
      BY <2>1
    <2> QED BY <2>2 DEF y, z
  <1> HIDE DEF pair
  <1>6. \A k \in DOMAIN inc : new_inc[k] = [val |-> new_inc[k].val, from |-> new_inc[k].from]
                              /\ new_inc[k].val = x(k)
    BY <1>4, <1>5
  <1>7. IsList(new_inc)
    <2>1. Len(inc) \in Nat /\ DOMAIN inc = 1 .. Len(inc)
      BY <1>2, ListFacts
    <2>2. new_inc = [k \in 1 .. Len(inc) |-> new_inc[k]]
      BY <2>1 DEF new_inc
    <2> QED BY <2>1, <2>2, ListOf
  <1>8. IsPhi(psi)
    BY <1>2, <1>3, <1>4, <1>6, <1>7 DEF IsPhi
  <1> QED BY <1>3, <1>4, <1>6, <1>8 DEF inc, x

(* The phis that did not use the value replaced have the values they had.    *)
LEMMA ReplacedPhis ==
  ASSUME IsFunction(ir), HasPhis(ir), NEW old, NEW new, ir' = ReplaceAllUses(ir, old, new)
  PROVE  /\ IsFunction(ir') /\ HasPhis(ir') /\ Blocks' = Blocks /\ PhiIds' = PhiIds
         /\ \A id \in PhiIds : old \notin ValuesInto(id) => FindReplacement(id)' = FindReplacement(id)
  <1>1. IsFunction(ir') /\ Blocks' = Blocks
    BY ReplaceFacts DEF SameGraph, Blocks
  <1>2. ASSUME NEW b \in AllBlocks
        PROVE  /\ DOMAIN ir'.phis[b] = DOMAIN ir.phis[b]
               /\ \A i \in DOMAIN ir.phis[b] : Replaced(ir'.phis[b][i], ir.phis[b][i], old, new)
    BY ReplacePhis
  <1>3. ASSUME NEW b \in AllBlocks, NEW i \in DOMAIN ir.phis[b]
        PROVE  /\ IsPhi(ir'.phis[b][i]) /\ ir'.phis[b][i].var = ir.phis[b][i].var
               /\ DOMAIN ir'.phis[b][i].inc = DOMAIN ir.phis[b][i].inc
               /\ (\A k \in DOMAIN ir.phis[b][i].inc : ir.phis[b][i].inc[k].val # old) =>
                    \A k \in DOMAIN ir.phis[b][i].inc : ir'.phis[b][i].inc[k].val = ir.phis[b][i].inc[k].val
    <2> DEFINE phi == ir.phis[b][i]
               psi == ir'.phis[b][i]
    <2>1. IsPhi(phi)
      BY DEF HasPhis
    <2>2. Replaced(psi, phi, old, new)
      BY <1>2
    <2> HIDE DEF phi, psi
    <2>3. /\ IsPhi(psi) /\ psi.var = phi.var /\ DOMAIN psi.inc = DOMAIN phi.inc
          /\ (\A k \in DOMAIN phi.inc : phi.inc[k].val # old)
                => \A k \in DOMAIN phi.inc : psi.inc[k].val = phi.inc[k].val
      BY <2>1, <2>2, ReplacePhi
    <2> QED BY <2>3 DEF phi, psi
  <1>4. HasPhis(ir')
    <2> SUFFICES ASSUME NEW b \in AllBlocks, NEW i \in DOMAIN ir'.phis[b]
                 PROVE  /\ IsPhi(ir'.phis[b][i])
                        /\ \A j \in DOMAIN ir'.phis[b] :
                                ir'.phis[b][i].var = ir'.phis[b][j].var => ir'.phis[b][i] = ir'.phis[b][j]
      BY DEF HasPhis
    <2>1. i \in DOMAIN ir.phis[b] /\ DOMAIN ir'.phis[b] = DOMAIN ir.phis[b]
      BY <1>2
    <2>2. ASSUME NEW j \in DOMAIN ir.phis[b], ir.phis[b][i].var = ir.phis[b][j].var
          PROVE  ir'.phis[b][i] = ir'.phis[b][j]
      <3>1. ir.phis[b][i] = ir.phis[b][j]
        BY <2>1, <2>2 DEF HasPhis
      <3>2. \A phi, psi, chi : Replaced(psi, phi, old, new) /\ Replaced(chi, phi, old, new) => psi = chi
        BY DEF Replaced
      <3>3. /\ Replaced(ir'.phis[b][i], ir.phis[b][i], old, new)
            /\ Replaced(ir'.phis[b][j], ir.phis[b][i], old, new)
        BY <1>2, <2>1, <3>1
      <3> QED BY <3>2, <3>3
    <2> QED BY <1>3, <2>1, <2>2
  <1>5. PhiIds' = PhiIds
    <2>1. \A id : id \in PhiIds <=>
            \E b \in Blocks : \E i \in DOMAIN ir.phis[b] : id = PhiId(b, ir.phis[b][i].var)
      BY PhiIdsAre
    <2>2. \A id : id \in PhiIds' <=>
            \E b \in Blocks : \E i \in DOMAIN ir'.phis[b] : id = PhiId(b, ir'.phis[b][i].var)
      <3>1. \A b : ToSet(PhisOf(b))' = {PhiId(b, ir'.phis[b][i].var) : i \in DOMAIN ir'.phis[b]}
        BY DEF ToSet, PhisOf
      <3> QED BY <1>1, <3>1 DEF PhiIds
    <2>3. Blocks \subseteq AllBlocks
      BY BlocksOf DEF Blocks
    <2>4. ASSUME NEW b \in Blocks
          PROVE  DOMAIN ir'.phis[b] = DOMAIN ir.phis[b]
                 /\ \A i \in DOMAIN ir.phis[b] : ir'.phis[b][i].var = ir.phis[b][i].var
      BY <1>2, <1>3, <2>3
    <2>5. \A id : id \in PhiIds <=> id \in PhiIds'
      BY <1>1, <2>1, <2>2, <2>4
    <2> QED BY <2>5
  <1>6. ASSUME NEW id \in PhiIds, old \notin ValuesInto(id)
        PROVE  FindReplacement(id)' = FindReplacement(id)
    <2>1. PICK b \in Blocks : \E i \in DOMAIN ir.phis[b] : id = PhiId(b, ir.phis[b][i].var)
      BY PhiIdsAre
    <2>2. PICK i \in DOMAIN ir.phis[b] : id = PhiId(b, ir.phis[b][i].var)
      BY <2>1
    <2>3. b \in AllBlocks
      BY BlocksOf DEF Blocks
    <2>4. ValuesInto(id) = {ir.phis[b][i].inc[k].val : k \in DOMAIN ir.phis[b][i].inc}
      BY <2>2, <2>3, ValuesOfPhi
    <2> DEFINE v == ir.phis[b][i].var
    <2>5. i \in DOMAIN ir'.phis[b] /\ ir'.phis[b][i].var = v /\ id = PhiId(b, v)
      BY <1>2, <1>3, <2>2, <2>3
    <2> HIDE DEF v
    <2>6. ValuesInto(id)' = {ir'.phis[b][i].inc[k].val : k \in DOMAIN ir'.phis[b][i].inc}
      BY <1>4, <2>3, <2>5, ValuesOfPhiNext
    <2>7. \A k \in DOMAIN ir.phis[b][i].inc : ir.phis[b][i].inc[k].val # old
      BY <1>6, <2>4
    <2>8. ValuesInto(id)' = ValuesInto(id)
      BY <1>3, <2>3, <2>4, <2>6, <2>7
    <2> QED BY <2>8 DEF FindReplacement
  <1> QED BY <1>1, <1>4, <1>5, <1>6

LEMMA NextKeeps ==
  ASSUME SimplifyInv, SimplifyNext
  PROVE  SimplifyInv'
  <1> DEFINE cur == Head(simp.worklist)
             rest == Tail(simp.worklist)
  <1>1. /\ simp.phase = "simplify" /\ simp.worklist # <<>> /\ IsFunction(ir) /\ HasPhis(ir)
        /\ IsList(simp.worklist)
        /\ simp = [phase |-> simp.phase, erase |-> simp.erase, worklist |-> simp.worklist]
        /\ \A id \in PhiIds : \/ FindReplacement(id) = {}
                              \/ id \in simp.erase \/ id \in ToSet(simp.worklist)
    BY DEF SimplifyInv, SimplifyNext
  <1>2. IsList(rest) /\ ToSet(simp.worklist) = {cur} \cup ToSet(rest)
    <2>1. PICK S : simp.worklist \in Seq(S)
      BY <1>1 DEF IsList
    <2> QED BY <1>1, <2>1, Queue DEF IsList
  <1>3. CASE cur \in simp.erase \/ FindReplacement(cur) = {}
    <2>1. simp' = [simp EXCEPT !.worklist = rest] /\ ir' = ir
      BY <1>3 DEF SimplifyNext
    <2> HIDE DEF cur, rest
    <2>2. /\ simp' = [phase |-> simp'.phase, erase |-> simp'.erase, worklist |-> simp'.worklist]
          /\ simp'.phase = "simplify" /\ simp'.erase = simp.erase /\ simp'.worklist = rest
      BY <1>1, <2>1
    <2>3. PhiIds' = PhiIds /\ \A id : FindReplacement(id)' = FindReplacement(id)
      BY <2>1 DEF PhiIds, PhisOf, Blocks, FindReplacement, ValuesInto, PhiOf
    <2>4. \A id \in PhiIds : \/ FindReplacement(id) = {}
                             \/ id \in simp.erase \/ id \in ToSet(rest)
      BY <1>1, <1>2, <1>3
    <2>5. IsFunction(ir') /\ HasPhis(ir')
      BY <1>1, <2>1
    <2> QED BY <1>2, <2>2, <2>3, <2>4, <2>5 DEF SimplifyInv
  <1>4. CASE ~(cur \in simp.erase \/ FindReplacement(cur) = {})
    <2>1. /\ \E list \in AddToWorklist(rest, PhiUsers(cur)) :
                    simp' = [simp EXCEPT !.worklist = list, !.erase = @ \cup {cur}]
          /\ \E value \in FindReplacement(cur) : ir' = ReplaceAllUses(ir, cur, value)
      BY <1>4 DEF SimplifyNext
    <2> HIDE DEF cur, rest
    <2>2. PICK value : ir' = ReplaceAllUses(ir, cur, value)
      BY <2>1
    <2>3. PICK order \in SetToSeqs(PhiUsers(cur)) :
                simp' = [simp EXCEPT !.worklist = rest \o order, !.erase = @ \cup {cur}]
      BY <2>1 DEF AddToWorklist
    <2>4. /\ simp' = [phase |-> simp'.phase, erase |-> simp'.erase, worklist |-> simp'.worklist]
          /\ simp'.phase = "simplify" /\ simp'.erase = simp.erase \cup {cur}
          /\ simp'.worklist = rest \o order
      BY <1>1, <2>3
    <2>5. PhiUsers(cur) = {id \in PhiIds : cur \in ValuesInto(id)}
      BY DEF PhiUsers, PhiIds
    <2>6. IsFiniteSet(PhiUsers(cur))
      BY <1>1, <2>5, AllPhis, FS_Subset
    <2>7. order \in Seq(PhiUsers(cur)) /\ ToSet(order) = PhiUsers(cur)
      BY <2>6, OrderedSet
    <2>8. IsList(rest \o order) /\ ToSet(rest \o order) = ToSet(rest) \cup PhiUsers(cur)
      <3>1. PICK S : rest \in Seq(S)
        BY <1>2 DEF IsList
      <3>2. rest \in Seq(S \cup PhiUsers(cur)) /\ order \in Seq(S \cup PhiUsers(cur))
        BY <2>7, <3>1
      <3> QED BY <2>7, <3>2, SetOfSeq DEF IsList
    <2>9. /\ IsFunction(ir') /\ HasPhis(ir') /\ PhiIds' = PhiIds
          /\ \A id \in PhiIds : cur \notin ValuesInto(id) => FindReplacement(id)' = FindReplacement(id)
      BY <1>1, <2>2, ReplacedPhis
    <2>10. \A id \in PhiIds : \/ FindReplacement(id)' = {}
                              \/ id \in simp.erase \cup {cur} \/ id \in ToSet(rest \o order)
      BY <1>1, <1>2, <2>5, <2>8, <2>9
    <2> QED BY <2>4, <2>8, <2>9, <2>10 DEF SimplifyInv
  <1> QED BY <1>3, <1>4

LEMMA EraseKeeps ==
  ASSUME SimplifyInv, ErasePhis
  PROVE  SimplifyInv'
  <1> DEFINE at(b) == {i \in DOMAIN ir.phis[b] : PhiId(b, ir.phis[b][i].var) \notin simp.erase}
             phis == [b \in AllBlocks |-> Kept(ir.phis[b], at(b))]
  <1>1. /\ simp.phase = "simplify" /\ simp.worklist = <<>> /\ IsFunction(ir) /\ HasPhis(ir)
        /\ IsList(simp.worklist)
        /\ simp = [phase |-> simp.phase, erase |-> simp.erase, worklist |-> simp.worklist]
        /\ \A id \in PhiIds : FindReplacement(id) = {} \/ id \in simp.erase
    <2>1. ToSet(<<>>) = {}
      BY DEF ToSet
    <2> QED BY <2>1 DEF SimplifyInv, ErasePhis
  <1>2. ir' = [ir EXCEPT !.phis = phis] /\ simp' = [simp EXCEPT !.phase = "done"]
    BY Zenon DEF ErasePhis
  <1>3. IsFunction(ir') /\ Blocks' = Blocks
    BY <1>1, SimplifyKeeps DEF SimplifyStep, SameGraph, Blocks
  <1>4. ASSUME NEW b \in AllBlocks
        PROVE  ToSet(phis[b]) = {ir.phis[b][i] : i \in at(b)} /\ IsList(phis[b])
    <2> DEFINE p == ir.phis[b]
               t == at(b)
    <2>1. IsList(p) /\ phis[b] = Kept(p, t) /\ t \subseteq DOMAIN p
      BY <1>1 DEF IsFunction
    <2> HIDE DEF p, t, phis, at
    <2>2. PICK S : p \in Seq(S)
      BY <2>1 DEF IsList
    <2>3. ToSet(Kept(p, t)) = {p[i] : i \in DOMAIN p \cap t} /\ Kept(p, t) \in Seq(S)
      BY <2>2, KeptFacts
    <2>4. DOMAIN p \cap t = t
      BY <2>1
    <2>5. ToSet(phis[b]) = {p[i] : i \in t} /\ IsList(phis[b])
      BY <2>1, <2>3, <2>4 DEF IsList
    <2> QED BY <2>5 DEF p, t
  <1>5. ir'.phis = phis
    BY <1>1, <1>2 DEF IsFunction
  <1> HIDE DEF phis
  <1>6. ASSUME NEW b \in AllBlocks, NEW j \in DOMAIN ir'.phis[b]
        PROVE  \E i \in at(b) : ir'.phis[b][j] = ir.phis[b][i]
    BY <1>4, <1>5, <1>6 DEF ToSet
  <1>7. HasPhis(ir')
    <2> SUFFICES ASSUME NEW b \in AllBlocks, NEW i \in DOMAIN ir'.phis[b]
                 PROVE  /\ IsPhi(ir'.phis[b][i])
                        /\ \A j \in DOMAIN ir'.phis[b] :
                                ir'.phis[b][i].var = ir'.phis[b][j].var => ir'.phis[b][i] = ir'.phis[b][j]
      BY DEF HasPhis
    <2> QED BY <1>1, <1>6 DEF HasPhis
  <1>8. ASSUME NEW id \in PhiIds' PROVE FindReplacement(id)' = {}
    <2>1. \E b \in Blocks : \E j \in DOMAIN ir'.phis[b] : id = PhiId(b, ir'.phis[b][j].var)
      <3>1. \A b : ToSet(PhisOf(b))' = {PhiId(b, ir'.phis[b][i].var) : i \in DOMAIN ir'.phis[b]}
        BY DEF ToSet, PhisOf
      <3> QED BY <1>3, <1>8, <3>1 DEF PhiIds
    <2>2. PICK b \in Blocks : \E j \in DOMAIN ir'.phis[b] : id = PhiId(b, ir'.phis[b][j].var)
      BY <2>1
    <2>3. PICK j \in DOMAIN ir'.phis[b] : id = PhiId(b, ir'.phis[b][j].var)
      BY <2>2
    <2>4. b \in AllBlocks
      BY <1>1, BlocksOf DEF Blocks
    <2>5. PICK i \in at(b) : ir'.phis[b][j] = ir.phis[b][i]
      BY <1>6, <2>4
    <2> DEFINE v == ir.phis[b][i].var
    <2>6. /\ i \in DOMAIN ir.phis[b] /\ id = PhiId(b, v) /\ id \notin simp.erase
          /\ ir'.phis[b][j].var = v
      BY <2>3, <2>5
    <2>7. id \in PhiIds
      BY <2>6, PhiIdsAre
    <2>8. FindReplacement(id) = {}
      BY <1>1, <2>6, <2>7
    <2>9. ValuesInto(id) = {ir.phis[b][i].inc[k].val : k \in DOMAIN ir.phis[b][i].inc}
      BY <1>1, <2>4, <2>6, ValuesOfPhi
    <2> HIDE DEF v
    <2>10. ValuesInto(id)' = {ir'.phis[b][j].inc[k].val : k \in DOMAIN ir'.phis[b][j].inc}
      BY <1>7, <2>4, <2>6, ValuesOfPhiNext
    <2>11. ValuesInto(id)' = ValuesInto(id)
      BY <2>5, <2>9, <2>10
    <2> QED BY <2>8, <2>11 DEF FindReplacement
  <1>9. /\ simp' = [phase |-> simp'.phase, erase |-> simp'.erase, worklist |-> simp'.worklist]
        /\ simp'.worklist = simp.worklist
    BY <1>1, <1>2
  <1> QED BY <1>1, <1>3, <1>7, <1>8, <1>9 DEF SimplifyInv

THEOREM SimplifyInvariance == SimplifySpec => []SimplifyInv
  <1>1. SimplifyInv /\ [SimplifyStep]_<<ir, simp>> => SimplifyInv'
    <2>1. ASSUME SimplifyInv, UNCHANGED <<ir, simp>> PROVE SimplifyInv'
      <3>1. PhiIds' = PhiIds /\ \A id : FindReplacement(id)' = FindReplacement(id)
        BY <2>1 DEF PhiIds, PhisOf, Blocks, FindReplacement, ValuesInto, PhiOf
      <3> QED BY <2>1, <3>1 DEF SimplifyInv
    <2> QED BY <2>1, NextKeeps, EraseKeeps DEF SimplifyStep
  <1>2. IsFunction(ir) /\ HasPhis(ir) /\ simp = SimplifyStart => SimplifyInv
    BY SimplifyBegins
  <1> QED BY <1>1, <1>2, PTL DEF SimplifySpec

(* In every function, and in whatever order the users of a phi wait, no      *)
(* phi is left whose incoming values are one value and perhaps itself.       *)
THEOREM NoTrivialPhiLeft == SimplifySpec => []NoTrivialPhi
  <1>1. SimplifyInv => NoTrivialPhi
    <2> SUFFICES ASSUME SimplifyInv, SimplifyDone, NEW b \in Blocks, NEW id \in ToSet(PhisOf(b))
                 PROVE  FindReplacement(id) = {}
      BY DEF NoTrivialPhi
    <2>1. simp.phase # "simplify" /\ id \in PhiIds
      BY DEF SimplifyDone, PhiIds
    <2> QED BY <2>1 DEF SimplifyInv
  <1> QED BY <1>1, SimplifyInvariance, PTL

-----------------------------------------------------------------------------
(* SplitCriticalEdges. *)

LEMMA UniqueFacts ==
  ASSUME NEW S, NEW list \in Seq(S)
  PROVE  /\ Unique(list) \in Seq(S) /\ ToSet(Unique(list)) = ToSet(list)
         /\ IsInjective(Unique(list))
         /\ IsFiniteSet(ToSet(list)) /\ Len(Unique(list)) = Cardinality(ToSet(list))
  <1> DEFINE at == {i \in DOMAIN list : \A j \in 1 .. i - 1 : list[j] # list[i]}
             u == Kept(list, at)
  <1>1. DOMAIN list = 1 .. Len(list) /\ Len(list) \in Nat /\ ToSet(list) = {list[i] : i \in DOMAIN list}
    BY DEF ToSet
  <1>2. Unique(list) = u
    BY DEF Unique
  <1>3. /\ u \in Seq(S) /\ ToSet(u) = {list[i] : i \in DOMAIN list \cap at}
        /\ (\A i, j \in DOMAIN list \cap at : list[i] = list[j] => i = j) => IsInjective(u)
    BY KeptFacts
  <1>4. \A i, j \in DOMAIN list \cap at : list[i] = list[j] => i = j
    BY <1>1
  <1>5. ASSUME NEW k \in DOMAIN list PROVE \E i \in at : list[i] = list[k]
    <2> DEFINE same == {i \in DOMAIN list : list[i] = list[k]}
    <2>1. same \in SUBSET Nat /\ k \in same
      BY <1>1
    <2> HIDE DEF same
    <2>2. PICK c \in same : \A d \in same : c <= d
      BY <2>1, Lowest
    <2>3. c \in DOMAIN list /\ list[c] = list[k] /\ c \in 1 .. Len(list)
      BY <1>1, <2>2 DEF same
    <2>4. \A j \in 1 .. c - 1 : list[j] # list[c]
      <3> SUFFICES ASSUME NEW j \in 1 .. c - 1, list[j] = list[c] PROVE FALSE
        OBVIOUS
      <3>1. j \in 1 .. Len(list) /\ j < c
        BY <1>1, <2>3
      <3>2. j \in same
        BY <1>1, <2>3, <3>1 DEF same
      <3> QED BY <2>2, <2>3, <3>1, <3>2
    <2> QED BY <2>3, <2>4
  <1> HIDE DEF u
  <1>6. ToSet(u) = ToSet(list)
    BY <1>1, <1>3, <1>5
  <1>7. IsInjective(u)
    BY <1>3, <1>4
  <1>8. IsFiniteSet(ToSet(list)) /\ Len(u) = Cardinality(ToSet(list))
    <2> DEFINE n == Len(u)
               T == ToSet(u)
    <2>1. n \in Nat /\ DOMAIN u = 1 .. n /\ T = {u[i] : i \in DOMAIN u}
      BY <1>3 DEF ToSet
    <2>2. u = [i \in 1 .. n |-> u[i]]
      BY <1>3, <2>1
    <2> HIDE DEF n, T
    <2>3. u \in Surjection(1 .. n, T)
      BY <2>1, <2>2 DEF Surjection
    <2>4. u \in Injection(1 .. n, T)
      BY <1>7, <2>1, <2>2 DEF Injection
    <2>5. IsFiniteSet(1 .. n) /\ Cardinality(1 .. n) = n
      BY <2>1, FS_Interval
    <2>6. IsFiniteSet(T) /\ Cardinality(T) = Cardinality(1 .. n)
      BY <2>3, <2>4, <2>5, FS_Surjection
    <2> QED BY <1>6, <2>5, <2>6 DEF n, T
  <1> QED BY <1>2, <1>3, <1>6, <1>7, <1>8

LEMMA NextBlock ==
  ASSUME NEW g, Wired(g), NEW m, m = Newest(g) + 1, m <= MaxBlocks
  PROVE  m \in AllBlocks /\ m \notin ToSet(g.blocks) /\ g.term[m] = NoTerm /\ Newest(g) \in Nat
  <1> DEFINE S == ToSet(g.blocks) \cup {b \in AllBlocks : g.term[b] # NoTerm}
             Far == {MaxBlocks - b : b \in S}
  <1>1. S \subseteq AllBlocks /\ Entry \in S /\ MaxBlocks \in Nat
    BY BlocksOf, BuilderAssumption DEF Wired
  <1>2. Far \in SUBSET Nat /\ Far # {}
    <2> HIDE DEF S
    <2> QED BY <1>1 DEF AllBlocks
  <1> HIDE DEF Far
  <1>3. PICK c \in Far : \A d \in Far : c <= d
    BY <1>2, Lowest
  <1>4. PICK b \in S : c = MaxBlocks - b
    BY <1>3 DEF Far
  <1>5. \A d \in S : b >= d /\ d \in Nat
    <2> TAKE d \in S
    <2>1. MaxBlocks - d \in Far
      BY DEF Far
    <2> HIDE DEF S
    <2>2. c <= MaxBlocks - d /\ d \in 1 .. MaxBlocks /\ b \in 1 .. MaxBlocks
      BY <1>1, <1>3, <2>1 DEF AllBlocks
    <2> QED BY <1>1, <1>4, <2>2
  <1> HIDE DEF S
  <1>6. Max(S) \in S /\ \A d \in S : Max(S) >= d
    BY <1>4, <1>5 DEF Max
  <1>7. Newest(g) = Max(S)
    BY DEF Newest, S
  <1>8. m \in Nat /\ Newest(g) \in Nat /\ m > Newest(g) /\ Newest(g) >= 1
    <2> DEFINE top == Newest(g)
    <2>1. top \in 1 .. MaxBlocks
      BY <1>1, <1>6, <1>7 DEF AllBlocks
    <2>2. m = top + 1
      OBVIOUS
    <2> HIDE DEF top
    <2>3. m \in Nat /\ top \in Nat /\ m > top /\ top >= 1
      BY <1>1, <2>1, <2>2
    <2> QED BY <2>3 DEF top
  <1>9. m \in AllBlocks
    BY <1>1, <1>8 DEF AllBlocks
  <1>10. m \notin S
    BY <1>5, <1>6, <1>7, <1>8
  <1> QED BY <1>8, <1>9, <1>10 DEF S

(* h is g with the block m on the edge from p to s. *)
CutIn(h, g, p, s, m) ==
    /\ IsFunction(h)
    /\ h.blocks = g.blocks \o <<m>>
    /\ \A c \in AllBlocks \ {p, m} : h.term[c] = g.term[c]
    /\ h.term[p].op = g.term[p].op
    /\ h.term[p].to = [i \in DOMAIN g.term[p].to |-> IF g.term[p].to[i] = s THEN m ELSE g.term[p].to[i]]
    /\ ToSet(h.term[p].to) = (ToSet(g.term[p].to) \ {s}) \cup {m}
    /\ h.term[m] = Br(s)
    /\ \A c \in AllBlocks :
        /\ ToSet(h.succ[c]) = IF c = p THEN (ToSet(g.succ[c]) \ {s}) \cup {m}
                              ELSE IF c = m THEN ToSet(g.succ[c]) \cup {s} ELSE ToSet(g.succ[c])
        /\ ToSet(h.pred[c]) = (IF c = s THEN (ToSet(g.pred[c]) \ {p}) \cup {m} ELSE ToSet(g.pred[c]))
                              \cup (IF c = m THEN {p} ELSE {})

MayCut(g, p, s, m) ==
    /\ Wired(g)
    /\ p \in ToSet(g.blocks) /\ s \in ToSet(g.blocks) /\ m \in AllBlocks \ ToSet(g.blocks)
    /\ Len(g.term[p].to) = 2 /\ g.term[p].to[1] # g.term[p].to[2]
    /\ s \in ToSet(g.term[p].to)
    /\ m = Newest(g) + 1 /\ g.term[m] = NoTerm

(* The list of targets with m for s. *)
Retargeted(new, to, s, m) ==
    /\ new \in Seq(AllBlocks) /\ Len(new) = 2
    /\ new = [i \in DOMAIN to |-> IF to[i] = s THEN m ELSE to[i]]
    /\ ToSet(new) = (ToSet(to) \ {s}) \cup {m}

LEMMA NewTarget ==
  ASSUME NEW to \in Seq(AllBlocks), Len(to) = 2, to[1] # to[2], NEW s \in ToSet(to), NEW m \in AllBlocks
  PROVE  Retargeted([to EXCEPT ![IF to[1] = s THEN 1 ELSE 2] = m], to, s, m)
  <1> DEFINE at == IF to[1] = s THEN 1 ELSE 2
             new == [to EXCEPT ![at] = m]
             list == [i \in DOMAIN to |-> IF to[i] = s THEN m ELSE to[i]]
  <1>1. DOMAIN to = {1, 2} /\ ToSet(to) = {to[1], to[2]} /\ to[1] \in AllBlocks /\ to[2] \in AllBlocks
    <2>1. DOMAIN to = 1 .. 2 /\ 1 .. 2 = {1, 2}
      OBVIOUS
    <2>2. to[1] \in AllBlocks /\ to[2] \in AllBlocks
      BY <2>1
    <2> QED BY <2>1, <2>2 DEF ToSet
  <1>2. to = [i \in {1, 2} |-> to[i]] /\ DOMAIN to = 1 .. 2
    BY <1>1
  <1>3. at \in {1, 2} /\ to[at] = s /\ \A i \in {1, 2} : to[i] = s <=> i = at
    BY <1>1
  <1>4. new = [i \in {1, 2} |-> IF i = at THEN m ELSE to[i]]
    BY <1>2, <1>3
  <1>5. new = list
    BY <1>1, <1>3, <1>4
  <1>6. new \in Seq(AllBlocks) /\ Len(new) = 2
    <2> DEFINE n == 2
    <2>1. new \in [1 .. n -> AllBlocks] /\ n \in Nat
      BY <1>1, <1>2, <1>4
    <2> HIDE DEF new, n
    <2>2. new \in Seq(AllBlocks) /\ Len(new) = n
      BY <2>1
    <2> QED BY <2>2 DEF n
  <1>7. ToSet(new) = {new[1], new[2]}
    BY <1>4 DEF ToSet
  <1>8. ToSet(new) = (ToSet(to) \ {s}) \cup {m}
    BY <1>1, <1>3, <1>4, <1>7
  <1> HIDE DEF new
  <1>9. Retargeted(new, to, s, m)
    BY <1>5, <1>6, <1>8 DEF Retargeted
  <1> QED BY <1>9 DEF new

LEMMA ListWith ==
  ASSUME NEW list \in Seq(AllBlocks), NEW x \in AllBlocks
  PROVE  Append(list, x) \in Seq(AllBlocks) /\ ToSet(Append(list, x)) = ToSet(list) \cup {x}
  <1>1. \A y \in AllBlocks : Append(list, y) \in Seq(AllBlocks) /\ ToSet(Append(list, y)) = ToSet(list) \cup {y}
    BY SetOfSeq
  <1> QED BY <1>1

LEMMA CutFacts ==
  ASSUME NEW g, NEW p, NEW s, NEW m, MayCut(g, p, s, m)
  PROVE  /\ CutIn(WithMiddle(CreateBlocks(g, 1), p, s, m), g, p, s, m)
         /\ WithMiddle(CreateBlocks(g, 1), p, s, m).phis = g.phis
  <1> DEFINE to == g.term[p].to
             at == IF to[1] = s THEN 1 ELSE 2
             newTo == [to EXCEPT ![at] = m]
             g1 == CreateBlocks(g, 1)
             terms == [g.term EXCEPT ![p] = [@ EXCEPT !.to = newTo]]
             g2 == [g1 EXCEPT !.term[p].to[at] = m]
             cut == RemoveEdge(g2, p, s)
             succ3 == [cut.succ EXCEPT ![p] = Append(@, m)]
             pred3 == [cut.pred EXCEPT ![m] = Append(@, p)]
             g3 == [cut EXCEPT !.succ[p] = Append(@, m), !.pred[m] = Append(@, p)]
             h == Terminate(g3, m, Br(s))
  <1>1. /\ Wired(g) /\ IsFunction(g) /\ p \in AllBlocks /\ s \in AllBlocks /\ m \in AllBlocks
        /\ p # m /\ s # m /\ m = Newest(g) + 1 /\ g.term[m] = NoTerm
        /\ Len(to) = 2 /\ to[1] # to[2] /\ s \in ToSet(to) /\ to \in Seq(AllBlocks)
    <2>1. IsFunction(g) /\ ToSet(g.blocks) \subseteq AllBlocks
      BY BlocksOf DEF MayCut, Wired
    <2> QED BY <2>1 DEF MayCut, IsFunction, IsTerminator
  <1>2. Retargeted(newTo, to, s, m)
    <2> HIDE DEF to
    <2>1. Retargeted([to EXCEPT ![IF to[1] = s THEN 1 ELSE 2] = m], to, s, m)
      BY <1>1, NewTarget
    <2> QED BY <2>1
  <1>3. /\ g2 = [blocks |-> g.blocks \o <<m>>, succ |-> g.succ, pred |-> g.pred, term |-> terms,
                 phis |-> g.phis, body |-> g.body]
    <2>1. g = [blocks |-> g.blocks, succ |-> g.succ, pred |-> g.pred, term |-> g.term,
               phis |-> g.phis, body |-> g.body]
      BY <1>1, RecordOf
    <2>2. [i \in 1 .. 1 |-> Newest(g) + i] = <<m>>
      BY <1>1
    <2>3. g1 = [g EXCEPT !.blocks = g.blocks \o <<m>>]
      BY <2>2, Zenon DEF CreateBlocks
    <2>4. g1 = [blocks |-> g.blocks \o <<m>>, succ |-> g.succ, pred |-> g.pred, term |-> g.term,
               phis |-> g.phis, body |-> g.body]
      BY <2>1, <2>3
    <2> HIDE DEF g1
    <2>5. g2 = [g1 EXCEPT !.term = [g1.term EXCEPT ![p] = [g1.term[p] EXCEPT !.to = [g1.term[p].to EXCEPT ![at] = m]]]]
      OBVIOUS
    <2>6. g1.term = g.term
      BY <2>4
    <2>7. g2 = [g1 EXCEPT !.term = terms]
      BY <2>5, <2>6
    <2> HIDE DEF g2, terms
    <2> QED BY <2>4, <2>7
  <1>15. g1.term = g.term
    BY <1>1 DEF CreateBlocks, IsFunction
  <1> HIDE DEF g1, at
  <1>4. /\ terms = [b \in AllBlocks |-> terms[b]] /\ \A b \in AllBlocks : IsTerminator(terms[b])
        /\ \A b \in AllBlocks \ {p} : terms[b] = g.term[b]
        /\ terms[p].op = g.term[p].op /\ terms[p].to = newTo
    <2>1. IsTerminator(g.term[p]) /\ g.term = [b \in AllBlocks |-> g.term[b]]
      BY <1>1 DEF IsFunction
    <2> DEFINE t == g.term[p]
               u == [t EXCEPT !.to = newTo]
    <2>2. t = [op |-> t.op, val |-> t.val, to |-> t.to]
      BY <2>1 DEF IsTerminator
    <2> HIDE DEF t, newTo
    <2>3. u = [op |-> t.op, val |-> t.val, to |-> newTo]
      BY <2>2
    <2> HIDE DEF u
    <2>4. u.op = t.op /\ u.to = newTo /\ u.val = t.val
      BY <2>3
    <2>5. IsTerminator(u)
      BY <1>2, <2>3, <2>4 DEF IsTerminator, Retargeted
    <2>6. terms = [g.term EXCEPT ![p] = u]
      BY DEF t, u
    <2>7. terms = [b \in AllBlocks |-> IF b = p THEN u ELSE g.term[b]]
      <3> HIDE DEF terms
      <3> QED BY <1>1, <2>1, <2>6
    <2> HIDE DEF terms
    <2>8. \A b \in AllBlocks : terms[b] = IF b = p THEN u ELSE g.term[b]
      BY <2>7
    <2>9. \A b \in AllBlocks : IsTerminator(g.term[b])
      BY <1>1 DEF IsFunction
    <2> QED BY <1>1, <2>4, <2>5, <2>7, <2>8, <2>9 DEF t
  <1> HIDE DEF newTo, terms
  <1>5. /\ IsFunction(g2) /\ g2.blocks = g.blocks \o <<m>> /\ g2.term = terms /\ g2.phis = g.phis
        /\ g2.succ = g.succ /\ g2.pred = g.pred
    <2> HIDE DEF g2
    <2>1. g.blocks \o <<m>> \in Seq(AllBlocks)
      BY <1>1 DEF IsFunction
    <2>2. IsFunction([blocks |-> g.blocks \o <<m>>, succ |-> g.succ, pred |-> g.pred, term |-> terms,
                      phis |-> g.phis, body |-> g.body])
      BY <1>1, <1>4, <2>1 DEF IsFunction
    <2> QED BY <1>3, <2>2
  <1> HIDE DEF g2
  <1>6. EdgeGone(cut, g2, p, s)
    BY <1>1, <1>5, RemoveEdgeFacts
  <1> HIDE DEF cut
  <1>7. /\ IsFunction(cut) /\ cut.blocks = g.blocks \o <<m>> /\ cut.term = terms /\ cut.phis = g.phis
        /\ \A c \in AllBlocks : ToSet(cut.succ[c]) = IF c = p THEN ToSet(g.succ[c]) \ {s} ELSE ToSet(g.succ[c])
        /\ \A c \in AllBlocks : ToSet(cut.pred[c]) = IF c = s THEN ToSet(g.pred[c]) \ {p} ELSE ToSet(g.pred[c])
    BY <1>5, <1>6 DEF EdgeGone, SameBlocks
  <1>8. /\ succ3 \in [AllBlocks -> Seq(AllBlocks)] /\ pred3 \in [AllBlocks -> Seq(AllBlocks)]
        /\ \A c \in AllBlocks : ToSet(succ3[c]) = ToSet(cut.succ[c]) \cup (IF c = p THEN {m} ELSE {})
        /\ \A c \in AllBlocks : ToSet(pred3[c]) = ToSet(cut.pred[c]) \cup (IF c = m THEN {p} ELSE {})
    <2>1. cut.succ \in [AllBlocks -> Seq(AllBlocks)] /\ cut.pred \in [AllBlocks -> Seq(AllBlocks)]
      BY <1>7 DEF IsFunction
    <2>2. \A c \in AllBlocks : succ3[c] = IF c = p THEN Append(cut.succ[c], m) ELSE cut.succ[c]
      BY <1>1, <2>1
    <2>3. \A c \in AllBlocks : pred3[c] = IF c = m THEN Append(cut.pred[c], p) ELSE cut.pred[c]
      BY <1>1, <2>1
    <2>4. \A list \in Seq(AllBlocks), x \in AllBlocks : /\ Append(list, x) \in Seq(AllBlocks)
                                                     /\ ToSet(Append(list, x)) = ToSet(list) \cup {x}
      BY ListWith
    <2>5. succ3 = [c \in AllBlocks |-> succ3[c]] /\ pred3 = [c \in AllBlocks |-> pred3[c]]
      BY <2>1
    <2> HIDE DEF succ3, pred3
    <2>6. \A c \in AllBlocks : /\ succ3[c] \in Seq(AllBlocks)
                              /\ ToSet(succ3[c]) = ToSet(cut.succ[c]) \cup (IF c = p THEN {m} ELSE {})
      <3> SUFFICES ASSUME NEW c \in AllBlocks
                   PROVE  /\ succ3[c] \in Seq(AllBlocks)
                          /\ ToSet(succ3[c]) = ToSet(cut.succ[c]) \cup (IF c = p THEN {m} ELSE {})
        OBVIOUS
      <3>1. cut.succ[c] \in Seq(AllBlocks)
        BY <2>1
      <3>2. /\ Append(cut.succ[c], m) \in Seq(AllBlocks)
            /\ ToSet(Append(cut.succ[c], m)) = ToSet(cut.succ[c]) \cup {m}
        BY <1>1, <2>4, <3>1
      <3> QED BY <2>2, <3>1, <3>2
    <2>7. \A c \in AllBlocks : /\ pred3[c] \in Seq(AllBlocks)
                              /\ ToSet(pred3[c]) = ToSet(cut.pred[c]) \cup (IF c = m THEN {p} ELSE {})
      <3> SUFFICES ASSUME NEW c \in AllBlocks
                   PROVE  /\ pred3[c] \in Seq(AllBlocks)
                          /\ ToSet(pred3[c]) = ToSet(cut.pred[c]) \cup (IF c = m THEN {p} ELSE {})
        OBVIOUS
      <3>1. cut.pred[c] \in Seq(AllBlocks)
        BY <2>1
      <3>2. /\ Append(cut.pred[c], p) \in Seq(AllBlocks)
            /\ ToSet(Append(cut.pred[c], p)) = ToSet(cut.pred[c]) \cup {p}
        BY <1>1, <2>4, <3>1
      <3> QED BY <2>3, <3>1, <3>2
    <2>8. succ3 \in [AllBlocks -> Seq(AllBlocks)] /\ pred3 \in [AllBlocks -> Seq(AllBlocks)]
      BY <2>5, <2>6, <2>7
    <2> QED BY <2>6, <2>7, <2>8
  <1>9. /\ SameBlocks(g3, cut) /\ g3.succ = succ3 /\ g3.pred = pred3 /\ g3.term = cut.term
    <2>1. g3 = [cut EXCEPT !.succ = succ3, !.pred = pred3]
      OBVIOUS
    <2> HIDE DEF succ3, pred3, g3
    <2>2. succ3 \in [AllBlocks -> Seq(AllBlocks)] /\ pred3 \in [AllBlocks -> Seq(AllBlocks)] /\ IsFunction(cut)
      BY <1>7, <1>8
    <2>3. cut = [blocks |-> cut.blocks, succ |-> cut.succ, pred |-> cut.pred, term |-> cut.term,
                 phis |-> cut.phis, body |-> cut.body]
      BY <1>7, RecordOf
    <2>4. g3 = [blocks |-> cut.blocks, succ |-> succ3, pred |-> pred3, term |-> cut.term,
                phis |-> cut.phis, body |-> cut.body]
      BY <2>1, <2>3
    <2>5. IsFunction([blocks |-> cut.blocks, succ |-> succ3, pred |-> pred3, term |-> cut.term,
                phis |-> cut.phis, body |-> cut.body])
      BY <2>2, FunctionBy DEF IsFunction
    <2> QED BY <2>4, <2>5 DEF SameBlocks
  <1> HIDE DEF succ3, pred3, g3
  <1>10. IsTerminator(Br(s)) /\ Br(s).to = <<s>> /\ ToSet(Br(s).to) = {s}
    BY <1>1, Terminators DEF Ends, Br
  <1>11. EndsIn(h, g3, m, Br(s))
    BY <1>1, <1>9, <1>10, TerminateGraph DEF SameBlocks
  <1> HIDE DEF h
  <1>12. CutIn(h, g, p, s, m)
    <2>1. \A c \in AllBlocks : h.term[c] = IF c = m THEN Br(s) ELSE terms[c]
      BY <1>7, <1>9, <1>11 DEF EndsIn
    <2>2. IsFunction(h) /\ h.blocks = g.blocks \o <<m>>
      BY <1>7, <1>9, <1>11 DEF EndsIn, SameBlocks
    <2>3. \A c \in AllBlocks \ {p, m} : h.term[c] = g.term[c]
      BY <1>4, <2>1
    <2>4. h.term[p] = terms[p] /\ h.term[m] = Br(s)
      BY <1>1, <2>1
    <2>5. /\ h.term[p].op = g.term[p].op
          /\ h.term[p].to = [i \in DOMAIN g.term[p].to |-> IF g.term[p].to[i] = s THEN m ELSE g.term[p].to[i]]
          /\ ToSet(h.term[p].to) = (ToSet(g.term[p].to) \ {s}) \cup {m}
      BY <1>2, <1>4, <2>4 DEF Retargeted
    <2>8. \A c \in AllBlocks : ToSet(h.succ[c]) = IF c = m THEN ToSet(g3.succ[c]) \cup {s} ELSE ToSet(g3.succ[c])
      BY <1>10, <1>11 DEF EndsIn
    <2>9. \A c \in AllBlocks : ToSet(g3.succ[c]) = IF c = p THEN (ToSet(g.succ[c]) \ {s}) \cup {m} ELSE ToSet(g.succ[c])
      <3>1. \A c \in AllBlocks : ToSet(g3.succ[c]) = ToSet(cut.succ[c]) \cup (IF c = p THEN {m} ELSE {})
        BY <1>8, <1>9
      <3>2. \A c \in AllBlocks : ToSet(cut.succ[c]) = IF c = p THEN ToSet(g.succ[c]) \ {s} ELSE ToSet(g.succ[c])
        BY <1>7
      <3> QED BY <3>1, <3>2
    <2>6. \A c \in AllBlocks : ToSet(h.succ[c]) = IF c = p THEN (ToSet(g.succ[c]) \ {s}) \cup {m}
                              ELSE IF c = m THEN ToSet(g.succ[c]) \cup {s} ELSE ToSet(g.succ[c])
      BY <1>1, <2>8, <2>9
    <2>7. \A c \in AllBlocks : ToSet(h.pred[c]) = (IF c = s THEN (ToSet(g.pred[c]) \ {p}) \cup {m} ELSE ToSet(g.pred[c]))
                              \cup (IF c = m THEN {p} ELSE {})
      BY <1>1, <1>7, <1>8, <1>9, <1>10, <1>11 DEF EndsIn
    <2> HIDE DEF to
    <2> QED BY <2>2, <2>3, <2>4, <2>5, <2>6, <2>7 DEF CutIn
  <1>13. h.phis = g.phis
    BY <1>7, <1>9, <1>11 DEF EndsIn, SameBlocks
  <1>14. h = WithMiddle(CreateBlocks(g, 1), p, s, m)
    <2>1. at = IF g1.term[p].to[1] = s THEN 1 ELSE 2
      BY <1>15 DEF at
    <2> HIDE DEF at, to
    <2> QED BY <2>1 DEF WithMiddle, h, g3, cut, g2, g1
  <1> QED BY <1>12, <1>13, <1>14

(* What RewritePhiPredecessors does to a phi, and to the function. *)
Moved(psi, phi, p, m) ==
    psi = [phi EXCEPT !.inc = [k \in DOMAIN phi.inc |->
            [phi.inc[k] EXCEPT !.from = IF phi.inc[k].from = p THEN m ELSE phi.inc[k].from]]]

LEMMA MovedPhi ==
  ASSUME NEW phi, IsPhi(phi), NEW p, NEW m, NEW psi, Moved(psi, phi, p, m)
  PROVE  /\ IsPhi(psi) /\ DOMAIN psi.inc = DOMAIN phi.inc
         /\ \A k \in DOMAIN phi.inc : psi.inc[k].from = IF phi.inc[k].from = p THEN m ELSE phi.inc[k].from
  <1> DEFINE inc == phi.inc
             x(k) == IF inc[k].from = p THEN m ELSE inc[k].from
             pair(k) == [inc[k] EXCEPT !.from = x(k)]
             new_inc == [k \in DOMAIN inc |-> pair(k)]
  <1>1. psi = [phi EXCEPT !.inc = new_inc]
    BY DEF Moved
  <1>2. {"var", "inc"} \subseteq DOMAIN phi /\ IsList(inc)
        /\ \A k \in DOMAIN inc : inc[k] = [val |-> inc[k].val, from |-> inc[k].from]
    BY DEF IsPhi
  <1> HIDE DEF new_inc
  <1>3. psi.inc = new_inc /\ DOMAIN psi = DOMAIN phi
    BY <1>1, <1>2
  <1>4. DOMAIN new_inc = DOMAIN inc /\ \A k \in DOMAIN inc : new_inc[k] = pair(k)
    BY DEF new_inc
  <1> HIDE DEF inc, x
  <1>5. ASSUME NEW k \in DOMAIN inc
        PROVE  pair(k) = [val |-> inc[k].val, from |-> x(k)]
    <2> DEFINE y == x(k)
               z == inc[k]
    <2>1. z = [val |-> z.val, from |-> z.from]
      BY <1>2
    <2> HIDE DEF z, y
    <2>2. [z EXCEPT !.from = y] = [val |-> z.val, from |-> y]
      BY <2>1
    <2> QED BY <2>2 DEF y, z
  <1> HIDE DEF pair
  <1>6. \A k \in DOMAIN inc : new_inc[k] = [val |-> new_inc[k].val, from |-> new_inc[k].from]
                              /\ new_inc[k].from = x(k)
    BY <1>4, <1>5
  <1>7. IsList(new_inc)
    <2>1. Len(inc) \in Nat /\ DOMAIN inc = 1 .. Len(inc)
      BY <1>2, ListFacts
    <2>2. new_inc = [k \in 1 .. Len(inc) |-> new_inc[k]]
      BY <2>1 DEF new_inc
    <2> QED BY <2>1, <2>2, ListOf
  <1>8. IsPhi(psi)
    BY <1>2, <1>3, <1>4, <1>6, <1>7 DEF IsPhi
  <1> QED BY <1>3, <1>4, <1>6, <1>8 DEF inc, x

PhisFormed(g) == \A b \in AllBlocks : \A i \in DOMAIN g.phis[b] : IsPhi(g.phis[b][i])

LEMMA RewriteFacts ==
  ASSUME NEW h, IsFunction(h), PhisFormed(h), NEW s \in AllBlocks, NEW p, NEW m,
         NEW k, k = RewritePhiPredecessors(h, s, p, m)
  PROVE  /\ SameGraph(h, k) /\ PhisFormed(k)
         /\ \A c \in AllBlocks \ {s} : k.phis[c] = h.phis[c]
         /\ DOMAIN k.phis[s] = DOMAIN h.phis[s]
         /\ \A i \in DOMAIN h.phis[s] : Moved(k.phis[s][i], h.phis[s][i], p, m)
  <1> DEFINE moved(pair) == [pair EXCEPT !.from = IF pair.from = p THEN m ELSE pair.from]
             rewritten(phi) == [phi EXCEPT !.inc = [j \in DOMAIN phi.inc |-> moved(phi.inc[j])]]
             list == [i \in DOMAIN h.phis[s] |-> rewritten(h.phis[s][i])]
  <1>1. k = [h EXCEPT !.phis[s] = list]
    BY DEF RewritePhiPredecessors
  <1>2. DOMAIN list = DOMAIN h.phis[s] /\ \A i \in DOMAIN h.phis[s] : Moved(list[i], h.phis[s][i], p, m)
    BY DEF Moved
  <1>3. IsList(list)
    <2>1. IsList(h.phis[s])
      BY DEF IsFunction
    <2>2. Len(h.phis[s]) \in Nat /\ DOMAIN h.phis[s] = 1 .. Len(h.phis[s])
      BY <2>1, ListFacts
    <2>3. list = [i \in 1 .. Len(h.phis[s]) |-> list[i]]
      BY <2>2
    <2> HIDE DEF list
    <2> QED BY <2>2, <2>3, ListOf
  <1> HIDE DEF list
  <1>4. SameGraph(h, k)
    BY <1>1, <1>3, OnePhis
  <1>5. k.phis = [c \in AllBlocks |-> IF c = s THEN list ELSE h.phis[c]]
    <2>1. h = [blocks |-> h.blocks, succ |-> h.succ, pred |-> h.pred, term |-> h.term,
               phis |-> h.phis, body |-> h.body]
      BY RecordOf
    <2>2. k.phis = [h.phis EXCEPT ![s] = list]
      BY <1>1, <2>1
    <2>3. h.phis = [c \in AllBlocks |-> h.phis[c]]
      BY DEF IsFunction
    <2> QED BY <2>2, <2>3
  <1>6. k.phis[s] = list /\ \A c \in AllBlocks \ {s} : k.phis[c] = h.phis[c]
    BY <1>5
  <1>7. PhisFormed(k)
    <2> SUFFICES ASSUME NEW b \in AllBlocks, NEW i \in DOMAIN k.phis[b] PROVE IsPhi(k.phis[b][i])
      BY DEF PhisFormed
    <2>1. CASE b # s
      BY <1>6, <2>1 DEF PhisFormed
    <2>2. CASE b = s
      <3>1. i \in DOMAIN h.phis[s] /\ k.phis[b][i] = list[i]
        BY <1>2, <1>6, <2>2
      <3>2. IsPhi(h.phis[s][i]) /\ Moved(list[i], h.phis[s][i], p, m)
        BY <1>2, <3>1 DEF PhisFormed
      <3> QED BY <3>1, <3>2, MovedPhi
    <2> QED BY <2>1, <2>2
  <1> QED BY <1>2, <1>4, <1>6, <1>7

LEMMA TwoIn ==
  ASSUME NEW S, IsFiniteSet(S)
  PROVE  Cardinality(S) > 1 <=> \E x, y \in S : x # y
  <1>1. Cardinality(S) \in Nat
    BY FS_CardinalityType
  <1>2. CASE \E x, y \in S : x # y
    <2>1. PICK x \in S, y \in S : x # y
      BY <1>2
    <2>2. IsFiniteSet(S \ {x}) /\ Cardinality(S \ {x}) = Cardinality(S) - 1
      BY FS_RemoveElement
    <2> DEFINE T == S \ {x}
    <2>3. T # {} /\ IsFiniteSet(T)
      BY <2>1, <2>2
    <2> HIDE DEF T
    <2>4. Cardinality(T) \in Nat /\ Cardinality(T) # 0
      BY <2>3, FS_CardinalityType, FS_EmptySet
    <2> QED BY <1>1, <1>2, <2>2, <2>4 DEF T
  <1>3. CASE ~ \E x, y \in S : x # y
    <2>1. CASE S = {}
      BY <1>3, <2>1, FS_EmptySet
    <2>2. CASE S # {}
      <3>1. PICK x : S = {x}
        BY <1>3, <2>2
      <3>2. Cardinality(S) = 1
        BY <3>1, FS_Singleton
      <3> QED BY <1>3, <3>2
    <2> QED BY <2>1, <2>2
  <1> QED BY <1>2, <1>3

LEMMA CutWired ==
  ASSUME NEW g, NEW p, NEW s, NEW m, MayCut(g, p, s, m), NEW h, CutIn(h, g, p, s, m)
  PROVE  Wired(h) /\ ToSet(h.blocks) = ToSet(g.blocks) \cup {m}
  <1> DEFINE blocks == ToSet(g.blocks)
             all == ToSet(h.blocks)
  <1>1. /\ Wired(g) /\ IsFunction(g) /\ p \in blocks /\ s \in blocks /\ m \in AllBlocks \ blocks
        /\ s \in ToSet(g.term[p].to) /\ blocks \subseteq AllBlocks
        /\ ToSet(g.succ[m]) = {} /\ ToSet(g.pred[m]) = {}
    <2>1. Wired(g) /\ IsFunction(g) /\ g.term[m].op = "none" /\ m \in AllBlocks
      <3>1. Wired(g) /\ g.term[m] = NoTerm /\ m \in AllBlocks
        BY DEF MayCut
      <3>2. IsFunction(g)
        BY <3>1 DEF Wired
      <3> QED BY <3>1, <3>2 DEF NoTerm
    <2>2. ToSet(g.succ[m]) = {} /\ ToSet(g.pred[m]) = {}
      BY <2>1 DEF Wired
    <2>3. blocks \subseteq AllBlocks
      BY <2>1, BlocksOf
    <2>4. p \in blocks /\ s \in blocks /\ m \notin blocks /\ s \in ToSet(g.term[p].to)
      BY DEF MayCut
    <2> QED BY <2>1, <2>2, <2>3, <2>4
  <1>2. all = blocks \cup {m} /\ IsInjective(h.blocks)
    <2>1. g.blocks \in Seq(AllBlocks) /\ IsInjective(g.blocks) /\ h.blocks = g.blocks \o <<m>>
      BY <1>1 DEF IsFunction, Wired, CutIn
    <2> DEFINE list == g.blocks
               n == Len(list)
               longer == list \o <<m>>
    <2>2. n \in Nat /\ DOMAIN list = 1 .. n /\ blocks = {list[i] : i \in 1 .. n}
      BY <2>1 DEF ToSet
    <2>3. /\ DOMAIN longer = 1 .. n + 1 /\ longer[n + 1] = m
          /\ \A i \in 1 .. n : longer[i] = list[i]
      BY <1>1, <2>1, <2>2
    <2>4. \A i \in 1 .. n : list[i] # m
      BY <1>1, <2>2
    <2>5. \A i, j \in 1 .. n : list[i] = list[j] => i = j
      BY <2>1, <2>2 DEF IsInjective
    <2>6. \A i \in 1 .. n + 1 : i \in 1 .. n \/ i = n + 1
      BY <2>2
    <2>7. 1 .. n \subseteq 1 .. n + 1 /\ n + 1 \in 1 .. n + 1
      BY <2>2
    <2>8. h.blocks = longer
      BY <2>1
    <2> HIDE DEF longer, n, list, blocks
    <2>9. IsInjective(longer)
      BY <2>3, <2>4, <2>5, <2>6 DEF IsInjective
    <2>10. ToSet(longer) = blocks \cup {m}
      BY <2>2, <2>3, <2>6, <2>7 DEF ToSet
    <2> QED BY <2>8, <2>9, <2>10
  <1>3. /\ IsFunction(h)
        /\ \A c \in AllBlocks \ {p, m} : h.term[c] = g.term[c]
        /\ h.term[p].op = g.term[p].op /\ ToSet(h.term[p].to) = (ToSet(g.term[p].to) \ {s}) \cup {m}
        /\ h.term[m].op = "br" /\ ToSet(h.term[m].to) = {s}
        /\ \A c \in AllBlocks :
            /\ ToSet(h.succ[c]) = IF c = p THEN (ToSet(g.succ[c]) \ {s}) \cup {m}
                                  ELSE IF c = m THEN ToSet(g.succ[c]) \cup {s} ELSE ToSet(g.succ[c])
            /\ ToSet(h.pred[c]) = (IF c = s THEN (ToSet(g.pred[c]) \ {p}) \cup {m} ELSE ToSet(g.pred[c]))
                                  \cup (IF c = m THEN {p} ELSE {})
    <2>1. s \in AllBlocks /\ h.term[m] = Br(s)
      BY <1>1 DEF CutIn
    <2>2. Br(s).op = "br"
      BY DEF Br
    <2>3. ToSet(Br(s).to) = {s}
      BY <2>1, Terminators
    <2> QED BY <2>1, <2>2, <2>3 DEF CutIn
  <1>4. /\ \A b \in blocks :
            /\ g.term[b].op # "none"
            /\ ToSet(g.term[b].to) \subseteq blocks
            /\ ToSet(g.succ[b]) = ToSet(g.term[b].to)
            /\ ToSet(g.pred[b]) = {q \in blocks : b \in ToSet(g.term[q].to)}
        /\ \A b \in AllBlocks : g.term[b].op = "none" => ToSet(g.succ[b]) = {} /\ ToSet(g.pred[b]) = {}
        /\ Entry \in blocks
    BY <1>1 DEF Wired
  <1> HIDE DEF blocks, all
  <1>5. \A b \in blocks : b \in AllBlocks /\ b # m
    BY <1>1
  <1>6. ASSUME NEW b \in all
        PROVE  /\ h.term[b].op # "none" /\ ToSet(h.term[b].to) \subseteq all
               /\ ToSet(h.succ[b]) = ToSet(h.term[b].to)
    <2>1. CASE b = m
      BY <1>1, <1>2, <1>3, <1>5, <2>1
    <2>2. CASE b = p
      BY <1>1, <1>2, <1>3, <1>4, <1>5, <2>2
    <2>3. CASE b # m /\ b # p
      <3>1. b \in blocks /\ b \in AllBlocks \ {p, m}
        BY <1>2, <1>5, <2>3
      <3>2. h.term[b] = g.term[b] /\ ToSet(h.succ[b]) = ToSet(g.succ[b])
        BY <1>3, <2>3, <3>1
      <3> QED BY <1>2, <1>4, <3>1, <3>2
    <2> QED BY <2>1, <2>2, <2>3
  <1>7. ASSUME NEW b \in all
        PROVE  ToSet(h.pred[b]) = {q \in all : b \in ToSet(h.term[q].to)}
    <2>1. \A q \in blocks : b \in ToSet(h.term[q].to)
            <=> IF q = p THEN (b \in ToSet(g.term[q].to) /\ b # s) \/ b = m ELSE b \in ToSet(g.term[q].to)
      BY <1>3, <1>5
    <2>2. b \in ToSet(h.term[m].to) <=> b = s
      BY <1>3
    <2>3. b \in AllBlocks
      BY <1>1, <1>2
    <2>4. CASE b = m
      <3>1. ToSet(h.pred[b]) = {p}
        BY <1>1, <1>3, <2>3, <2>4
      <3>2. \A q \in blocks : b \notin ToSet(g.term[q].to)
        BY <1>4, <1>5, <2>4
      <3>3. \A q \in all : b \in ToSet(h.term[q].to) <=> q = p
        BY <1>1, <1>2, <1>5, <2>1, <2>2, <2>4, <3>2
      <3> QED BY <1>1, <1>2, <3>1, <3>3
    <2>5. CASE b # m
      <3>1. b \in blocks
        BY <1>2, <2>5
      <3>2. ToSet(g.pred[b]) = {q \in blocks : b \in ToSet(g.term[q].to)}
        BY <1>4, <3>1
      <3>3. ToSet(h.pred[b]) = IF b = s THEN (ToSet(g.pred[b]) \ {p}) \cup {m} ELSE ToSet(g.pred[b])
        BY <1>3, <2>3, <2>5
      <3>4. \A q : q \in ToSet(h.pred[b]) <=> q \in all /\ b \in ToSet(h.term[q].to)
        BY <1>1, <1>2, <1>5, <2>1, <2>2, <2>5, <3>2, <3>3
      <3> QED BY <3>4
    <2> QED BY <2>4, <2>5
  <1>8. ASSUME NEW b \in AllBlocks, h.term[b].op = "none"
        PROVE  ToSet(h.succ[b]) = {} /\ ToSet(h.pred[b]) = {}
    <2>1. b # m /\ b # p
      BY <1>1, <1>3, <1>4, <1>8
    <2>2. g.term[b].op = "none"
      BY <1>3, <1>8, <2>1
    <2>3. b # s
      BY <1>1, <1>4, <2>2
    <2> QED BY <1>3, <1>4, <2>1, <2>2, <2>3
  <1>9. Wired(h)
    BY <1>2, <1>3, <1>4, <1>6, <1>7, <1>8 DEF Wired, all
  <1> QED BY <1>2, <1>9 DEF blocks, all

(* A branch that leaves b for two blocks, and a block that two branches      *)
(* reach.                                                                   *)
Forks(g, b) == \E x, y \in ToSet(g.succ[b]) : x # y
Joins(g, b) == \E x, y \in ToSet(g.pred[b]) : x # y

(* The phis of a function, and those of a block that is none yet. *)
PhisInOrder(g) ==
    /\ PhisFormed(g) /\ PhisMatchPredecessors(g)
    /\ \A b \in AllBlocks : g.term[b].op = "none" => g.phis[b] = <<>>

(* The edges that wait to be split are branches to two blocks, and among     *)
(* them are all that are critical.                                          *)
WaitingEdges(g, edges) ==
    /\ edges \in Seq(AllBlocks \X AllBlocks) /\ IsInjective(edges)
    /\ \A e \in ToSet(edges) :
        /\ e[1] \in ToSet(g.blocks) /\ e[2] \in ToSet(g.term[e[1]].to)
        /\ Len(g.term[e[1]].to) = 2 /\ g.term[e[1]].to[1] # g.term[e[1]].to[2]
    /\ \A b \in ToSet(g.blocks) : \A t \in ToSet(g.succ[b]) :
        Forks(g, b) /\ Joins(g, t) => <<b, t>> \in ToSet(edges)

SplitInv ==
    /\ split = [phase |-> split.phase, edges |-> split.edges]
    /\ Wired(ir) /\ PhisInOrder(ir)
    /\ split.phase = "split" => WaitingEdges(ir, split.edges)

SplitSpec ==
    Wired(ir) /\ PhisInOrder(ir) /\ split = SplitStart /\ [][SplitStep]_<<ir, split>>

LEMMA CriticalEdge ==
  ASSUME NEW g, IsFunction(g), NEW b \in AllBlocks, NEW t \in AllBlocks
  PROVE  IsCritical(g, b, t) <=> Forks(g, b) /\ Joins(g, t)
  <1> DEFINE S == ToSet(g.succ[b])
             P == ToSet(g.pred[t])
  <1>1. IsFiniteSet(AllBlocks) /\ S \subseteq AllBlocks /\ P \subseteq AllBlocks
    BY BlocksOf, BuilderAssumption, FS_Interval DEF AllBlocks
  <1>2. IsFiniteSet(S) /\ IsFiniteSet(P)
    BY <1>1, FS_Subset
  <1> HIDE DEF S, P
  <1>3. /\ Cardinality(S) > 1 <=> \E x, y \in S : x # y
        /\ Cardinality(P) > 1 <=> \E x, y \in P : x # y
    BY <1>2, TwoIn
  <1> QED BY <1>3 DEF IsCritical, Forks, Joins, S, P

(* What is collected at one block. *)
LEMMA CriticalIntoFacts ==
  ASSUME Wired(ir), NEW t \in Blocks
  PROVE  /\ CriticalInto(t) \in Seq(AllBlocks \X AllBlocks) /\ IsInjective(CriticalInto(t))
         /\ \A e : e \in ToSet(CriticalInto(t))
                <=> \E q \in ToSet(ir.pred[t]) : e = <<q, t>> /\ Forks(ir, q) /\ Joins(ir, t)
  <1> DEFINE preds == Unique(ir.pred[t])
             at == {i \in DOMAIN preds : Len(Unique(ir.succ[preds[i]])) > 1}
             several == Kept(preds, at)
             list == [i \in DOMAIN several |-> <<several[i], t>>]
  <1>1. t \in AllBlocks /\ IsFunction(ir)
    BY BlocksOf DEF Wired, Blocks
  <1>2. \A b \in AllBlocks : ir.pred[b] \in Seq(AllBlocks) /\ ir.succ[b] \in Seq(AllBlocks)
    BY <1>1 DEF IsFunction
  <1>3. /\ preds \in Seq(AllBlocks) /\ ToSet(preds) = ToSet(ir.pred[t]) /\ IsInjective(preds)
        /\ IsFiniteSet(ToSet(ir.pred[t])) /\ Len(preds) = Cardinality(ToSet(ir.pred[t]))
    BY <1>1, <1>2, UniqueFacts
  <1>4. Joins(ir, t) <=> Len(preds) > 1
    <2> DEFINE P == ToSet(ir.pred[t])
    <2>1. IsFiniteSet(P) /\ Len(preds) = Cardinality(P)
      BY <1>3
    <2>2. Joins(ir, t) <=> \E x, y \in P : x # y
      BY DEF Joins
    <2> HIDE DEF P, preds
    <2> QED BY <2>1, <2>2, TwoIn
  <1>5. ASSUME NEW b \in AllBlocks
        PROVE  Forks(ir, b) <=> Len(Unique(ir.succ[b])) > 1
    <2> DEFINE S == ToSet(ir.succ[b])
               u == Unique(ir.succ[b])
    <2>1. IsFiniteSet(S) /\ Len(u) = Cardinality(S)
      BY <1>2, UniqueFacts
    <2>2. Forks(ir, b) <=> \E x, y \in S : x # y
      BY DEF Forks
    <2> HIDE DEF S, u
    <2>3. Forks(ir, b) <=> Len(u) > 1
      BY <2>1, <2>2, TwoIn
    <2> QED BY <2>3 DEF u
  <1>6. Len(preds) \in Nat /\ DOMAIN preds = 1 .. Len(preds) /\ \A i \in DOMAIN preds : preds[i] \in AllBlocks
    BY <1>3
  <1> HIDE DEF preds
  <1>7. at \subseteq DOMAIN preds /\ \A i \in DOMAIN preds : i \in at <=> Forks(ir, preds[i])
    BY <1>5, <1>6
  <1> HIDE DEF at
  <1>8. /\ several \in Seq(AllBlocks) /\ IsInjective(several)
        /\ ToSet(several) = {preds[i] : i \in DOMAIN preds \cap at}
    BY <1>3, KeptFacts
  <1>9. Len(several) \in Nat /\ DOMAIN several = 1 .. Len(several)
        /\ \A i \in DOMAIN several : several[i] \in AllBlocks
    BY <1>8
  <1>10. \A q : q \in ToSet(several) <=> q \in ToSet(ir.pred[t]) /\ Forks(ir, q)
    <2>1. ToSet(preds) = {preds[i] : i \in DOMAIN preds}
      BY DEF ToSet
    <2> QED BY <1>3, <1>7, <1>8, <2>1
  <1>11. CriticalInto(t) = IF Len(preds) < 2 THEN <<>> ELSE list
    BY DEF CriticalInto, preds, at
  <1>12. CASE Len(preds) < 2
    <2>1. CriticalInto(t) = <<>> /\ ~Joins(ir, t)
      BY <1>4, <1>6, <1>11, <1>12
    <2>2. <<>> \in Seq(AllBlocks \X AllBlocks) /\ IsInjective(<<>>) /\ ToSet(<<>>) = {}
      BY DEF IsInjective, ToSet
    <2> QED BY <2>1, <2>2
  <1>13. CASE ~(Len(preds) < 2)
    <2>1. CriticalInto(t) = list /\ Joins(ir, t)
      BY <1>4, <1>6, <1>11, <1>13
    <2>2. DOMAIN list = DOMAIN several /\ \A i \in DOMAIN several : list[i] = <<several[i], t>>
      OBVIOUS
    <2>3. list \in Seq(AllBlocks \X AllBlocks)
      BY <1>1, <1>9
    <2>4. IsInjective(list)
      <3> HIDE DEF several, list
      <3> QED BY <1>8, <2>2 DEF IsInjective
    <2>5. ToSet(list) = {<<several[i], t>> : i \in DOMAIN several}
      BY DEF ToSet
    <2>6. ToSet(several) = {several[i] : i \in DOMAIN several}
      BY DEF ToSet
    <2> HIDE DEF several, list
    <2>7. \A e : e \in ToSet(list) <=> \E q \in ToSet(several) : e = <<q, t>>
      BY <2>5, <2>6
    <2> QED BY <1>10, <2>1, <2>3, <2>4, <2>7
  <1> QED BY <1>12, <1>13

LEMMA CollectKeeps ==
  ASSUME SplitInv, CollectCriticalEdges
  PROVE  SplitInv'
  <1> DEFINE n == Len(ir.blocks)
             seqs == [i \in DOMAIN ir.blocks |-> CriticalInto(ir.blocks[i])]
             edges == FlattenSeq(seqs)
             Pairs == AllBlocks \X AllBlocks
  <1>1. /\ Wired(ir) /\ PhisInOrder(ir) /\ ir' = ir /\ IsFunction(ir)
        /\ split' = [phase |-> "split", edges |-> edges]
    BY DEF SplitInv, CollectCriticalEdges, Wired
  <1>2. /\ n \in Nat /\ DOMAIN ir.blocks = 1 .. n /\ Blocks = {ir.blocks[i] : i \in 1 .. n}
        /\ \A i, j \in 1 .. n : ir.blocks[i] = ir.blocks[j] => i = j
    <2>1. ir.blocks \in Seq(AllBlocks) /\ IsInjective(ir.blocks)
      BY <1>1 DEF IsFunction, Wired
    <2> QED BY <2>1 DEF IsInjective, Blocks, ToSet
  <1>3. ASSUME NEW i \in 1 .. n
        PROVE  /\ seqs[i] \in Seq(Pairs) /\ IsInjective(seqs[i])
               /\ \A e : e \in ToSet(seqs[i])
                    <=> \E q \in ToSet(ir.pred[ir.blocks[i]]) :
                            e = <<q, ir.blocks[i]>> /\ Forks(ir, q) /\ Joins(ir, ir.blocks[i])
    <2> DEFINE t == ir.blocks[i]
    <2>1. t \in Blocks
      BY <1>2
    <2>2. seqs[i] = CriticalInto(t)
      BY <1>2
    <2> HIDE DEF t, seqs, Pairs
    <2>3. /\ CriticalInto(t) \in Seq(AllBlocks \X AllBlocks) /\ IsInjective(CriticalInto(t))
          /\ \A e : e \in ToSet(CriticalInto(t))
                <=> \E q \in ToSet(ir.pred[t]) : e = <<q, t>> /\ Forks(ir, q) /\ Joins(ir, t)
      BY <1>1, <2>1, CriticalIntoFacts
    <2> QED BY <2>2, <2>3 DEF t, Pairs
  <1>4. DOMAIN seqs = 1 .. n /\ seqs \in Seq(Seq(Pairs))
    <2>1. DOMAIN seqs = 1 .. n /\ seqs = [i \in 1 .. n |-> seqs[i]]
      BY <1>2
    <2> HIDE DEF seqs, Pairs, n
    <2> QED BY <1>2, <1>3, <2>1
  <1> HIDE DEF seqs, n, Pairs
  <1>5. \A i \in 1 .. n : \A e \in ToSet(seqs[i]) : e[2] = ir.blocks[i]
    BY <1>3
  <1>6. /\ edges \in Seq(Pairs) /\ IsInjective(edges)
        /\ \A e : e \in ToSet(edges) <=> \E i \in 1 .. n : e \in ToSet(seqs[i])
    <2>1. /\ edges \in Seq(Pairs)
          /\ ToSet(edges) = {e \in Pairs : \E i \in DOMAIN seqs : e \in ToSet(seqs[i])}
          /\ ( /\ \A i \in DOMAIN seqs : IsInjective(seqs[i])
               /\ \A i, j \in DOMAIN seqs : \A x \in ToSet(seqs[i]) \cap ToSet(seqs[j]) : i = j )
             => IsInjective(edges)
      BY <1>4, FlattenFacts
    <2>2. \A i, j \in 1 .. n : \A x \in ToSet(seqs[i]) \cap ToSet(seqs[j]) : i = j
      BY <1>2, <1>5
    <2>3. \A i \in 1 .. n : \A e \in ToSet(seqs[i]) : e \in Pairs
      <3> TAKE i \in 1 .. n
      <3>1. seqs[i] \in Seq(Pairs)
        BY <1>3
      <3> QED BY <3>1 DEF ToSet
    <2> QED BY <1>3, <1>4, <2>1, <2>2, <2>3
  <1> HIDE DEF edges
  <1>7. \A e : e \in ToSet(edges)
            <=> \E t \in Blocks : \E q \in ToSet(ir.pred[t]) : e = <<q, t>> /\ Forks(ir, q) /\ Joins(ir, t)
    <2>1. \A e : e \in ToSet(edges) <=> \E i \in 1 .. n : \E q \in ToSet(ir.pred[ir.blocks[i]]) :
                            e = <<q, ir.blocks[i]>> /\ Forks(ir, q) /\ Joins(ir, ir.blocks[i])
      BY <1>3, <1>6
    <2> QED BY <1>2, <2>1
  <1>8. ASSUME NEW e \in ToSet(edges)
        PROVE  /\ e[1] \in Blocks /\ e[2] \in ToSet(ir.term[e[1]].to)
               /\ Len(ir.term[e[1]].to) = 2 /\ ir.term[e[1]].to[1] # ir.term[e[1]].to[2]
    <2>1. PICK t \in Blocks : \E q \in ToSet(ir.pred[t]) : e = <<q, t>> /\ Forks(ir, q)
      BY <1>7
    <2>2. PICK q \in ToSet(ir.pred[t]) : e = <<q, t>> /\ Forks(ir, q)
      BY <2>1
    <2>3. q \in Blocks /\ t \in ToSet(ir.term[q].to) /\ ToSet(ir.succ[q]) = ToSet(ir.term[q].to)
      BY <1>1 DEF Wired, Blocks
    <2> DEFINE to == ir.term[q].to
    <2>4. to \in Seq(AllBlocks) /\ Len(to) <= 2
      BY <1>1, <2>3, BlocksOf DEF IsFunction, IsTerminator, Blocks
    <2>5. PICK x \in ToSet(to), y \in ToSet(to) : x # y
      BY <2>2, <2>3 DEF Forks
    <2> HIDE DEF to
    <2>6. Len(to) = 2 /\ to[1] # to[2]
      <3>1. DOMAIN to = 1 .. Len(to) /\ Len(to) \in Nat
        BY <2>4
      <3>2. PICK i \in DOMAIN to, j \in DOMAIN to : x = to[i] /\ y = to[j]
        BY DEF ToSet
      <3>3. i # j /\ i \in 1 .. 2 /\ j \in 1 .. 2
        BY <2>4, <2>5, <3>1, <3>2
      <3>4. (i = 1 /\ j = 2) \/ (i = 2 /\ j = 1)
        BY <3>3
      <3> QED BY <2>4, <2>5, <3>1, <3>2, <3>4
    <2> QED BY <2>2, <2>3, <2>6 DEF to
  <1>9. ASSUME NEW b \in Blocks, NEW t \in ToSet(ir.succ[b]), Forks(ir, b), Joins(ir, t)
        PROVE  <<b, t>> \in ToSet(edges)
    <2>1. t \in Blocks /\ b \in ToSet(ir.pred[t])
      BY <1>1 DEF Wired, Blocks
    <2> QED BY <1>7, <1>9, <2>1
  <1>10. WaitingEdges(ir, edges)
    BY <1>6, <1>8, <1>9 DEF WaitingEdges, Pairs, Blocks
  <1>11. split'.edges = edges /\ split' = [phase |-> split'.phase, edges |-> split'.edges]
    BY <1>1
  <1> QED BY <1>1, <1>10, <1>11 DEF SplitInv

(* The phis after one edge: those of s name m for p, m has none. *)
LEMMA CutPhis ==
  ASSUME NEW g, NEW p, NEW s, NEW m, MayCut(g, p, s, m), PhisInOrder(g),
         NEW h, CutIn(h, g, p, s, m), h.phis = g.phis,
         NEW k, k = RewritePhiPredecessors(h, s, p, m)
  PROVE  SameGraph(h, k) /\ PhisInOrder(k)
  <1>1. /\ Wired(g) /\ IsFunction(g) /\ p \in ToSet(g.blocks) /\ s \in ToSet(g.blocks)
        /\ m \in AllBlocks \ ToSet(g.blocks) /\ ToSet(g.blocks) \subseteq AllBlocks
        /\ s \in ToSet(g.term[p].to) /\ g.term[m] = NoTerm
    BY BlocksOf DEF MayCut, Wired
  <1>2. IsFunction(h) /\ ToSet(h.blocks) = ToSet(g.blocks) \cup {m}
    BY CutWired DEF Wired
  <1>3. PhisFormed(h)
    BY DEF PhisInOrder, PhisFormed
  <1>4. /\ SameGraph(h, k) /\ PhisFormed(k)
        /\ \A c \in AllBlocks \ {s} : k.phis[c] = g.phis[c]
        /\ DOMAIN k.phis[s] = DOMAIN g.phis[s]
        /\ \A i \in DOMAIN g.phis[s] : Moved(k.phis[s][i], g.phis[s][i], p, m)
    BY <1>1, <1>2, <1>3, RewriteFacts
  <1>5. \A c \in AllBlocks : k.term[c].op = "none" => c # s /\ k.phis[c] = <<>>
    <2> TAKE c \in AllBlocks
    <2> HAVE k.term[c].op = "none"
    <2>1. h.term[c].op = "none"
      BY <1>4 DEF SameGraph
    <2>2. h.term[m].op = "br" /\ h.term[p].op = g.term[p].op /\ \A d \in AllBlocks \ {p, m} : h.term[d] = g.term[d]
      BY DEF CutIn, Br
    <2>3. \A d \in ToSet(g.blocks) : g.term[d].op # "none"
      BY <1>1 DEF Wired
    <2>4. g.term[c].op = "none" /\ c # s
      BY <1>1, <2>1, <2>2, <2>3
    <2> QED BY <1>4, <2>4 DEF PhisInOrder
  <1>6. g.phis[m] = <<>>
    BY <1>1 DEF PhisInOrder, NoTerm
  <1>7. ASSUME NEW c \in AllBlocks, c # s, c # m
        PROVE  ToSet(k.pred[c]) = ToSet(g.pred[c])
    BY <1>4, <1>7 DEF SameGraph, CutIn
  <1>8. ToSet(k.pred[s]) = (ToSet(g.pred[s]) \ {p}) \cup {m}
    BY <1>1, <1>4 DEF SameGraph, CutIn
  <1>9. \A b \in ToSet(g.blocks) : \A i \in DOMAIN g.phis[b] :
          /\ {g.phis[b][i].inc[j].from : j \in DOMAIN g.phis[b][i].inc} = ToSet(g.pred[b])
          /\ \A j, l \in DOMAIN g.phis[b][i].inc : g.phis[b][i].inc[j].from = g.phis[b][i].inc[l].from => j = l
    BY DEF PhisInOrder, PhisMatchPredecessors
  <1>10. ASSUME NEW i \in DOMAIN g.phis[s]
         PROVE  /\ {k.phis[s][i].inc[j].from : j \in DOMAIN k.phis[s][i].inc} = ToSet(k.pred[s])
                /\ \A j, l \in DOMAIN k.phis[s][i].inc : k.phis[s][i].inc[j].from = k.phis[s][i].inc[l].from => j = l
    <2> DEFINE phi == g.phis[s][i]
               psi == k.phis[s][i]
    <2>1. IsPhi(phi) /\ Moved(psi, phi, p, m)
      BY <1>1, <1>4 DEF PhisInOrder, PhisFormed
    <2>2. /\ {phi.inc[j].from : j \in DOMAIN phi.inc} = ToSet(g.pred[s])
          /\ \A j, l \in DOMAIN phi.inc : phi.inc[j].from = phi.inc[l].from => j = l
      BY <1>1, <1>9
    <2> HIDE DEF phi, psi
    <2>3. DOMAIN psi.inc = DOMAIN phi.inc
          /\ \A j \in DOMAIN phi.inc : psi.inc[j].from = IF phi.inc[j].from = p THEN m ELSE phi.inc[j].from
      BY <2>1, MovedPhi
    <2>4. p \in ToSet(g.pred[s]) /\ m \notin ToSet(g.pred[s])
      BY <1>1 DEF Wired
    <2>5. \A j \in DOMAIN phi.inc : phi.inc[j].from # m
      BY <2>2, <2>4
    <2>6. \A q : (\E j \in DOMAIN psi.inc : q = psi.inc[j].from) <=> q \in (ToSet(g.pred[s]) \ {p}) \cup {m}
      BY <2>2, <2>3, <2>4
    <2>7. {psi.inc[j].from : j \in DOMAIN psi.inc} = ToSet(k.pred[s])
      BY <1>8, <2>6
    <2>8. \A j, l \in DOMAIN psi.inc : psi.inc[j].from = psi.inc[l].from => j = l
      BY <2>2, <2>3, <2>5
    <2> QED BY <2>7, <2>8 DEF psi
  <1>11. PhisMatchPredecessors(k)
    <2> SUFFICES ASSUME NEW b \in ToSet(k.blocks), NEW i \in DOMAIN k.phis[b]
                 PROVE  /\ {k.phis[b][i].inc[j].from : j \in DOMAIN k.phis[b][i].inc} = ToSet(k.pred[b])
                        /\ \A j, l \in DOMAIN k.phis[b][i].inc :
                                k.phis[b][i].inc[j].from = k.phis[b][i].inc[l].from => j = l
      BY DEF PhisMatchPredecessors
    <2>1. b \in ToSet(g.blocks) \cup {m} /\ b \in AllBlocks
      BY <1>1, <1>2, <1>4 DEF SameGraph
    <2>2. CASE b = s
      <3> DEFINE Fits(c) ==
                   /\ {k.phis[c][i].inc[j].from : j \in DOMAIN k.phis[c][i].inc} = ToSet(k.pred[c])
                   /\ \A j, l \in DOMAIN k.phis[c][i].inc :
                         k.phis[c][i].inc[j].from = k.phis[c][i].inc[l].from => j = l
      <3>1. i \in DOMAIN g.phis[s]
        BY <1>4, <2>2
      <3>2. Fits(s)
        BY <1>10, <3>1
      <3> HIDE DEF Fits
      <3>3. Fits(b)
        BY <2>2, <3>2
      <3> QED BY <3>3 DEF Fits
    <2>3. b # m
      <3>1. k.phis[m] = <<>>
        BY <1>1, <1>4, <1>6
      <3>2. DOMAIN k.phis[m] = {}
        BY <3>1
      <3> QED BY <3>2
    <2>4. CASE b # s
      <3>1. k.phis[b] = g.phis[b] /\ b \in ToSet(g.blocks) /\ ToSet(k.pred[b]) = ToSet(g.pred[b])
        BY <1>4, <1>7, <2>1, <2>3, <2>4
      <3> DEFINE inc == g.phis[b][i].inc
      <3>2. i \in DOMAIN g.phis[b] /\ k.phis[b][i].inc = inc
        BY <3>1
      <3>3. /\ {inc[j].from : j \in DOMAIN inc} = ToSet(g.pred[b])
            /\ \A j, l \in DOMAIN inc : inc[j].from = inc[l].from => j = l
        BY <1>9, <3>1, <3>2
      <3> HIDE DEF inc
      <3> QED BY <3>1, <3>2, <3>3
    <2> QED BY <2>2, <2>4
  <1> QED BY <1>4, <1>5, <1>11 DEF PhisInOrder

LEMMA CutEdges ==
  ASSUME NEW g, NEW edges, Wired(g), WaitingEdges(g, edges), edges # <<>>,
         NEW p, NEW s, p = Head(edges)[1], s = Head(edges)[2],
         NEW m, m = Newest(g) + 1, m <= MaxBlocks,
         NEW h, MayCut(g, p, s, m) => CutIn(h, g, p, s, m)
  PROVE  MayCut(g, p, s, m) /\ CutIn(h, g, p, s, m) /\ WaitingEdges(h, Tail(edges))
  <1> DEFINE Pairs == AllBlocks \X AllBlocks
             first == Head(edges)
             rest == Tail(edges)
  <1>1. /\ first \in Pairs /\ rest \in Seq(Pairs) /\ IsInjective(rest)
        /\ ToSet(edges) = {first} \cup ToSet(rest) /\ first \notin ToSet(rest)
    <2>1. edges \in Seq(Pairs) /\ IsInjective(edges)
      BY DEF WaitingEdges
    <2> HIDE DEF Pairs
    <2> QED BY <2>1, Queue
  <1>2. first = <<p, s>>
    BY <1>1
  <1>3. \A e \in ToSet(edges) :
            /\ e[1] \in ToSet(g.blocks) /\ e[2] \in ToSet(g.term[e[1]].to)
            /\ Len(g.term[e[1]].to) = 2 /\ g.term[e[1]].to[1] # g.term[e[1]].to[2]
    BY DEF WaitingEdges
  <1>4. /\ p \in ToSet(g.blocks) /\ s \in ToSet(g.term[p].to)
        /\ Len(g.term[p].to) = 2 /\ g.term[p].to[1] # g.term[p].to[2]
    BY <1>1, <1>3
  <1>5. m \in AllBlocks /\ m \notin ToSet(g.blocks) /\ g.term[m] = NoTerm
    BY NextBlock
  <1>6. \A b \in ToSet(g.blocks) : /\ ToSet(g.term[b].to) \subseteq ToSet(g.blocks)
                                 /\ ToSet(g.succ[b]) = ToSet(g.term[b].to)
                                 /\ ToSet(g.pred[b]) = {q \in ToSet(g.blocks) : b \in ToSet(g.term[q].to)}
    BY DEF Wired
  <1>7. MayCut(g, p, s, m) /\ CutIn(h, g, p, s, m)
    BY <1>4, <1>5, <1>6 DEF MayCut
  <1>8. ToSet(h.blocks) = ToSet(g.blocks) \cup {m} /\ ToSet(g.blocks) \subseteq AllBlocks
    BY <1>7, CutWired, BlocksOf DEF Wired
  <1>9. ASSUME NEW e \in ToSet(rest)
        PROVE  /\ e[1] \in ToSet(h.blocks) /\ e[2] \in ToSet(h.term[e[1]].to)
               /\ Len(h.term[e[1]].to) = 2 /\ h.term[e[1]].to[1] # h.term[e[1]].to[2]
    <2>1. /\ e[1] \in ToSet(g.blocks) /\ e[2] \in ToSet(g.term[e[1]].to)
          /\ Len(g.term[e[1]].to) = 2 /\ g.term[e[1]].to[1] # g.term[e[1]].to[2]
      BY <1>1, <1>3
    <2>2. e # <<p, s>> /\ e \in Pairs
      <3>1. \A x \in ToSet(rest) : x \in Pairs
        BY <1>1 DEF ToSet
      <3> QED BY <1>1, <1>2, <3>1
    <2>3. e[1] # p \/ e[2] # s
      BY <2>2
    <2>4. CASE e[1] # p
      <3>1. e[1] \in AllBlocks \ {p, m}
        BY <1>5, <1>8, <2>1, <2>4
      <3>2. h.term[e[1]] = g.term[e[1]]
        BY <1>7, <3>1 DEF CutIn
      <3> QED BY <1>8, <2>1, <3>2
    <2>5. CASE e[1] = p
      <3>1. ToSet(h.term[p].to) = (ToSet(g.term[p].to) \ {s}) \cup {m}
        BY <1>7 DEF CutIn
      <3>2. e[2] \in ToSet(h.term[p].to)
        BY <2>1, <2>3, <2>5, <3>1
      <3> DEFINE to == g.term[p].to
                 new == h.term[p].to
      <3>3. new = [i \in DOMAIN to |-> IF to[i] = s THEN m ELSE to[i]]
        BY <1>7 DEF CutIn
      <3>4. Len(to) = 2 /\ to[1] # to[2] /\ to \in Seq(AllBlocks) /\ new \in Seq(AllBlocks)
            /\ m \notin ToSet(to)
        <4>1. IsFunction(g) /\ IsFunction(h) /\ p \in AllBlocks
          BY <1>4, <1>7, <1>8 DEF Wired, CutIn
        <4> QED BY <1>4, <1>5, <1>6, <4>1 DEF IsFunction, IsTerminator
      <3> HIDE DEF to, new
      <3>5. DOMAIN to = 1 .. 2 /\ to[1] # m /\ to[2] # m
        BY <3>4 DEF ToSet
      <3>6. DOMAIN new = 1 .. 2 /\ new[1] # new[2]
        BY <3>3, <3>4, <3>5
      <3>7. Len(new) = 2
        BY <3>4, <3>6
      <3> QED BY <1>4, <1>8, <2>5, <3>2, <3>6, <3>7 DEF new
    <2> QED BY <2>4, <2>5
  <1>10. ASSUME NEW b \in ToSet(h.blocks), NEW t \in ToSet(h.succ[b]), Forks(h, b), Joins(h, t)
         PROVE  <<b, t>> \in ToSet(rest)
    <2>1. /\ \A c \in AllBlocks : ToSet(h.succ[c]) = IF c = p THEN (ToSet(g.succ[c]) \ {s}) \cup {m}
                              ELSE IF c = m THEN ToSet(g.succ[c]) \cup {s} ELSE ToSet(g.succ[c])
          /\ \A c \in AllBlocks : ToSet(h.pred[c]) = (IF c = s THEN (ToSet(g.pred[c]) \ {p}) \cup {m} ELSE ToSet(g.pred[c]))
                              \cup (IF c = m THEN {p} ELSE {})
      BY <1>7 DEF CutIn
    <2>2. ToSet(g.succ[m]) = {} /\ ToSet(g.pred[m]) = {} /\ p \in AllBlocks /\ s \in AllBlocks /\ p # m /\ s # m
      <3>1. g.term[m].op = "none"
        BY <1>5 DEF NoTerm
      <3>2. ToSet(g.succ[m]) = {} /\ ToSet(g.pred[m]) = {}
        BY <1>5, <3>1 DEF Wired
      <3> QED BY <1>4, <1>5, <1>6, <1>8, <3>2
    <2>3. ToSet(h.succ[m]) = {s} /\ ToSet(h.pred[m]) = {p}
      BY <1>5, <2>1, <2>2
    <2>4. b # m /\ t # m
      BY <1>10, <2>3 DEF Forks, Joins
    <2>5. b \in ToSet(g.blocks) /\ b \in AllBlocks
      BY <1>8, <2>4
    <2>6. t \in ToSet(g.succ[b]) /\ ~(b = p /\ t = s)
      <3>1. ToSet(h.succ[b]) = IF b = p THEN (ToSet(g.succ[p]) \ {s}) \cup {m} ELSE ToSet(g.succ[b])
        BY <2>1, <2>4, <2>5
      <3> QED BY <1>10, <2>2, <2>4, <3>1
    <2>7. t \in ToSet(g.blocks) /\ t \in AllBlocks
      BY <1>6, <1>8, <2>5, <2>6
    <2>8. Forks(g, b)
      <3>1. CASE b = p
        <4> DEFINE to == g.term[p].to
        <4>1. Len(to) = 2 /\ to[1] # to[2] /\ to \in Seq(AllBlocks) /\ ToSet(g.succ[p]) = ToSet(to)
          <5>1. IsFunction(g)
            BY DEF Wired
          <5> QED BY <1>4, <1>6, <2>2, <5>1 DEF IsFunction, IsTerminator
        <4> HIDE DEF to
        <4>2. to[1] \in ToSet(to) /\ to[2] \in ToSet(to)
          BY <4>1 DEF ToSet
        <4> QED BY <3>1, <4>1, <4>2 DEF Forks
      <3>2. CASE b # p
        BY <1>10, <2>1, <2>4, <2>5, <3>2 DEF Forks
      <3> QED BY <3>1, <3>2
    <2>9. Joins(g, t)
      <3>1. CASE t = s
        <4>1. p \in ToSet(g.pred[s])
          BY <1>4, <1>6, <2>7, <3>1
        <4>2. ToSet(h.pred[s]) = (ToSet(g.pred[s]) \ {p}) \cup {m}
          BY <2>1, <2>2
        <4>3. PICK x \in ToSet(h.pred[s]), y \in ToSet(h.pred[s]) : x # y
          BY <1>10, <3>1 DEF Joins
        <4>4. \E z \in ToSet(g.pred[s]) : z # p
          BY <4>2, <4>3
        <4> QED BY <3>1, <4>1, <4>4 DEF Joins
      <3>2. CASE t # s
        BY <1>10, <2>1, <2>4, <2>7, <3>2 DEF Joins
      <3> QED BY <3>1, <3>2
    <2>10. <<b, t>> \in ToSet(edges)
      BY <2>5, <2>6, <2>8, <2>9 DEF WaitingEdges
    <2>11. <<b, t>> # first
      BY <1>2, <2>6
    <2> QED BY <1>1, <2>10, <2>11
  <1>11. WaitingEdges(h, rest)
    BY <1>1, <1>9, <1>10 DEF WaitingEdges
  <1> QED BY <1>7, <1>11

LEMMA SplitEdgeKeeps ==
  ASSUME SplitInv, SplitEdge
  PROVE  SplitInv'
  <1> DEFINE edges == split.edges
             p == Head(edges)[1]
             s == Head(edges)[2]
             m == Newest(ir) + 1
             h == WithMiddle(CreateBlocks(ir, 1), p, s, m)
  <1>1. /\ Wired(ir) /\ PhisInOrder(ir) /\ WaitingEdges(ir, edges) /\ edges # <<>> /\ m <= MaxBlocks
        /\ ir' = RewritePhiPredecessors(h, s, p, m)
        /\ split = [phase |-> split.phase, edges |-> split.edges]
        /\ split' = [split EXCEPT !.edges = Tail(@)]
    BY DEF SplitInv, SplitEdge
  <1>2. MayCut(ir, p, s, m) => CutIn(h, ir, p, s, m) /\ h.phis = ir.phis
    BY CutFacts
  <1> HIDE DEF edges, p, s, m, h
  <1>3. p = Head(edges)[1] /\ s = Head(edges)[2] /\ m = Newest(ir) + 1
    BY DEF p, s, m
  <1>4. MayCut(ir, p, s, m) /\ CutIn(h, ir, p, s, m) /\ WaitingEdges(h, Tail(edges))
    BY <1>1, <1>2, <1>3, CutEdges
  <1>5. SameGraph(h, ir') /\ PhisInOrder(ir')
    BY <1>1, <1>2, <1>4, CutPhis
  <1>6. Wired(h) /\ ToSet(h.blocks) \subseteq AllBlocks
    <2>1. Wired(h)
      BY <1>4, CutWired
    <2>2. IsFunction(h)
      BY <2>1 DEF Wired
    <2> QED BY <2>1, <2>2, BlocksOf
  <1>7. Wired(ir')
    BY <1>5, <1>6, WiredSame
  <1>8. WaitingEdges(ir', Tail(edges))
    <2> DEFINE rest == Tail(edges)
               g == ir'
    <2>1. /\ g.blocks = h.blocks /\ g.succ = h.succ /\ g.pred = h.pred
          /\ \A b \in AllBlocks : g.term[b].to = h.term[b].to
      BY <1>5 DEF SameGraph
    <2> HIDE DEF g, rest
    <2>2. WaitingEdges(h, rest)
      BY <1>4 DEF rest
    <2>3. WaitingEdges(g, rest)
      BY <1>6, <2>1, <2>2 DEF WaitingEdges, Forks, Joins
    <2> QED BY <2>3 DEF g, rest
  <1>9. split' = [phase |-> split'.phase, edges |-> split'.edges] /\ split'.edges = Tail(edges)
    BY <1>1 DEF edges
  <1> QED BY <1>5, <1>7, <1>8, <1>9 DEF SplitInv

(* SplitCriticalEdges takes the critical edges one by one, and what it makes *)
(* of one adds none.                                                        *)
THEOREM SplitInvariance == SplitSpec => []SplitInv
  <1>1. Wired(ir) /\ PhisInOrder(ir) /\ split = SplitStart => SplitInv
    BY DEF SplitInv, SplitStart
  <1>2. SplitInv /\ [SplitStep]_<<ir, split>> => SplitInv'
    <2> SUFFICES ASSUME SplitInv, [SplitStep]_<<ir, split>> PROVE SplitInv'
      OBVIOUS
    <2>1. CASE UNCHANGED <<ir, split>>
      BY <2>1 DEF SplitInv
    <2> QED BY <2>1, CollectKeeps, SplitEdgeKeeps DEF SplitStep
  <1> QED BY <1>1, <1>2, PTL DEF SplitSpec

(* In a function whose edge lists and phis are in order it leaves no         *)
(* critical edge, and they still are.                                       *)
THEOREM NoCriticalEdge == SplitSpec => []EdgesSplit
  <1>1. SplitInv => EdgesSplit
    <2> SUFFICES ASSUME SplitInv, SplitDone PROVE /\ \A b \in Blocks : \A s \in ToSet(ir.succ[b]) : ~IsCritical(ir, b, s)
                                                /\ EdgesMatchBranches(ir)
                                                /\ PhisMatchPredecessors(ir)
      BY DEF EdgesSplit
    <2>1. Wired(ir) /\ IsFunction(ir) /\ WaitingEdges(ir, <<>>) /\ PhisInOrder(ir)
      BY DEF SplitInv, SplitDone, Wired
    <2>2. ToSet(<<>>) = {}
      BY DEF ToSet
    <2>3. ASSUME NEW b \in Blocks, NEW s \in ToSet(ir.succ[b]) PROVE ~IsCritical(ir, b, s)
      <3>1. b \in AllBlocks /\ s \in AllBlocks
        BY <2>1, BlocksOf DEF Blocks
      <3>2. ~(Forks(ir, b) /\ Joins(ir, s))
        BY <2>1, <2>2 DEF WaitingEdges, Blocks
      <3> QED BY <2>1, <3>1, <3>2, CriticalEdge
    <2> QED BY <2>1, <2>3, WiredEdges DEF PhisInOrder
  <1> QED BY <1>1, SplitInvariance, PTL

=============================================================================
