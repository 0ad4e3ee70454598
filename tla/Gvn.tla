--------------------------------- MODULE Gvn ---------------------------------
(***************************************************************************)
(* GlobalValueNumbering on one function: a walk of the dominator tree      *)
(* numbers the values, values with equal numbers are replaced by the first *)
(* of them in the blocks above (the leader), and operations on phis by the *)
(* phis of their results.                                                  *)
(*                                                                         *)
(* Dominators is taken by its result.  The number of a block in the        *)
(* expression of a phi is the block; other numbers are those of the code.  *)
(***************************************************************************)
EXTENDS Ir, ConstFolder, Dominance

CONSTANT MaxLookups     \* bound on the calls of lookupOrAdd for one instruction

VARIABLE gvn

(* The ValueTable: value_numbering, expression_numbering, numbering_phi,    *)
(* const_numbering and next_value_number.                                   *)
NewTable == [num |-> <<>>, expr |-> <<>>, phi |-> <<>>, const |-> <<>>, next |-> 1]

(* calls: the calls of analyzeGVN in progress, the innermost last, each     *)
(* with its children left and what it added to the leader_table.            *)
GvnStart(pure) ==
    [phase |-> "start", func_info |-> pure, table |-> NewTable, leader |-> <<>>, replace |-> <<>>,
     dom |-> <<>>, calls |-> <<>>]

The(S) == CHOOSE x \in S : TRUE

(* f without the keys in S. *)
Forget(f, S) == [x \in DOMAIN f \ S |-> f[x]]

(* The operation of v, and the incoming pairs of the phi v. *)
InstOf(v) ==
    CHOOSE inst \in UNION {ToSet(ir.body[b]) : b \in AllBlocks} :
        Defines(inst) /\ inst.id = v
IncomingOf(v) ==
    ir.phis[v[2]][CHOOSE i \in DOMAIN ir.phis[v[2]] : ir.phis[v[2]][i].var = v[3]].inc

(* constantFor and getConstant, as sets. *)
ConstantFor(t, n) == IF n \in DOMAIN t.const THEN {t.const[n]} ELSE {}
ConstantOf(t, v) ==
    IF IsConstant(v) THEN {v}
    ELSE IF v \in DOMAIN t.num THEN ConstantFor(t, t.num[v]) ELSE {}

Numbered(t, v, n) == [t EXCEPT !.num = (v :> n) @@ @]

(* What is neither an operation nor a phi gets a number of its own. *)
Fresh(t, v) ==
    IF v \in DOMAIN t.num THEN t
    ELSE [Numbered(t, v, t.next) EXCEPT
            !.const = IF IsConstant(v) THEN (t.next :> v) @@ @ ELSE @,
            !.next = @ + 1]

(* assignExpNewValueNum *)
WithExpression(t, e) ==
    IF e \in DOMAIN t.expr THEN t
    ELSE [t EXCEPT !.expr = (e :> t.next) @@ @, !.next = @ + 1]

(* v has the number of c, or of e, which has one. *)
AsConstant(t, v, c) == Numbered(t, v, t.num[c])
AsExpression(t, v, e) == Numbered(t, v, t.expr[e])

-----------------------------------------------------------------------------
(* createExpr and finalize_expression, once the operands have numbers: those *)
(* of a commutative operation are sorted, and a test with its operands       *)
(* swapped is the opposite test.                                            *)
Commutes(op) == op \in {"add", "mul", "fadd", "fmul", "eq", "ne", "feq", "fne"}
Opposite == [lt |-> "gt", gt |-> "lt", le |-> "ge", ge |-> "le",
             flt |-> "fgt", fgt |-> "flt", fle |-> "fge", fge |-> "fle"]

Expression(op, nums) ==
    CASE Len(nums) # 2 \/ nums[1] <= nums[2] -> <<op, nums>>
      [] Commutes(op) -> <<op, Reverse(nums)>>
      [] op \in DOMAIN Opposite -> <<Opposite[op], Reverse(nums)>>
      [] OTHER -> <<op, nums>>

(* tryFoldConst; constants has for every operand the set of its constant.   *)
FoldOf(op, constants) ==
    IF \E i \in DOMAIN constants : constants[i] = {} THEN {}
    ELSE Compute(op, [i \in DOMAIN constants |-> The(constants[i])])

TryFoldConst(t, inst) ==
    FoldOf(inst.op, [i \in DOMAIN inst.args |-> ConstantOf(t, inst.args[i])])

IsOperation(op) ==
    op \in IntOps \cup FloatOps \cup IntTests \cup FloatTests \cup {"sitofp", "fptosi", "zext"}

NumberFolded(t, v, c) == AsConstant(Fresh(t, c), v, c)

NumberExpression(t, v, e) == AsExpression(WithExpression(t, e), v, e)

(* A call of a function that is pure for FuncInfo is the function and the    *)
(* arguments.                                                               *)
IsPureCall(inst) == inst.op = "call" /\ inst.callee \in gvn.func_info

CallOperands(inst) == <<<<"function", inst.callee>>>> \o inst.args

NumbersOf(t, values) == [i \in DOMAIN values |-> t.num[values[i]]]

(* An operation folds when its operands are constants, and otherwise is an   *)
(* expression on their numbers.                                             *)
NumberOperation(t, v, inst) ==
    CASE TryFoldConst(t, inst) # {} -> NumberFolded(t, v, The(TryFoldConst(t, inst)))
      [] IsPureCall(inst) ->
            NumberExpression(t, v, <<"call", NumbersOf(t, CallOperands(inst))>>)
      [] IsOperation(inst.op) ->
            NumberExpression(t, v, Expression(inst.op, NumbersOf(t, inst.args)))
      [] OTHER -> Fresh(t, v)

IsSame(nums) == Cardinality(ToSet(nums)) = 1

PhiExpression(nums, from) == <<"phi", [i \in DOMAIN nums |-> <<nums[i], from[i]>>]>>

(* The phi v has a number of its own and its incoming values have theirs: it *)
(* gets the one that they share, if they do, or that of a phi before it with *)
(* the same incoming values.                                                 *)
SettlePhi(t, v) ==
    LET inc == IncomingOf(v)
        nums == [i \in DOMAIN inc |-> t.num[inc[i].val]]
        e == PhiExpression(nums, [i \in DOMAIN inc |-> inc[i].from])
        known == IF IsSame(nums) THEN {nums[1]}
                 ELSE IF e \in DOMAIN t.expr THEN {t.expr[e]} ELSE {}
    IN  IF known = {} THEN [t EXCEPT !.expr = (e :> t.num[v]) @@ @]
        ELSE [Numbered(t, v, The(known)) EXCEPT !.phi = Forget(@, {t.num[v]})]

BeginPhi(t, v) ==
    [Numbered(t, v, t.next) EXCEPT !.phi = (t.next :> v) @@ @, !.next = @ + 1]

(* The values that get their numbers before v. *)
OperandsFirst(t, v) ==
    CASE v[1] = "phi" -> [i \in DOMAIN IncomingOf(v) |-> IncomingOf(v)[i].val]
      [] v[1] # "op" \/ TryFoldConst(t, InstOf(v)) # {} -> <<>>
      [] IsPureCall(InstOf(v)) -> CallOperands(InstOf(v))
      [] IsOperation(InstOf(v).op) -> InstOf(v).args
      [] OTHER -> <<>>

NumberValue(t, v) ==
    CASE v[1] = "phi" -> SettlePhi(t, v)
      [] v[1] = "op" -> NumberOperation(t, v, InstOf(v))
      [] OTHER -> Fresh(t, v)

Lookups(values) == [i \in DOMAIN values |-> [value |-> values[i], returned |-> FALSE]]

(* A call of lookupOrAdd begins, or goes on when those for the operands have *)
(* returned; s.calls are the calls in progress and to come, the innermost    *)
(* first.                                                                   *)
LookupStep(s) ==
    LET v == Head(s.calls).value
        rest == Tail(s.calls)
        resumed == <<[value |-> v, returned |-> TRUE]>> \o rest
    IN  CASE Head(s.calls).returned -> [table |-> NumberValue(s.table, v), calls |-> rest]
          [] v \in DOMAIN s.table.num -> [s EXCEPT !.calls = rest]
          [] OTHER -> [table |-> IF v[1] = "phi" THEN BeginPhi(s.table, v) ELSE s.table,
                       calls |-> Lookups(OperandsFirst(s.table, v)) \o resumed]

LookupNext(s) == IF s.calls = <<>> THEN s ELSE LookupStep(s)

(* lookupOrAdd of the values in turn: the table after it. *)
LookupAll(t, values) ==
    LET after[k \in 0 .. MaxLookups] ==
            IF k = 0 THEN [table |-> t, calls |-> Lookups(values)]
            ELSE LookupNext(after[k - 1])
    IN  IF ToSet(values) \subseteq DOMAIN t.num THEN t ELSE after[MaxLookups].table

LookupOrAdd(t, v) == LookupAll(t, <<v>>)

-----------------------------------------------------------------------------
(* phiTranslate: the value that stands for number n on the edge from pred,  *)
(* if n is a phi of b.                                                      *)
Incoming(t, pred, b, n) ==
    IF n \in DOMAIN t.phi /\ t.phi[n][2] = b
    THEN {pair.val : pair \in {p \in ToSet(IncomingOf(t.phi[n])) : p.from = pred}}
    ELSE {}

(* The number of the operand x on that edge, and the table with it. *)
Translated(t, x, values) ==
    IF values = {} THEN <<t, t.num[x]>>
    ELSE LET u == LookupOrAdd(t, The(values)) IN <<u, u.num[The(values)]>>

Translate(s, pred, b, x) ==
    LET on == Translated(s.t, x, Incoming(s.t, pred, b, s.t.num[x]))
    IN  [s EXCEPT !.t = on[1], !.nums = Append(@, on[2])]

(* The numbers of the operands on the edge from pred, in s.nums; then the    *)
(* number of the operation there.                                           *)
EdgeFolded(s, c) == [t |-> Fresh(s.t, c), num |-> Fresh(s.t, c).num[c]]

EdgeExpression(s, e) == [t |-> WithExpression(s.t, e), num |-> WithExpression(s.t, e).expr[e]]

EdgeNumber(s, op, folded) ==
    IF folded # {} THEN EdgeFolded(s, The(folded)) ELSE EdgeExpression(s, Expression(op, s.nums))

WithEdge(edges, s, edge, args) ==
    [t |-> edge.t, nums |-> Append(edges.nums, edge.num),
     translated |-> edges.translated
                    \/ \E i \in DOMAIN args : s.nums[i] # s.t.num[args[i]]]

EdgeFrom(edges, s, inst) ==
    WithEdge(edges, s,
             EdgeNumber(s, inst.op, FoldOf(inst.op, [i \in DOMAIN s.nums |->
                                                        ConstantFor(s.t, s.nums[i])])),
             inst.args)

OnEdge(edges, pred, b, inst) ==
    EdgeFrom(edges,
             FoldLeft(LAMBDA s, x : Translate(s, pred, b, x),
                      [t |-> LookupAll(edges.t, inst.args), nums |-> <<>>],
                      inst.args),
             inst)

(* What the operation is on every edge: its numbers, the table with them     *)
(* and whether an operand is another value on one of them.                  *)
OnEdges(t, v, b) ==
    FoldLeft(LAMBDA edges, pred : OnEdge(edges, pred, b, InstOf(v)),
             [t |-> t, nums |-> <<>>, translated |-> FALSE], ir.pred[b])

ReplaceBy(s, v, x) == [s EXCEPT !.replace = (v :> x) @@ @]
Lead(s, v) == [s EXCEPT !.leader = (s.table.num[v] :> v) @@ @]

(* tryPhiCongruence: v is replaced with what it is on every edge, or with    *)
(* the phi of what it is on the edges.                                      *)
TryPhiCongruence(s, v, b, edges) ==
    LET after == [s EXCEPT !.table = edges.t]
        leaderOf(n) == IF n \in DOMAIN s.leader THEN {s.leader[n]} ELSE {}
        same == edges.nums[1]
        e == PhiExpression(edges.nums, ir.pred[b])
        found == CASE ~edges.translated -> {}
                   [] IsSame(edges.nums) ->
                        IF leaderOf(same) # {} THEN leaderOf(same)
                        ELSE ConstantFor(edges.t, same)
                   [] e \in DOMAIN edges.t.expr -> leaderOf(edges.t.expr[e])
                   [] OTHER -> {}
    IN  IF found = {} THEN Lead(after, v) ELSE ReplaceBy(after, v, The(found))

(* One instruction of the loop of analyzeGVN, which defines v and has a     *)
(* number.                                                                  *)
AnalyzeNumbered(s, v, b) ==
    LET n == s.table.num[v]
    IN  CASE n \in DOMAIN s.leader -> ReplaceBy(s, v, s.leader[n])
          [] n \in DOMAIN s.table.const -> ReplaceBy(s, v, s.table.const[n])
          [] v[1] = "op" /\ IsOperation(InstOf(v).op) /\ Len(ir.pred[b]) >= 2 ->
                TryPhiCongruence(s, v, b, OnEdges(s.table, v, b))
          [] OTHER -> Lead(s, v)

AnalyzeValue(s, v, b) ==
    IF v \in DOMAIN s.replace THEN s
    ELSE AnalyzeNumbered([s EXCEPT !.table = LookupOrAdd(@, v)], v, b)

(* eliminateDuplicatePhis: phi i has the pairs of phi j before it. *)
WithDuplicatePhis(s, b) ==
    LET phis == ir.phis[b]
        id(i) == PhiId(b, phis[i].var)
        twins(u, i) == {j \in 1 .. i - 1 : id(j) \notin DOMAIN u.replace
                                            /\ phis[j].inc = phis[i].inc}
        first(S) == CHOOSE j \in S : \A k \in S : j <= k
    IN  FoldLeft(LAMBDA u, i :
                    IF twins(u, i) = {} THEN u ELSE ReplaceBy(u, id(i), id(first(twins(u, i)))),
                 s, [i \in DOMAIN phis |-> i])

(* What the instructions of b define. *)
DefinedBy(b) ==
    LET body == SelectSeq(ir.body[b], Defines)
    IN  [i \in DOMAIN ir.phis[b] |-> PhiId(b, ir.phis[b][i].var)]
        \o [i \in DOMAIN body |-> body[i].id]

(* The call for b goes on with its children. *)
Call(s, b) ==
    [s EXCEPT
        !.phase = "walk",
        !.calls = (IF @ = <<>> THEN <<>> ELSE [@ EXCEPT ![Len(@)].children = @ \ {b}])
                  \o <<[children |-> ChildrenOf(s.dom, b) \cap Blocks,
                         added |-> DOMAIN s.leader \ DOMAIN gvn.leader]>>]

(* A call of analyzeGVN, up to its recursive calls. *)
Analyze(b) ==
    gvn' = Call(FoldLeft(LAMBDA s, v : AnalyzeValue(s, v, b),
                         WithDuplicatePhis(gvn, b), DefinedBy(b)), b)

(* getAnalysis<Dominators> *)
GvnRequest ==
    /\ gvn.phase = "start" /\ gvn.dom = <<>>
    /\ gvn' = [gvn EXCEPT !.dom = Dominated(CfgOf(ir), Entry)]
    /\ UNCHANGED ir

AnalyzeEntry ==
    /\ gvn.phase = "start" /\ gvn.dom # <<>>
    /\ Analyze(Entry)
    /\ UNCHANGED ir

AnalyzeChild ==
    /\ gvn.phase = "walk" /\ gvn.calls # <<>>
    /\ \E c \in Last(gvn.calls).children : Analyze(c)
    /\ UNCHANGED ir

(* Mutant of AnalyzeReturn: the leaders of the block remain. *)
AnalyzeReturnKeeping ==
    /\ gvn.phase = "walk" /\ gvn.calls # <<>> /\ Last(gvn.calls).children = {}
    /\ gvn' = [gvn EXCEPT
            !.calls = Front(@),
            !.phase = IF Len(gvn.calls) = 1 THEN "replace" ELSE @]
    /\ UNCHANGED ir

(* The end of a call: its leaders leave the leader_table.  After the last    *)
(* one only the replace_map is used.                                        *)
AnalyzeReturn ==
    /\ gvn.phase = "walk" /\ gvn.calls # <<>> /\ Last(gvn.calls).children = {}
    /\ gvn' = [gvn EXCEPT
            !.calls = Front(@),
            !.leader = Forget(@, Last(gvn.calls).added),
            !.table = IF Len(gvn.calls) = 1 THEN NewTable ELSE @,
            !.phase = IF Len(gvn.calls) = 1 THEN "replace" ELSE @]
    /\ UNCHANGED ir

(* One entry of the replace_map, a DenseMap. *)
ReplaceValue(v) ==
    /\ gvn.phase = "replace"
    /\ v \in DOMAIN gvn.replace
    /\ ir' = ReplaceAllUses(ir, v, gvn.replace[v])
    /\ gvn' = [gvn EXCEPT !.replace = Forget(@, {v})]

GvnDone == gvn.phase = "replace" /\ gvn.replace = <<>>

GvnStep ==
    \/ GvnRequest
    \/ AnalyzeEntry \/ AnalyzeChild \/ AnalyzeReturn
    \/ \E v \in DOMAIN gvn.replace : ReplaceValue(v)
=============================================================================
