------------------------------ MODULE Liveness ------------------------------
(***************************************************************************)
(* Live intervals (codegen/Liverange) of one function.  Phis are lowered   *)
(* to copy statements at the end of the predecessors; instructions and     *)
(* copies are numbered in depth-first order; a backward data-flow analysis *)
(* sweeps over the blocks until no in_set grows; the interval of a value   *)
(* is the hull of the positions it is live at.                             *)
(*                                                                         *)
(* A function is a record.  order: its block list; succ: the successors of *)
(* a block; phis[b]: the phis of b, each with its incoming value for every *)
(* predecessor; body[b]: what follows the phis, the terminator last, each  *)
(* with the values it uses and the value it defines, Null if none; args.   *)
(* Only instructions and arguments are values: an incoming constant is     *)
(* Null, and constants are left out of the uses.                           *)
(***************************************************************************)
EXTENDS Integers, Sequences, FiniteSets, SequencesExt

CONSTANTS
    Programs,   \* the functions the analysis may be run on
    Null

(* What a function defines: instructions and arguments, as is_register_value *)
(* has it.                                                                  *)
ValuesOf(g) ==
    LET blocks == ToSet(g.order)
    IN  g.args
        \cup {p.dst : p \in UNION {ToSet(g.phis[b]) : b \in blocks}}
        \cup ({ins.def : ins \in UNION {ToSet(g.body[b]) : b \in blocks}} \ {Null})

(* A function in SSA form: it has finitely many values, and nothing uses     *)
(* what is not defined; blocks end in a terminator, which defines nothing;   *)
(* every block is reachable, as UnreachableBlockElim leaves it, and none     *)
(* branches to the first.                                                   *)
WellFormed(g) ==
    LET blocks == ToSet(g.order)
        first == Head(g.order)
        values == ValuesOf(g)
        incoming == UNION {[P -> values \cup {Null}] : P \in SUBSET blocks}
    IN  /\ g.order \in Seq(blocks) \ {<<>>}
        /\ IsFiniteSet(values) /\ Null \notin values
        /\ \A b \in blocks :
            /\ g.succ[b] \in Seq(blocks \ {first})
            /\ g.phis[b] \in Seq([dst : values, inc : incoming])
            /\ g.body[b] \in Seq([def : values \cup {Null}, uses : SUBSET values]) \ {<<>>}
            /\ Last(g.body[b]).def = Null
        /\ \A S \in SUBSET blocks :
            first \in S /\ (\A b \in S : ToSet(g.succ[b]) \subseteq S) => S = blocks

ASSUME LivenessAssumption == \A g \in Programs : WellFormed(g)

VARIABLES
    prog,           \* the function, fixed
    phase,          \* "order", "sweep" or "done"
    stack,          \* the calls of traverse still to be made
    bb_dfs_order,   \* the blocks traverse has met
    numbered,       \* the instruction or copy that got id 1, id 2, ...
    left,           \* the blocks this sweep has still to visit
    changed,        \* whether this sweep has made an in_set grow
    in_set, out_set,    \* the live sets, by id
    interval_map    \* the result

vars == <<prog, phase, stack, bb_dfs_order, numbered, left, changed,
          in_set, out_set, interval_map>>

Blocks == ToSet(prog.order)

Phis(b) == ToSet(prog.phis[b])

Values == ValuesOf(prog)

Init ==
    /\ prog \in Programs
    /\ phase = "order"
    /\ stack = <<Head(prog.order)>>
    /\ bb_dfs_order = <<>>
    /\ numbered = <<>>
    /\ left = <<>>
    /\ changed = TRUE
    /\ in_set = <<>>
    /\ out_set = <<>>
    /\ interval_map = <<>>

-----------------------------------------------------------------------------
(* get_dfs_order: the recursion of traverse, as a stack of pending calls. *)
Traverse ==
    /\ phase = "order" /\ stack # <<>>
    /\ LET bb == Head(stack)
       IN  IF Contains(bb_dfs_order, bb)
           THEN stack' = Tail(stack) /\ UNCHANGED bb_dfs_order
           ELSE /\ bb_dfs_order' = Append(bb_dfs_order, bb)
                /\ stack' = prog.succ[bb] \o Tail(stack)
    /\ UNCHANGED <<prog, phase, numbered, left, changed, in_set, out_set,
                   interval_map>>

(* phi_map[pred] of the function g, in the order get_phi_map fills it: the  *)
(* copies (dst, src) made at the end of pred.                               *)
PhiMapOf(g, pred) ==
    LET phis == FlattenSeq([i \in DOMAIN g.order |-> g.phis[g.order[i]]])
    IN  FlattenSeq([i \in DOMAIN phis |->
            IF pred \in DOMAIN phis[i].inc
            THEN <<[dst |-> phis[i].dst, src |-> phis[i].inc[pred]]>> ELSE <<>>])

PhiMap(pred) == PhiMapOf(prog, pred)

(* A block in the order of make_id: the copies come before the terminator. *)
InOrder(bb) ==
    LET instrs == [i \in DOMAIN prog.body[bb] |-> [bb |-> bb, pos |-> i]]
    IN  Front(instrs) \o PhiMap(bb) \o <<Last(instrs)>>

MakeId ==
    /\ phase = "order" /\ stack = <<>>
    /\ numbered' = FlattenSeq([i \in DOMAIN bb_dfs_order |-> InOrder(bb_dfs_order[i])])
    /\ in_set' = [id \in DOMAIN numbered' |-> {}]
    /\ out_set' = [id \in DOMAIN numbered' |-> {}]
    /\ phase' = "sweep"
    /\ UNCHANGED <<prog, stack, bb_dfs_order, left, changed, interval_map>>

(* instr_id and copy_id: the last number given to an entity.  copy_id is    *)
(* keyed by the pair (dst, src), whatever block the copy is in.             *)
Id(entity) == CHOOSE id \in DOMAIN numbered :
                /\ numbered[id] = entity
                /\ \A k \in id + 1 .. Len(numbered) : numbered[k] # entity

InstrId(bb, i) == Id([bb |-> bb, pos |-> i])

-----------------------------------------------------------------------------
(* Mutant of EntryId: a block of copies only is entered at its terminator. *)
EntryIdTerminator(bb) == InstrId(bb, 1)

(* The number of the first entity of bb, as join_for finds it. *)
EntryId(bb) ==
    IF Len(prog.body[bb]) = 1 /\ PhiMap(bb) # <<>>
    THEN Id(PhiMap(bb)[1])
    ELSE InstrId(bb, 1)

JoinFor(bb) == UNION {in_set[EntryId(s)] : s \in ToSet(prog.succ[bb])}

TransferFunction(ins, out) == (out \ {ins.def}) \cup ins.uses

(* Mutant of ProcessCopyStmts: sources go in before destinations come out. *)
ProcessCopyStmtsInSequence(bb, out) ==
    LET copies == ToSet(PhiMap(bb))
    IN  (out \cup ({c.src : c \in copies} \ {Null})) \ {c.dst : c \in copies}

(* The parallel copies of bb: live_in = (live_out - D) u S. *)
ProcessCopyStmts(bb, out) ==
    LET copies == ToSet(PhiMap(bb))
    IN  (out \ {c.dst : c \in copies}) \cup ({c.src : c \in copies} \ {Null})

(* The live set before every instruction of bb, from the terminator up. *)
LiveBefore(bb) ==
    LET body == prog.body[bb]
        n == Len(body)
        before[i \in 1 .. n] ==
            TransferFunction(body[i],
                CASE i = n     -> JoinFor(bb)
                  [] i = n - 1 -> ProcessCopyStmts(bb, before[n])
                  [] OTHER     -> before[i + 1])
    IN  before

SweepStart ==
    /\ phase = "sweep" /\ left = <<>> /\ changed
    /\ changed' = FALSE
    /\ left' = Reverse(bb_dfs_order)
    /\ UNCHANGED <<prog, phase, stack, bb_dfs_order, numbered, in_set, out_set,
                   interval_map>>

(* Mutant of Grows: whatever is live counts as a change. *)
GrowsIfLive(bb, before) == \E i \in DOMAIN before : before[i] # {}

(* "changed |= set_union(in_set[...], new_in)" *)
Grows(bb, before) ==
    \E i \in DOMAIN before : ~(before[i] \subseteq in_set[InstrId(bb, i)])

(* The body of the loop over the blocks.  The sets of an instruction are    *)
(* accumulated; those of the copies are overwritten.                        *)
VisitBlock ==
    /\ phase = "sweep" /\ left # <<>>
    /\ LET bb      == Head(left)
           before  == LiveBefore(bb)
           n       == Len(prog.body[bb])
           copyIn  == ProcessCopyStmts(bb, before[n])
           after   == [i \in 1 .. n |-> CASE i = n     -> JoinFor(bb)
                                          [] i = n - 1 -> copyIn
                                          [] OTHER     -> before[i + 1]]
           copyIds == {Id(c) : c \in ToSet(PhiMap(bb))}
           instr   == [id \in {InstrId(bb, i) : i \in 1 .. n} |-> numbered[id].pos]
       IN  /\ in_set' = [id \in DOMAIN in_set |->
                CASE id \in DOMAIN instr -> in_set[id] \cup before[instr[id]]
                  [] id \in copyIds      -> copyIn
                  [] OTHER               -> in_set[id]]
           /\ out_set' = [id \in DOMAIN out_set |->
                CASE id \in DOMAIN instr -> after[instr[id]]
                  [] id \in copyIds      -> before[n]
                  [] OTHER               -> out_set[id]]
           /\ changed' = (changed \/ Grows(bb, before))
    /\ left' = Tail(left)
    /\ UNCHANGED <<prog, phase, stack, bb_dfs_order, numbered, interval_map>>

(* The positions v is recorded live at: in(k) = 2k - 1, out(k) = 2k, and 0 *)
(* for the arguments.                                                      *)
Touched(v) ==
    {2 * id - 1 : id \in {k \in DOMAIN in_set : v \in in_set[k]}}
    \cup {2 * id : id \in {k \in DOMAIN out_set : v \in out_set[k]}}
    \cup {0 : a \in prog.args \cap {v}}

Hull(S) == [start |-> CHOOSE p \in S : \A q \in S : p <= q,
            end   |-> CHOOSE p \in S : \A q \in S : p >= q]

MakeInterval ==
    /\ phase = "sweep" /\ left = <<>> /\ ~changed
    /\ interval_map' = [v \in {w \in Values : Touched(w) # {}} |-> Hull(Touched(v))]
    /\ phase' = "done"
    /\ UNCHANGED <<prog, stack, bb_dfs_order, numbered, left, changed, in_set,
                   out_set>>

Step == Traverse \/ MakeId \/ SweepStart \/ VisitBlock \/ MakeInterval

-----------------------------------------------------------------------------
(* Liveness by its definition: a point is a place of the lowered code, and  *)
(* v is live at it if some path from it reaches a use of v and meets no     *)
(* definition of v before.  The copies of a block are one point, (bb, 0).   *)
Points == UNION {{bb} \X (0 .. Len(prog.body[bb])) : bb \in Blocks}

Entry(bb) == IF Len(prog.body[bb]) = 1 THEN <<bb, 0>> ELSE <<bb, 1>>

SuccPoints(p) ==
    LET bb == p[1]
        n == Len(prog.body[bb])
    IN  CASE p[2] = n     -> {Entry(s) : s \in ToSet(prog.succ[bb])}
          [] p[2] = 0     -> {<<bb, n>>}
          [] p[2] > 0 /\ p[2] = n - 1 -> {<<bb, 0>>}
          [] OTHER        -> {<<bb, p[2] + 1>>}

UsedAt(p) ==
    IF p[2] = 0 THEN {c.src : c \in ToSet(PhiMap(p[1]))}
    ELSE prog.body[p[1]][p[2]].uses

DefinedAt(p) ==
    IF p[2] = 0 THEN {c.dst : c \in ToSet(PhiMap(p[1]))}
    ELSE {prog.body[p[1]][p[2]].def}

(* The pairs of a value and a point it is live at. *)
Live ==
    LET flow    == {e \in Points \X Points : e[2] \in SuccPoints(e[1])}
        used    == UNION {(UsedAt(p) \cap Values) \X {p} : p \in Points}
        defined == UNION {DefinedAt(p) \X {p} : p \in Points}
        (* far[k]: live k steps before a use, and not nearer to one *)
        far[k \in 0 .. Cardinality(Points)] ==
            IF k = 0 THEN [last |-> used, all |-> used]
            ELSE LET nearer == far[k - 1]
                     before == UNION {{<<l[1], e[1]>> : e \in {g \in flow : g[2] = l[2]}}
                                        : l \in nearer.last}
                     fresh  == before \ (defined \cup nearer.all)
                 IN  [last |-> fresh, all |-> nearer.all \cup fresh]
    IN  far[Cardinality(Points)].all

(* The numbers of a point. *)
Ids(p) ==
    LET last == InstrId(p[1], Len(prog.body[p[1]]))
    IN  IF p[2] = 0 THEN last - Len(PhiMap(p[1])) .. last - 1
        ELSE {InstrId(p[1], p[2])}

(* copy_id is keyed by (dst, src): a phi that gets one value from two       *)
(* predecessors makes two copies with one number.  The sets of the block    *)
(* visited last then stand for both, which loses what is live when the copy *)
(* is the entry of a block that holds nothing else.                         *)
EntryCopiesDiffer(g) ==
    \A b, c \in ToSet(g.order) :
        b # c /\ Len(g.body[b]) = 1 /\ PhiMapOf(g, b) # <<>>
            => PhiMapOf(g, b)[1] \notin ToSet(PhiMapOf(g, c))

(* No phi gets the same value from two predecessors. *)
CopiesDiffer == \A k, l \in DOMAIN numbered : numbered[k] = numbered[l] => k = l

(* The analysis stops when no in_set of an instruction grows, and never     *)
(* looks whether those of the copies still change; the sets it ends with    *)
(* are the live sets of the definition all the same.                        *)
LivenessExact ==
    phase = "done" /\ CopiesDiffer =>
        LET live == Live
        IN  \A p \in Points : \A id \in Ids(p) :
                /\ in_set[id] = {v \in Values : <<v, p>> \in live}
                /\ out_set[id] = {v \in Values :
                                    \E s \in SuccPoints(p) : <<v, s>> \in live}

(* What register allocation relies on: values that are live at a common    *)
(* point, anywhere in the code, have intervals that meet, even when copies  *)
(* share a number, as long as no entry of a block does.                     *)
InterferenceKept ==
    phase = "done" /\ EntryCopiesDiffer(prog) =>
        LET live == Live
        IN  \A l, m \in live :
              l[2] = m[2] =>
                /\ {l[1], m[1]} \subseteq DOMAIN interval_map
                /\ interval_map[l[1]].start <= interval_map[m[1]].end
                /\ interval_map[m[1]].start <= interval_map[l[1]].end

(* "first live position" (Liverange.hpp:24): no value is live before the     *)
(* start of its interval.  False for functions whose entry copies do not    *)
(* differ.                                                                  *)
StartsAtFirstLivePosition ==
    phase = "done" =>
        \A l \in Live : \A id \in Ids(l[2]) :
            l[1] \in DOMAIN interval_map /\ interval_map[l[1]].start <= 2 * id - 1
=============================================================================
