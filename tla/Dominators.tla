----------------------------- MODULE Dominators -----------------------------
(***************************************************************************)
(* The dominator analysis (passes/Dominators) of one function: post order  *)
(* by depth-first search, the iterative computation of immediate           *)
(* dominators with its two-finger intersection, the dominance frontiers    *)
(* found by walking up from the predecessors, and the dominator tree.      *)
(*                                                                         *)
(* The order of a predecessor list depends on the order in which branches  *)
(* were created, so a scan of it takes the predecessors in any order.      *)
(***************************************************************************)
EXTENDS Naturals, Sequences, FiniteSets, SequencesExt, Dominance

CONSTANTS
    Blocks,     \* the basic blocks of the function
    Entry,      \* its entry block
    Null,       \* the null block pointer
    Cfgs        \* the control-flow graphs: successor lists of the blocks

ASSUME DominatorsAssumption ==
    /\ Entry \in Blocks /\ Null \notin Blocks
    /\ Cfgs \subseteq [Blocks -> Seq(Blocks)]

VARIABLES
    succ,       \* succ_bbs_ of every block, fixed
    phase,      \* the loop that is running
    stack,      \* the calls of post_order_visit: a block, its next successor
    post,       \* the blocks in post order; post_order_id_ is the index
    idom,       \* idom_
    changed,    \* the flag of create_idom
    rest,       \* the blocks left in this sweep of create_idom
    join,       \* the block whose predecessors are being intersected
    walk,       \* the walk of create_dominance_frontier
    frontier,   \* dom_frontier_
    children    \* dom_tree_succ_blocks_

vars == <<succ, phase, stack, post, idom, changed, rest, join, walk,
          frontier, children>>
graph == <<succ, stack, post>>
results == <<frontier, children>>

(* What UnreachableBlockElim leaves: a set that contains the entry and is   *)
(* closed under edges contains every block.                                 *)
AllReachable(g) ==
    \A S \in SUBSET Blocks :
        Entry \in S /\ (\A x \in S : \A i \in DOMAIN g[x] : g[x][i] \in S)
        => S = Blocks

(* The builder never creates a branch to the entry block. *)
NoBranchToEntry(g) == \A b \in Blocks : \A i \in DOMAIN g[b] : g[b][i] # Entry

Preds(b) == {p \in Blocks : \E i \in DOMAIN succ[p] : succ[p][i] = b}

PostOrderId(b) == CHOOSE i \in DOMAIN post : post[i] = b

NoJoin == [bb |-> Null, left |-> {}, new |-> Null, finger |-> Null]
NoWalk == [left |-> {}, bb |-> Null, runner |-> Null]

Init ==
    /\ succ \in Cfgs
    /\ phase = "visit"
    /\ stack = <<[bb |-> Entry, next |-> 1]>>
    /\ post = <<>>
    /\ idom = [b \in Blocks |-> IF b = Entry THEN Entry ELSE Null]
    /\ changed = TRUE
    /\ rest = <<>>
    /\ join = NoJoin
    /\ walk = NoWalk
    /\ frontier = [b \in Blocks |-> {}]
    /\ children = [b \in Blocks |-> {}]

-----------------------------------------------------------------------------
(* post_order_visit: visited are the blocks on the stack or in post. *)
Visited == ToSet(post) \cup {stack[i].bb : i \in DOMAIN stack}

PostOrderVisit ==
    /\ phase = "visit" /\ stack # <<>>
    /\ LET top   == stack[Len(stack)]
           below == Front(stack)
           after == Append(below, [top EXCEPT !.next = @ + 1])
       IN  \/ /\ top.next > Len(succ[top.bb])
              /\ stack' = below
              /\ post' = Append(post, top.bb)
           \/ /\ top.next <= Len(succ[top.bb])
              /\ LET b == succ[top.bb][top.next]
                 IN  stack' = IF b \in Visited THEN after
                              ELSE Append(after, [bb |-> b, next |-> 1])
              /\ UNCHANGED post
    /\ UNCHANGED <<succ, phase, idom, changed, rest, join, walk, results>>

VisitEnd ==
    /\ phase = "visit" /\ stack = <<>>
    /\ phase' = "sweep"
    /\ UNCHANGED <<graph, idom, changed, rest, join, walk, results>>

-----------------------------------------------------------------------------
(* create_idom: sweeps in reverse post order until nothing changes. *)
SweepStart ==
    /\ phase = "sweep" /\ rest = <<>> /\ changed
    /\ changed' = FALSE
    /\ rest' = Reverse(post)
    /\ UNCHANGED <<graph, phase, idom, join, walk, results>>

SkipEntry ==
    /\ phase = "sweep" /\ rest # <<>> /\ Head(rest) = Entry
    /\ rest' = Tail(rest)
    /\ UNCHANGED <<graph, phase, idom, changed, join, walk, results>>

(* Mutant of PickPred: it starts from the idom of the predecessor. *)
PickPredIdom(p) ==
    /\ phase = "sweep" /\ rest # <<>> /\ Head(rest) # Entry
    /\ p \in Preds(Head(rest)) /\ idom[p] # Null
    /\ join' = [bb |-> Head(rest), left |-> Preds(Head(rest)) \ {p},
                new |-> idom[p], finger |-> Null]
    /\ phase' = "join"
    /\ UNCHANGED <<graph, idom, changed, rest, walk, results>>

(* The first predecessor that has an idom starts the intersection. *)
PickPred(p) ==
    /\ phase = "sweep" /\ rest # <<>> /\ Head(rest) # Entry
    /\ p \in Preds(Head(rest)) /\ idom[p] # Null
    /\ join' = [bb |-> Head(rest), left |-> Preds(Head(rest)) \ {p},
                new |-> p, finger |-> Null]
    /\ phase' = "join"
    /\ UNCHANGED <<graph, idom, changed, rest, walk, results>>

(* Mutant of JoinPred: the other predecessors are passed over. *)
JoinPredIgnored(p) ==
    /\ phase = "join" /\ join.finger = Null /\ p \in join.left
    /\ join' = [join EXCEPT !.left = @ \ {p}]
    /\ UNCHANGED <<graph, phase, idom, changed, rest, walk, results>>

JoinPred(p) ==
    /\ phase = "join" /\ join.finger = Null /\ p \in join.left
    /\ join' = [join EXCEPT !.left = @ \ {p},
                            !.finger = IF idom[p] # Null THEN p ELSE Null]
    /\ UNCHANGED <<graph, phase, idom, changed, rest, walk, results>>

(* intersect(b1, b2): the finger with the lower post order id climbs. *)
Intersect ==
    /\ phase = "join" /\ join.finger # Null
    /\ LET b1 == join.finger
           b2 == join.new
       IN  join' =
             IF b1 = b2 THEN [join EXCEPT !.finger = Null]
             ELSE IF PostOrderId(b1) < PostOrderId(b2)
             THEN [join EXCEPT !.finger = idom[b1]]
             ELSE [join EXCEPT !.new = idom[b2]]
    /\ UNCHANGED <<graph, phase, idom, changed, rest, walk, results>>

JoinEnd ==
    /\ phase = "join" /\ join.finger = Null /\ join.left = {}
    /\ idom' = [idom EXCEPT ![join.bb] = join.new]
    /\ changed' = (changed \/ idom[join.bb] # join.new)
    /\ rest' = Tail(rest)
    /\ join' = NoJoin
    /\ phase' = "sweep"
    /\ UNCHANGED <<graph, walk, results>>

-----------------------------------------------------------------------------
(* Mutant of JoinEdges: only blocks with three predecessors or more. *)
JoinEdgesOfThree == {e \in Blocks \X Blocks : /\ e[1] \in Preds(e[2])
                                              /\ Cardinality(Preds(e[2])) >= 3}

(* create_dominance_frontier: from every predecessor of a block that has    *)
(* two or more, up the idom chain to the idom of the block.                 *)
JoinEdges == {e \in Blocks \X Blocks : /\ e[1] \in Preds(e[2])
                                       /\ Cardinality(Preds(e[2])) >= 2}

SweepsEnd ==
    /\ phase = "sweep" /\ rest = <<>> /\ ~changed
    /\ phase' = "frontier"
    /\ walk' = [NoWalk EXCEPT !.left = JoinEdges]
    /\ UNCHANGED <<graph, idom, changed, rest, join, results>>

StartWalk(e) ==
    /\ phase = "frontier" /\ walk.bb = Null /\ e \in walk.left
    /\ walk' = [left |-> walk.left \ {e}, bb |-> e[2], runner |-> e[1]]
    /\ UNCHANGED <<graph, phase, idom, changed, rest, join, results>>

(* idom_.at(runner) has no entry for a null runner. *)
WalkUp ==
    /\ phase = "frontier" /\ walk.bb # Null
    /\ IF walk.runner = idom[walk.bb]
       THEN /\ walk' = [walk EXCEPT !.bb = Null, !.runner = Null]
            /\ UNCHANGED frontier
       ELSE /\ walk.runner # Null
            /\ frontier' = [frontier EXCEPT ![walk.runner] = @ \cup {walk.bb}]
            /\ walk' = [walk EXCEPT !.runner = idom[@]]
    /\ UNCHANGED <<graph, phase, idom, changed, rest, join, children>>

(* create_dom_tree_succ *)
BuildTree ==
    /\ phase = "frontier" /\ walk.bb = Null /\ walk.left = {}
    /\ children' = [b \in Blocks |-> {c \in Blocks : idom[c] = b /\ b # c}]
    /\ phase' = "done"
    /\ UNCHANGED <<graph, idom, changed, rest, join, walk, frontier>>

Done == phase = "done" /\ UNCHANGED vars

Step ==
    \/ PostOrderVisit \/ VisitEnd
    \/ SweepStart \/ SkipEntry \/ JoinEnd \/ Intersect
    \/ \E p \in Blocks : PickPred(p) \/ JoinPred(p)
    \/ SweepsEnd \/ WalkUp \/ BuildTree
    \/ \E e \in JoinEdges : StartWalk(e)

Next == Step \/ Done

(* run() is a sequential call: it takes its next step. *)
Spec == Init /\ [][Next]_vars /\ WF_vars(Step)

-----------------------------------------------------------------------------
(* d dominates b: a set of blocks that contains the entry and is closed     *)
(* under the edges that avoid d leaves b out only if every path to b meets  *)
(* d.                                                                       *)
ClosedAvoiding(d, S) ==
    \A x \in S : \A i \in DOMAIN succ[x] : succ[x][i] \in S \cup {d}

Dominates(d, b) ==
    d = b \/ d = Entry \/ \E S \in SUBSET (Blocks \ {d, b}) :
                              Entry \in S /\ ClosedAvoiding(d, S)

StrictlyDominates(d, b) == d # b /\ Dominates(d, b)

(* The sweeps approach the result from below: whatever strictly dominates a *)
(* block dominates its current idom too, so that no sweep climbs past the   *)
(* immediate dominator, whatever the blocks not yet visited will hold.      *)
NoDominatorLost ==
    \A b \in Blocks \ {Entry} : idom[b] # Null =>
        \A d \in Blocks : StrictlyDominates(d, b) => Dominates(d, idom[b])

(* At the end idom_ holds the immediate dominators: the strict dominator    *)
(* of a block that every other strict dominator of it dominates.            *)
IdomCorrect ==
    phase \in {"frontier", "done"} =>
        \A b \in Blocks \ {Entry} :
            /\ idom[b] # Null
            /\ StrictlyDominates(idom[b], b)
            /\ \A d \in Blocks : StrictlyDominates(d, b) => Dominates(d, idom[b])

(* The results are those of the definitions: the frontiers Mem2Reg places   *)
(* phis by, and a tree in which a block is below the closest of its strict  *)
(* dominators, so that the recursions of Mem2Reg and GlobalValueNumbering   *)
(* meet dominators first and every block once.                              *)
MatchesDominance ==
    phase = "done" =>
        LET dom == Dominated(succ, Entry)
        IN  \A b \in Blocks :
                /\ frontier[b] = FrontierOf(succ, dom, b)
                /\ children[b] = ChildrenOf(dom, b)
=============================================================================
