------------------------------ MODULE LoopInfo -------------------------------
(***************************************************************************)
(* LoopInfo::run on one function: the strongly connected components of the *)
(* blocks, a loop for each that has a single header, and again without the *)
(* headers found, until no block remains.                                  *)
(***************************************************************************)
EXTENDS Naturals, Sequences, FiniteSets, SequencesExt, Dominance

CONSTANTS
    EntryNode,  \* the entry block
    Nodes,      \* the blocks of the function
    Graphs      \* the inputs: the nodes in question and their successors

ASSUME LoopInfoAssumption ==
    \A g \in Graphs : g.nodes \subseteq Nodes /\ g.succs \in [Nodes -> SUBSET Nodes]

VARIABLES
    nodeGraph,  \* the input of find_scc
    index,      \* CFGNode::index, of the nodes that have one
    low_link,   \* CFGNode::low_link
    nodeStack,  \* the SetVector
    calls,      \* the calls of traverse in progress, the innermost last
    result      \* the components found

sccVars == <<nodeGraph, index, low_link, nodeStack, calls, result>>

(* find_scc: Tarjan's algorithm on a part of the graph, a step of the       *)
(* recursion at a time.  The sets of nodes it goes over are sets of         *)
(* pointers, in no particular order.                                        *)
SccInit ==
    /\ nodeGraph \in Graphs
    /\ index = <<>> /\ low_link = <<>>
    /\ nodeStack = <<>> /\ calls = <<>> /\ result = {}

Call(n) == [node |-> n, succs |-> nodeGraph.succs[n] \cap nodeGraph.nodes, child |-> {}]

(* index_count, the count of the indices given, for n. *)
Numbered(numbers, n) ==
    [m \in DOMAIN numbers \cup {n} |->
        IF m = n THEN Cardinality(DOMAIN index) ELSE numbers[m]]

(* The entry of traverse(n). *)
Enter(n, callers) ==
    /\ index' = Numbered(index, n)
    /\ low_link' = Numbered(low_link, n)
    /\ nodeStack' = Append(nodeStack, n)
    /\ calls' = Append(callers, Call(n))

(* The outer loop: the next node without an index. *)
Root(n) ==
    /\ calls = <<>>
    /\ n \in nodeGraph.nodes \ DOMAIN index
    /\ Enter(n, calls)
    /\ UNCHANGED <<nodeGraph, result>>

TopCall == Last(calls)

Lower(n, k) == low_link' = [low_link EXCEPT ![n] = IF k < @ THEN k ELSE @]

(* child remembers the successor traversed for the min after the call. *)
Awaiting(call, s) == [call EXCEPT !.succs = @ \ {s}, !.child = {s}]

(* The next successor, without an index: traverse it. *)
Descend(s) ==
    /\ calls # <<>> /\ TopCall.child = {} /\ s \in TopCall.succs \ DOMAIN index
    /\ Enter(s, [calls EXCEPT ![Len(calls)] = Awaiting(TopCall, s)])
    /\ UNCHANGED <<nodeGraph, result>>

Ascend(s) ==
    /\ calls # <<>> /\ s \in TopCall.child
    /\ Lower(TopCall.node, low_link[s])
    /\ calls' = [calls EXCEPT ![Len(calls)].child = {}]
    /\ UNCHANGED <<nodeGraph, index, nodeStack, result>>

(* Mutant of Meet: a finished node counts as an active one. *)
MeetFinished(s) ==
    /\ calls # <<>> /\ TopCall.child = {} /\ s \in TopCall.succs \cap DOMAIN index
    /\ Lower(TopCall.node, index[s])
    /\ calls' = [calls EXCEPT ![Len(calls)].succs = @ \ {s}]
    /\ UNCHANGED <<nodeGraph, index, nodeStack, result>>

(* The next successor, with an index. *)
Meet(s) ==
    /\ calls # <<>> /\ TopCall.child = {} /\ s \in TopCall.succs \cap DOMAIN index
    /\ IF s \in ToSet(nodeStack) THEN Lower(TopCall.node, index[s]) ELSE UNCHANGED low_link
    /\ calls' = [calls EXCEPT ![Len(calls)].succs = @ \ {s}]
    /\ UNCHANGED <<nodeGraph, index, nodeStack, result>>

(* The end of traverse: a root takes its component from the stack. *)
Leave ==
    /\ calls # <<>> /\ TopCall.child = {} /\ TopCall.succs = {}
    /\ LET n == TopCall.node
           at == CHOOSE i \in DOMAIN nodeStack : nodeStack[i] = n
       IN  IF low_link[n] = index[n]
           THEN /\ result' = result \cup {ToSet(SubSeq(nodeStack, at, Len(nodeStack)))}
                /\ nodeStack' = SubSeq(nodeStack, 1, at - 1)
           ELSE UNCHANGED <<nodeStack, result>>
    /\ calls' = Front(calls)
    /\ UNCHANGED <<nodeGraph, index, low_link>>

SccDone == calls = <<>> /\ nodeGraph.nodes \subseteq DOMAIN index

SccStep ==
    \/ \E n \in Nodes : Root(n) \/ Descend(n) \/ Ascend(n) \/ Meet(n)
    \/ Leave

-----------------------------------------------------------------------------
(* nodeGraph.nodes is remaining; a loop is its header, which loop2base and      *)
(* base2loop pair it with, and its blocks.                                  *)
VARIABLES
    loop_set,
    bb2base     \* of the blocks that are in a loop

loopVars == <<nodeGraph, index, low_link, nodeStack, calls, result, loop_set, bb2base>>

Prevs(n) == {p \in Nodes : n \in nodeGraph.succs[p]}

(* A function, after UnreachableBlockElim: every block is reached from the   *)
(* entry, that no block branches to.                                        *)
WholeFunction(g) ==
    /\ g = [nodes |-> Nodes, succs |-> g.succs]
    /\ \A n \in Nodes : EntryNode \notin g.succs[n]
    /\ \A S \in SUBSET Nodes :
            EntryNode \in S /\ (\A n \in S : g.succs[n] \subseteq S) => S = Nodes

LoopInit ==
    /\ SccInit
    /\ loop_set = {} /\ bb2base = <<>>

IsLoop(scc) == Cardinality(scc) > 1 \/ \E n \in scc : n \in nodeGraph.succs[n]

(* The candidates of find_loop_header. *)
Headers(scc) == {n \in scc : \E p \in Prevs(n) : p = EntryNode \/ p \notin scc}

HasHeader(scc) == IsLoop(scc) /\ Cardinality(Headers(scc)) = 1

HeaderOf(scc) == CHOOSE n \in Headers(scc) : TRUE

(* Mutant of Taken: the header remains. *)
TakenOthers(sccs) == UNION {IF HasHeader(scc) THEN scc \ Headers(scc) ELSE scc : scc \in sccs}

(* to_remove: the header of a loop, all of what is none. *)
Taken(sccs) == UNION {IF HasHeader(scc) THEN Headers(scc) ELSE scc : scc \in sccs}

BlocksOf(loops) == UNION {l.blocks : l \in loops}

BaseIn(loops, b) == (CHOOSE l \in loops : b \in l.blocks).base

(* Mutant of Innermost: the loop found first counts. *)
InnermostFirst(loops) ==
    [b \in BlocksOf(loops) \cup DOMAIN bb2base |->
        IF b \in DOMAIN bb2base THEN bb2base[b] ELSE BaseIn(loops, b)]

(* bb2base, after the loops of a round. *)
Innermost(loops) ==
    [b \in BlocksOf(loops) \cup DOMAIN bb2base |->
        IF b \in BlocksOf(loops) THEN BaseIn(loops, b) ELSE bb2base[b]]

(* The components of a round are found; find_scc begins again. *)
Collect ==
    /\ SccDone /\ result # {}
    /\ LET found == {[base |-> HeaderOf(scc), blocks |-> scc] :
                        scc \in {c \in result : HasHeader(c)}}
       IN  /\ loop_set' = loop_set \cup found
           /\ bb2base' = Innermost(found)
    /\ nodeGraph' = [nodeGraph EXCEPT !.nodes = @ \ Taken(result)]
    /\ index' = <<>> /\ low_link' = <<>> /\ nodeStack' = <<>> /\ calls' = <<>>
    /\ result' = {}

(* No component: run is done. *)
LoopsDone == SccDone /\ result = {}

LoopStep == Collect \/ (SccStep /\ UNCHANGED <<loop_set, bb2base>>)

(* get_innermost and get_parent: the first predecessor of the header that   *)
(* is not in the loop decides.  A set: empty for nullptr.                   *)
LoopOf(b) == {l \in loop_set : b \in DOMAIN bb2base /\ bb2base[b] = l.base}

Parent(loop, prev) == {l \in LoopOf(prev) : loop.base \in l.blocks}

-----------------------------------------------------------------------------
Successors == [n \in Nodes |-> SetToSeq(nodeGraph.succs[n])]

(* The loops found are natural loops, on a reducible graph all of them, in   *)
(* any order of nodes and successors: a component that low links split or   *)
(* merge, or a header overlooked, would give another set.                   *)
LoopsNatural ==
    LoopsDone =>
        LET natural == NaturalLoops(Successors, EntryNode)
        IN  /\ loop_set \subseteq natural
            /\ Reducible(Successors, EntryNode) => loop_set = natural

(* get_parent returns the smallest loop around a loop: always, if it finds  *)
(* one at all, and if there is one, when the predecessor it decides by      *)
(* branches to the header only, as the one does that LoopInvHoist hoists    *)
(* to.                                                                      *)
ParentEncloses ==
    LoopsDone =>
        \A loop \in loop_set : \A prev \in Prevs(loop.base) \ loop.blocks :
            \/ Parent(loop, prev) = ParentOf(loop_set, loop)
            \/ Parent(loop, prev) = {} /\ Cardinality(nodeGraph.succs[prev]) > 1
=============================================================================
