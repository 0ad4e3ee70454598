----------------------------- MODULE SimplifyPhi -----------------------------
(***************************************************************************)
(* SimplifyPhi on one function: phis whose incoming values are one value,  *)
(* apart from the phi itself, are replaced by it, until the worklist is    *)
(* empty; then they are erased.                                            *)
(***************************************************************************)
EXTENDS Ir

VARIABLE simp

PhisOf(b) == [i \in DOMAIN ir.phis[b] |-> PhiId(b, ir.phis[b][i].var)]

(* worklist; erase: phis_to_erase. *)
SimplifyStart ==
    [phase |-> "simplify", erase |-> {},
     worklist |-> FlattenSeq([i \in DOMAIN ir.blocks |-> PhisOf(ir.blocks[i])])]

PhiOf(id) == ir.phis[id[2]][CHOOSE i \in DOMAIN ir.phis[id[2]] : ir.phis[id[2]][i].var = id[3]]

ValuesInto(id) == {pair.val : pair \in ToSet(PhiOf(id).inc)}

(* The replacement, if there is one. *)
FindReplacement(id) ==
    LET values == ValuesInto(id) \ {id}
    IN  IF Cardinality(values) = 1 THEN values ELSE {}

(* The phis that use a value. *)
PhiUsers(val) ==
    {id \in UNION {ToSet(PhisOf(b)) : b \in Blocks} : val \in ValuesInto(id)}

(* Mutant of AddToWorklist: the users are not looked at again. *)
AddToWorklistNot(list, users) == {list}

(* addToWorklist; the order is that of the use list. *)
AddToWorklist(list, users) == {list \o order : order \in SetToSeqs(users)}

SimplifyNext ==
    /\ simp.phase = "simplify" /\ simp.worklist # <<>>
    /\ LET cur_phi == Head(simp.worklist)
           rest == Tail(simp.worklist)
       IN  IF cur_phi \in simp.erase \/ FindReplacement(cur_phi) = {}
           THEN /\ simp' = [simp EXCEPT !.worklist = rest]
                /\ UNCHANGED ir
           ELSE /\ \E list \in AddToWorklist(rest, PhiUsers(cur_phi)) :
                    simp' = [simp EXCEPT !.worklist = list, !.erase = @ \cup {cur_phi}]
                /\ \E value \in FindReplacement(cur_phi) :
                    ir' = ReplaceAllUses(ir, cur_phi, value)

ErasePhis ==
    /\ simp.phase = "simplify" /\ simp.worklist = <<>>
    /\ ir' = [ir EXCEPT !.phis = [b \in AllBlocks |->
                Kept(@[b], {i \in DOMAIN @[b] : PhiId(b, @[b][i].var) \notin simp.erase})]]
    /\ simp' = [simp EXCEPT !.phase = "done"]

SimplifyDone == simp.phase = "done"

SimplifyStep == SimplifyNext \/ ErasePhis

-----------------------------------------------------------------------------
(* After the pass no phi is left whose incoming values are one value and    *)
(* perhaps the phi itself, however the replacements follow from each other  *)
(* (the worklist of SimplifyPhi.cpp:61-78).                                 *)
NoTrivialPhi ==
    simp # <<>> /\ SimplifyDone =>
        \A b \in Blocks : \A id \in ToSet(PhisOf(b)) : FindReplacement(id) = {}
=============================================================================
