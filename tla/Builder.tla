------------------------------- MODULE Builder -------------------------------
(***************************************************************************)
(* The control flow CminusfBuilder emits for one function: the visits of   *)
(* the statements, in the order of the source, write at an insertion point *)
(* that they move.  The statements are the input: every sequence of them   *)
(* is a program.                                                           *)
(***************************************************************************)
EXTENDS Ir, Arith

CONSTANTS
    Params,     \* the variables that are parameters
    Numbers,    \* the numbers it assigns and returns: of 0 and 1, which
                \* conditions tell apart
    Tests,      \* the numbers it has as conditions
    Kinds,      \* the kinds of statements and expressions in the program
    MaxStmts    \* bound on the statements and index checks of the function

VARIABLES
    insert,     \* the insertion point of the IRBuilder
    open,       \* the statements being visited, the innermost last
    stmts,      \* the statements met so far
    built       \* visit(ASTFunDeclaration) has returned

builderVars == <<insert, open, stmts, built>>

ASSUME BuilderAssumption ==
    /\ MaxStmts \in Nat /\ MaxBlocks \in Nat /\ MaxBlocks >= 1 + 3 * MaxStmts
    /\ Params \subseteq Vars /\ IsFiniteSet(Params) /\ Numbers \cup Tests \subseteq {0, 1}
    /\ Kinds \subseteq {"assign", "return", "index", "if", "while", "var", "not"}

(* Expressions: a number, a variable, which a load reads ("var"), or an       *)
(* operation on a variable: 1 - v ("not").                                  *)
Expressions(numbers) ==
    {Const(k) : k \in numbers}
    \cup (IF "var" \in Kinds THEN {<<"var", v>> : v \in Vars} ELSE {})
    \cup (IF "not" \in Kinds THEN {<<"not", v>> : v \in Vars} ELSE {})

LoadId(k) == <<"load", k>>

Operand(e, k) ==
    CASE e[1] = "var" -> LoadId(k)
      [] e[1] = "not" -> OpId(k)
      [] OTHER -> e

Code(e, k) ==
    CASE e[1] = "var" -> <<Load(e[2], LoadId(k))>>
      [] e[1] = "not" -> <<Load(e[2], LoadId(k)), Operation("sub", OpId(k), <<Const(1), LoadId(k)>>)>>
      [] OTHER -> <<>>

Emit(g, b, instrs) == [g EXCEPT !.body[b] = @ \o instrs]

(* ASTFunDeclaration before the body: the arguments go to their allocas. *)
BuilderInit ==
    /\ ir = Emit(NewFunction, Entry,
                 [i \in 1 .. Cardinality(Params) |->
                    LET v == SetToSeq(Params)[i] IN Store(v, Arg(v))])
    /\ insert = Entry
    /\ open = <<>>
    /\ stmts = 0
    /\ built = FALSE

IsTerminated(g, b) == g.term[b] # NoTerm

Innermost == open[Len(open)]
Inside(part) == open # <<>> /\ Innermost.part = part

(* The insertion point can take another index check, ... *)
AtExpression == ~built /\ stmts < MaxStmts /\ ~IsTerminated(ir, insert)

(* ... and ASTCompoundStmt visits another statement. *)
AtStatement(kind) == AtExpression /\ ~Inside("cond") /\ kind \in Kinds

(* "if not terminated, create_br" *)
Seal(g, b, to) == IF IsTerminated(g, b) THEN g ELSE Terminate(g, b, Br(to))

First == Len(ir.blocks) + 1     \* the next block to be created

-----------------------------------------------------------------------------
(* ASTAssignExpression to a scalar. *)
Assign(v, e) ==
    /\ AtStatement("assign")
    /\ ir' = Emit(ir, insert, Code(e, stmts) \o <<Store(v, Operand(e, stmts))>>)
    /\ stmts' = stmts + 1
    /\ UNCHANGED <<insert, open, built>>

Return(e) ==
    /\ AtStatement("return")
    /\ ir' = Terminate(Emit(ir, insert, Code(e, stmts)), insert, Ret(Operand(e, stmts)))
    /\ stmts' = stmts + 1
    /\ UNCHANGED <<insert, open, built>>

(* ASTVar with a subscript, in a statement or in a condition: a branch to    *)
(* the call of neg_idx_except, which goes on like the other branch.         *)
IndexCheck(e) ==
    /\ AtExpression /\ "index" \in Kinds
    /\ LET neg == First
           cont == First + 1
           g == Emit(CreateBlocks(ir, 2), insert, Code(e, stmts))
           h == Terminate(g, insert, CondBr(Operand(e, stmts), neg, cont))
       IN  /\ ir' = Terminate(h, neg, Br(cont))
           /\ insert' = cont
    /\ stmts' = stmts + 1
    /\ UNCHANGED <<open, built>>

(* ASTSelectionStmt, in three parts; without an else statement the else     *)
(* block stays empty.                                                       *)
BeginIf(e) ==
    /\ AtStatement("if")
    /\ LET then == First
           g == Emit(CreateBlocks(ir, 3), insert, Code(e, stmts))
       IN  /\ ir' = Terminate(g, insert, CondBr(Operand(e, stmts), then, then + 1))
           /\ insert' = then
           /\ open' = Append(open, [part |-> "then", block |-> then])
    /\ stmts' = stmts + 1
    /\ UNCHANGED built

EndThen ==
    /\ Inside("then")
    /\ ir' = Seal(ir, insert, Innermost.block + 2)
    /\ insert' = Innermost.block + 1
    /\ open' = [open EXCEPT ![Len(open)].part = "else"]
    /\ UNCHANGED <<stmts, built>>

(* Mutant of EndElse: the else block gets its branch whatever it ends in. *)
EndElseAlways ==
    /\ Inside("else")
    /\ ir' = Terminate(ir, insert, Br(Innermost.block + 2))
    /\ insert' = Innermost.block + 2
    /\ open' = Front(open)
    /\ UNCHANGED <<stmts, built>>

EndElse ==
    /\ Inside("else")
    /\ ir' = Seal(ir, insert, Innermost.block + 2)
    /\ insert' = Innermost.block + 2
    /\ open' = Front(open)
    /\ UNCHANGED <<stmts, built>>

(* ASTIterationStmt, in three parts; block is while_entry, then come        *)
(* while_body and while_end.                                                *)
BeginWhile ==
    /\ AtStatement("while")
    /\ ir' = Terminate(CreateBlocks(ir, 3), insert, Br(First))
    /\ insert' = First
    /\ open' = Append(open, [part |-> "cond", block |-> First])
    /\ stmts' = stmts + 1
    /\ UNCHANGED built

WhileCond(e) ==
    /\ Inside("cond")
    /\ LET body == Innermost.block + 1
           id == MaxStmts + insert
           g == Emit(ir, insert, Code(e, id))
       IN  /\ ir' = Terminate(g, insert, CondBr(Operand(e, id), body, body + 1))
           /\ insert' = body
    /\ open' = [open EXCEPT ![Len(open)].part = "body"]
    /\ UNCHANGED <<stmts, built>>

(* Mutant of EndWhile: the block that ends the body gets no branch back. *)
EndWhileOpen ==
    /\ Inside("body")
    /\ insert' = Innermost.block + 2
    /\ open' = Front(open)
    /\ UNCHANGED <<ir, stmts, built>>

EndWhile ==
    /\ Inside("body")
    /\ ir' = Seal(ir, insert, Innermost.block)
    /\ insert' = Innermost.block + 2
    /\ open' = Front(open)
    /\ UNCHANGED <<stmts, built>>

(* ASTFunDeclaration after the body: a return statement if it has none. *)
EndFunction ==
    /\ ~built /\ open = <<>>
    /\ ir' = IF IsTerminated(ir, insert) THEN ir ELSE Terminate(ir, insert, Ret(Const(0)))
    /\ built' = TRUE
    /\ UNCHANGED <<insert, open, stmts>>

(* An assignment of a variable to itself is left out. *)
Build ==
    \/ \E v \in Vars : \E e \in Expressions(Numbers) \ {<<"var", v>>} : Assign(v, e)
    \/ \E e \in Expressions(Numbers) : Return(e)
    \/ \E e \in Expressions(Tests) : IndexCheck(e) \/ BeginIf(e) \/ WhileCond(e)
    \/ EndThen \/ EndElse
    \/ BeginWhile \/ EndWhile
    \/ EndFunction

BuilderSpec == BuilderInit /\ [][Build]_<<ir, builderVars>>

-----------------------------------------------------------------------------
(* The builder never adds an instruction to a block that is terminated      *)
(* (the assertion of add_instruction, BasicBlock.cpp:37) and so never gives *)
(* a block two terminators.                                                 *)
NothingAfterTerminator ==
    [][~built => \A b \in Blocks : IsTerminated(ir, b) =>
            ir'.term[b] = ir.term[b] /\ ir'.body[b] = ir.body[b] /\ ir'.succ[b] = ir.succ[b]]_<<ir, builderVars>>

(* When the builder is done every block has a terminator, whatever the      *)
(* nesting of statements and however their blocks end: no get_terminator of *)
(* a pass meets the assertion in it (BasicBlock.cpp:31).                    *)
AllTerminated == built => \A b \in Blocks : IsTerminated(ir, b)
=============================================================================
