---------------------------- MODULE MCLinearScan ----------------------------
(* LinearScan for the integer class, on functions of up to five values:  *)
(* every shape of live intervals over few positions.                    *)
EXTENDS LinearScan

(* The functions whose arguments are args, in this order of arg_no, and     *)
(* whose other values are vals; the types are those of t, the values of     *)
(* noReg need no register, and intervals end at pos at the latest.          *)
FunctionsOf(args, vals, t, noReg, pos) ==
    LET A == {args[i] : i \in DOMAIN args}
        later == {i \in (1 .. pos) \X (1 .. pos) : i[1] <= i[2]}
    IN  {[values |-> A \cup vals, args |-> A, noReg |-> noReg, type |-> t,
          start |-> [v \in A \cup vals |-> IF v \in A THEN 0 ELSE iv[v][1]],
          end |-> [v \in A \cup vals |-> IF v \in A THEN last[v] ELSE iv[v][2]],
          argNo |-> [a \in A |-> (CHOOSE i \in DOMAIN args : args[i] = a) - 1]] :
            iv \in [vals -> later], last \in [A -> 0 .. pos]}

AllInt(V) == [v \in V |-> "int"]

(* With two registers and one argument register: four values; an argument  *)
(* among three values, by address before or after them, and among four; an *)
(* argument among values of which one needs no register and one is a       *)
(* pointer; a float argument that pushes an integer argument to the stack. *)
MCFunctions ==
    FunctionsOf(<<>>, 1 .. 4, AllInt(1 .. 4), {}, 3)
    \cup FunctionsOf(<<1>>, 2 .. 4, AllInt(1 .. 4), {}, 3)
    \cup FunctionsOf(<<4>>, 1 .. 3, AllInt(1 .. 4), {}, 3)
    \cup FunctionsOf(<<3>>, {1, 2, 4, 5}, AllInt(1 .. 5), {}, 3)
    \cup FunctionsOf(<<2>>, {1, 3, 4}, [AllInt(1 .. 4) EXCEPT ![3] = "ptr"], {4}, 3)
    \cup FunctionsOf(<<2, 1>>, {3, 4}, [AllInt(1 .. 4) EXCEPT ![2] = "float"], {}, 3)

(* For an allocator that is reused: two functions one after the other,     *)
(* whose values are different objects.  Those of MCFunctions have values    *)
(* in common with all others and run alone.                                 *)
MCReused ==
    FunctionsOf(<<>>, 1 .. 3, AllInt(1 .. 3), {}, 2)
    \cup FunctionsOf(<<2, 1>>, {3}, [AllInt(1 .. 3) EXCEPT ![2] = "float"], {}, 2)
    \cup FunctionsOf(<<>>, 4 .. 6, AllInt(4 .. 6), {}, 2)
    \cup FunctionsOf(<<4, 6>>, {5}, AllInt(4 .. 6), {}, 2)

MCAllFunctions == MCFunctions \cup MCReused
=============================================================================
