------------------------------ MODULE MCBackEnd -------------------------------
(* BackEnd with programs of the shapes that the front end and Mem2Reg make.   *)
EXTENDS BackEnd

T(op) == CASE op \in IntOps \cup {"fptosi", "zext"} -> "i32"
           [] op \in IntTests \cup FloatTests -> "i1"
           [] op \in FloatOps \cup {"sitofp"} -> "float"

(* Instructions; k is the number of the value. *)
V(k) == OpId(k)
I(op, k, args) == [op |-> op, id |-> V(k), args |-> args, type |-> T(op)]
Alloca(k, area) == [op |-> "alloca", id |-> V(k), args |-> <<>>, type |-> "ptr", area |-> area]
Gep(k, args, sizes) == [op |-> "gep", id |-> V(k), args |-> args, type |-> "ptr", sizes |-> sizes]
LoadFrom(k, ptr, type) == [op |-> "load", id |-> V(k), args |-> <<ptr>>, type |-> type]
StoreTo(ptr, val) == [op |-> "store", args |-> <<val, ptr>>]
CallOf(k, f, args, type) ==
    [op |-> "call", id |-> V(k), args |-> args, type |-> type, callee |-> f]
CallVoid(f, args) == [op |-> "call", args |-> args, callee |-> f]
In(k) == CallOf(k, "input", <<>>, "i32")
Out(val) == CallVoid("output", <<val>>)
OutFloat(val) == CallVoid("outputFloat", <<val>>)

Inc(val, from) == [val |-> val, from |-> from]
PhiType(var, type, inc) == [var |-> var, type |-> type, inc |-> inc]
Phi(var, inc) == PhiType(var, "i32", inc)
P(b, var) == PhiId(b, var)

B(phis, body, term) == [phis |-> phis, body |-> body, term |-> term]
Done == Ret(Const(0))

Graph(blocks) ==
    FoldLeft(LAMBDA g, b : Terminate([g EXCEPT !.phis[b] = blocks[b].phis,
                                               !.body[b] = blocks[b].body],
                                     b, blocks[b].term),
             CreateBlocks(NewFunction, Len(blocks) - 1), [b \in DOMAIN blocks |-> b])

Function(name, params, ret, blocks) ==
    [name |-> name, params |-> params, ret |-> ret, ir |-> Graph(blocks)]

Program(callees, blocks) ==
    [functions |-> Append(callees, Function("main", <<>>, "i32", blocks))]
Main(blocks) == Program(<<>>, blocks)

-----------------------------------------------------------------------------
(* An operation or test of two integers, and of two floats; the result of    *)
(* the former is an operand again.                                          *)
IntCase(op, a, b) ==
    Main(<<B(<<>>, <<In(1), I(op, 2, <<a, b>>), I("add", 3, <<V(2), Const(1)>>), Out(V(3))>>,
             Ret(V(2)))>>)

IntTestCase(op, a, b) ==
    Main(<<B(<<>>, <<In(1), I(op, 2, <<a, b>>), I("zext", 3, <<V(2)>>), Out(V(3))>>,
             Ret(V(3)))>>)

FloatCase(op, a, b) ==
    Main(<<B(<<>>,
        <<In(1), I("sitofp", 2, <<V(1)>>), I(op, 3, <<a, b>>), OutFloat(V(3)),
          I("fdiv", 4, <<V(3), V(3)>>), I("fptosi", 5, <<V(4)>>), Out(V(5))>>,
        Ret(V(5)))>>)

FloatTestCase(op, a, b) ==
    Main(<<B(<<>>,
        <<In(1), I("sitofp", 2, <<V(1)>>), I("fdiv", 3, <<V(2), Float(0)>>),
          I(op, 4, <<a, b>>), I("zext", 5, <<V(4)>>), Out(V(5))>>,
        Ret(V(5)))>>)

IntPairs ==
    {<<Const(MinInt), Const(-1)>>, <<Const(MaxInt), Const(3)>>, <<Const(7), Const(0)>>,
     <<V(1), Const(-3000)>>, <<Const(-2048), V(1)>>, <<V(1), V(1)>>}

FloatPairs ==
    {<<Float(0), Float(0)>>, <<Float(5), Float(-2)>>, <<V(2), Float(0)>>, <<Float(3), V(2)>>,
     <<Float(MaxFloat), Float(2)>>}

IntCases ==
    {IntCase(op, pair[1], pair[2]) : op \in IntOps, pair \in IntPairs}
    \cup {IntTestCase(op, pair[1], pair[2]) : op \in IntTests, pair \in IntPairs}

FloatCases ==
    {FloatCase(op, pair[1], pair[2]) : op \in FloatOps, pair \in FloatPairs}
    \cup {FloatTestCase(op, pair[1], pair[2]) :
            op \in FloatTests, pair \in FloatPairs \cup {<<V(3), V(3)>>, <<V(3), V(2)>>}}

(* Values at odds with the width of their slots. *)
Cast == Main(<<B(<<>>,
    <<In(1), I("sitofp", 2, <<V(1)>>), I("fdiv", 3, <<V(2), Float(3)>>),
      I("fptosi", 4, <<V(3)>>), I("gt", 5, <<V(4), Const(0)>>), I("zext", 6, <<V(5)>>),
      I("sub", 7, <<V(6), Const(2)>>), I("sitofp", 8, <<V(7)>>), OutFloat(V(8))>>,
    Ret(V(7)))>>)

-----------------------------------------------------------------------------
(* A loop with two variables that change together, closed by a block of its  *)
(* own and closed by its header.                                            *)
Loop(x, y) ==
    Main(<<
        B(<<>>, <<In(1)>>, Br(2)),
        B(<<Phi("i", <<Inc(Const(0), 1), Inc(V(3), 3)>>),
            Phi("a", <<Inc(V(1), 1), Inc(x, 3)>>),
            Phi("b", <<Inc(Const(5), 1), Inc(y, 3)>>)>>,
          <<I("lt", 2, <<P(2, "i"), Const(2)>>)>>, CondBr(V(2), 3, 4)),
        B(<<>>, <<I("add", 3, <<P(2, "i"), Const(1)>>),
                  I("add", 4, <<P(2, "a"), P(2, "b")>>)>>, Br(2)),
        B(<<>>, <<Out(P(2, "a")), Out(P(2, "b"))>>, Ret(P(2, "a")))>>)

LoopValues == {P(2, "a"), P(2, "b"), P(2, "i"), V(4), Const(7)}
Loops == {Loop(x, y) : x \in LoopValues, y \in LoopValues}

(* The same with an operation on the two in the header, a phi that may be    *)
(* what it is, and an operation u, w on the way back.                       *)
HeaderLoop(x, y, u, w) ==
    Main(<<
        B(<<>>, <<In(1), I("add", 2, <<V(1), Const(5)>>)>>, Br(2)),
        B(<<Phi("i", <<Inc(Const(0), 1), Inc(V(5), 3)>>),
            Phi("a", <<Inc(V(1), 1), Inc(x, 3)>>),
            Phi("b", <<Inc(Const(5), 1), Inc(y, 3)>>),
            Phi("s", <<Inc(V(2), 1), Inc(V(6), 3)>>)>>,
          <<I("add", 4, <<P(2, "a"), P(2, "b")>>), I("lt", 3, <<P(2, "i"), Const(2)>>)>>,
          CondBr(V(3), 3, 4)),
        B(<<>>, <<I("add", 5, <<P(2, "i"), Const(1)>>), I("add", 6, <<u, w>>)>>, Br(2)),
        B(<<>>, <<Out(V(4)), Out(P(2, "s"))>>, Ret(P(2, "a")))>>)

HeaderLoops ==
    {HeaderLoop(x, y, u, w) :
        x, y, u, w \in {P(2, "a"), P(2, "b"), P(2, "i"), V(4)}}

SelfLoop(x, y) ==
    Main(<<
        B(<<>>, <<In(1), I("sitofp", 5, <<V(1)>>)>>, Br(2)),
        B(<<Phi("i", <<Inc(Const(0), 1), Inc(V(3), 2)>>),
            PhiType("a", "float", <<Inc(V(5), 1), Inc(x, 2)>>),
            PhiType("b", "float", <<Inc(Float(5), 1), Inc(y, 2)>>)>>,
          <<I("add", 3, <<P(2, "i"), Const(1)>>), I("fadd", 4, <<P(2, "a"), P(2, "b")>>),
            I("lt", 2, <<V(3), Const(2)>>)>>, CondBr(V(2), 2, 3)),
        B(<<Phi("c", <<Inc(V(3), 2)>>)>>,
          <<OutFloat(P(2, "a")), OutFloat(P(2, "b"))>>, Ret(P(3, "c")))>>)

SelfLoopValues == {P(2, "a"), P(2, "b"), V(4)}
SelfLoops == {SelfLoop(x, y) : x \in SelfLoopValues, y \in SelfLoopValues}

-----------------------------------------------------------------------------
(* A branch with two joins: x and y meet in phis, what is computed in the    *)
(* branches meets what is computed behind it.                               *)
Join(x, y) ==
    Main(<<
        B(<<>>, <<In(1), I("add", 2, <<V(1), Const(1)>>), I("gt", 3, <<V(1), Const(0)>>)>>,
          CondBr(V(3), 2, 3)),
        B(<<>>, <<I("add", 4, <<Const(1), V(1)>>), I("lt", 5, <<Const(0), V(1)>>)>>, Br(4)),
        B(<<>>, <<I("mul", 6, <<V(2), V(1)>>), I("add", 7, <<V(1), V(2)>>)>>, Br(4)),
        B(<<Phi("a", <<Inc(x, 2), Inc(y, 3)>>), Phi("b", <<Inc(V(2), 2), Inc(V(2), 3)>>),
            Phi("c", <<Inc(Const(3), 2), Inc(Const(4), 3)>>),
            Phi("d", <<Inc(Const(5), 2), Inc(Const(4), 3)>>)>>,
          <<I("add", 8, <<P(4, "a"), V(1)>>), I("add", 9, <<P(4, "c"), P(4, "d")>>),
            I("sub", 10, <<P(4, "b"), V(2)>>), Out(V(8)), Out(V(9)), Out(V(10))>>,
          Ret(P(4, "a")))>>)

Joins ==
    {Join(x, y) : x \in {V(1), V(2), V(4), Const(0)}, y \in {V(1), V(2), V(6), Const(0)}}

(* An if without else, whose edge past it is critical, with a phi of a test. *)
Triangle(x, y) ==
    Main(<<
        B(<<>>, <<In(1), I("gt", 2, <<V(1), Const(0)>>)>>, CondBr(V(2), 2, 3)),
        B(<<>>, <<I("add", 3, <<V(1), Const(1)>>), I("eq", 4, <<V(3), Const(4)>>)>>, Br(3)),
        B(<<Phi("a", <<Inc(x, 1), Inc(y, 2)>>), PhiType("t", "i1", <<Inc(V(2), 1), Inc(V(4), 2)>>)>>,
          <<Out(P(3, "a"))>>, CondBr(P(3, "t"), 4, 5)),
        B(<<>>, <<Out(V(1))>>, Ret(Const(1))),
        B(<<>>, <<>>, Ret(P(3, "a")))>>)

Triangles == {Triangle(x, y) : x \in {V(1), Const(3000)}, y \in {V(1), V(3)}}

(* A loop around a branch: the phi of the header is trivial only once the    *)
(* phi behind the branch, which comes later, has been replaced by it; and a  *)
(* constant condition leaves one side without predecessors.                 *)
LoopAroundBranch(cond) ==
    Main(<<
        B(<<>>, <<In(1)>>, Br(2)),
        B(<<Phi("a", <<Inc(V(1), 1), Inc(P(6, "c"), 6)>>),
            Phi("i", <<Inc(Const(0), 1), Inc(V(4), 6)>>)>>,
          <<I("lt", 2, <<P(2, "i"), Const(2)>>)>>, CondBr(V(2), 3, 7)),
        B(<<>>, <<I("ne", 3, cond)>>, CondBr(V(3), 4, 5)),
        B(<<>>, <<I("sdiv", 5, <<Const(3000), V(1)>>), Out(V(5))>>, Br(6)),
        B(<<>>, <<Out(P(2, "i"))>>, Br(6)),
        B(<<Phi("c", <<Inc(P(2, "a"), 4), Inc(P(2, "a"), 5)>>)>>,
          <<I("add", 4, <<P(2, "i"), Const(1)>>)>>, Br(2)),
        B(<<>>, <<Out(P(2, "a"))>>, Ret(P(2, "a")))>>)

LoopsAroundBranch ==
    {LoopAroundBranch(<<V(1), Const(0)>>), LoopAroundBranch(<<Const(0), Const(0)>>),
     LoopAroundBranch(<<Const(1), Const(0)>>)}

-----------------------------------------------------------------------------
(* Calls: a recursion, eight arguments of each class, a function that writes *)
(* a global variable and what a pointer of its caller points to.            *)
Down ==
    Function("down", <<"i32">>, "i32", <<
        B(<<>>, <<I("le", 1, <<Arg(1), Const(0)>>)>>, CondBr(V(1), 2, 3)),
        B(<<>>, <<>>, Ret(Const(0))),
        B(<<>>, <<I("sub", 2, <<Arg(1), Const(1)>>), CallOf(3, "down", <<V(2)>>, "i32"),
                  I("add", 4, <<V(3), Arg(1)>>), Out(V(4))>>, Ret(V(4)))>>)

Many ==
    Function("many", <<"float", "i32", "float", "i32", "i32", "i32", "i32", "i32", "float", "i32",
                       "i32", "float", "float", "float", "float", "float">>, "float", <<
        B(<<>>, <<I("sub", 1, <<Arg(2), Arg(11)>>), Out(V(1)), Out(Arg(10)),
                  I("fsub", 2, <<Arg(1), Arg(16)>>), OutFloat(Arg(9))>>, Ret(V(2)))>>)

Write ==
    Function("write", <<"i32", "ptr", "float">>, "void", <<
        B(<<>>, <<StoreTo(Global(1), Arg(1)), StoreTo(Global(2), Arg(3)), StoreTo(Arg(2), Arg(1))>>,
          Ret(Undef))>>)

(* Pure: it stores to its own alloca only.  And some that are not: one       *)
(* stores to a global variable, one loads it, one calls the first.          *)
Mix ==
    Function("mix", <<"i32", "i32">>, "i32", <<
        B(<<>>, <<Alloca(1, 8), Gep(4, <<V(1), Const(0), Const(1)>>, <<8, 4>>),
                  StoreTo(V(4), Arg(2)), LoadFrom(2, V(4), "i32"),
                  I("sub", 3, <<Arg(1), V(2)>>)>>, Ret(V(3)))>>)

Count ==
    Function("count", <<"i32">>, "i32", <<
        B(<<>>, <<LoadFrom(1, Global(1), "i32"), I("add", 2, <<V(1), Arg(1)>>),
                  StoreTo(Global(1), V(2))>>, Ret(V(2)))>>)

Peek ==
    Function("peek", <<>>, "i32", <<
        B(<<>>, <<Gep(1, <<Global(3), Const(0), Const(1)>>, <<20, 4>>),
                  LoadFrom(2, V(1), "i32")>>, Ret(V(2)))>>)

Again ==
    Function("again", <<"i32">>, "i32", <<
        B(<<>>, <<CallOf(1, "mix", <<Arg(1), Const(2)>>, "i32"),
                  CallOf(2, "count", <<V(1)>>, "i32")>>, Ret(V(2)))>>)

ImpureCalls ==
    Program(<<Mix, Count, Peek, Again>>, <<
        B(<<>>, <<In(1), CallOf(2, "again", <<V(1)>>, "i32"), CallOf(3, "peek", <<>>, "i32"),
                  Gep(4, <<Global(3), Const(0), Const(1)>>, <<20, 4>>), StoreTo(V(4), V(2))>>,
          Br(2)),
        B(<<>>, <<CallOf(5, "peek", <<>>, "i32"), CallOf(6, "again", <<V(1)>>, "i32"),
                  CallOf(7, "again", <<V(1)>>, "i32"), CallOf(8, "mix", <<V(1), V(1)>>, "i32"),
                  Out(V(5)), Out(V(7))>>, Ret(V(3)))>>)

PureCalls ==
    Program(<<Mix, Count>>, <<
        B(<<>>, <<In(1), CallOf(2, "mix", <<V(1), Const(1)>>, "i32"),
                  CallOf(3, "mix", <<V(1), Const(1)>>, "i32"), I("ne", 4, <<V(1), Const(0)>>)>>,
          CondBr(V(4), 2, 3)),
        B(<<>>, <<CallOf(5, "mix", <<Const(1), V(1)>>, "i32"), CallOf(6, "count", <<V(2)>>, "i32"),
                  CallOf(7, "count", <<V(2)>>, "i32")>>, Br(4)),
        B(<<>>, <<CallOf(8, "mix", <<V(1), Const(1)>>, "i32"), Out(V(8))>>, Br(4)),
        B(<<Phi("m", <<Inc(V(5), 2), Inc(V(8), 3)>>), Phi("n", <<Inc(V(7), 2), Inc(V(3), 3)>>)>>,
          <<CallOf(9, "mix", <<Const(1), V(1)>>, "i32"), Out(P(4, "m")), Out(P(4, "n")),
            Out(V(9))>>, Ret(V(3)))>>)

Calls ==
    {PureCalls, ImpureCalls,
     Program(<<Down>>, <<
        B(<<>>, <<In(1), I("add", 2, <<V(1), Const(1)>>), CallOf(3, "down", <<V(2)>>, "i32"),
                  CallOf(4, "down", <<V(1)>>, "i32"), Out(V(4))>>, Ret(V(3)))>>),
     Program(<<Many>>, <<
        B(<<>>, <<In(1), I("sitofp", 2, <<V(1)>>),
                  CallOf(3, "many",
                         <<V(2), V(1), Float(1), Const(2), Const(3), Const(4), Const(5), Const(6),
                           Float(3), Const(3000), Const(8), Float(5), Float(7), Float(9), Float(11),
                           Float(13)>>, "float"), OutFloat(V(3))>>, Ret(V(1)))>>),
     Program(<<Write>>, <<
        B(<<>>, <<In(1), Alloca(2, 20), StoreTo(Global(1), Const(7)), StoreTo(Global(2), V(1)),
                  Gep(3, <<V(2), Const(0), V(1)>>, <<20, 4>>), StoreTo(V(3), Const(9)),
                  LoadFrom(10, Global(1), "i32"), Out(V(10)),
                  CallVoid("write", <<V(1), V(3), Float(3)>>),
                  LoadFrom(4, Global(1), "i32"), Out(V(4)),
                  StoreTo(Global(1), Const(5)), StoreTo(Global(1), V(1)),
                  LoadFrom(5, Global(1), "i32"), Out(V(5)),
                  LoadFrom(6, Global(2), "float"), OutFloat(V(6)),
                  LoadFrom(7, V(3), "i32"), Out(V(7)),
                  Gep(8, <<Global(3), Const(0), V(1)>>, <<20, 4>>), LoadFrom(9, V(8), "i32"),
                  Out(V(9))>>, Ret(V(7)))>>)}

(* Frames whose offsets do not fit 12 bits: in the prologue, in loads and    *)
(* stores of all types, in phi copies; rows of arrays whose size does not.  *)
Large(area) ==
    Main(<<
        B(<<>>, <<In(1), Alloca(2, area), Gep(3, <<V(2), Const(0), V(1)>>, <<area, 4>>),
                  StoreTo(V(3), V(1)), I("sitofp", 4, <<V(1)>>), I("gt", 5, <<V(1), Const(2)>>)>>,
          CondBr(V(5), 2, 3)),
        B(<<>>, <<Gep(6, <<V(2), Const(1), Const(-1)>>, <<area, 4>>), StoreTo(V(6), Const(3000)),
                  I("fadd", 7, <<V(4), Float(1)>>)>>, Br(3)),
        B(<<PhiType("f", "float", <<Inc(V(4), 1), Inc(V(7), 2)>>),
            PhiType("p", "ptr", <<Inc(V(3), 1), Inc(V(6), 2)>>),
            PhiType("t", "i1", <<Inc(V(5), 1), Inc(V(5), 2)>>)>>,
          <<LoadFrom(8, P(3, "p"), "i32"), Out(V(8)), OutFloat(P(3, "f")),
            I("zext", 9, <<P(3, "t")>>)>>, Ret(V(9)))>>)

AllPrograms ==
    IntCases \cup FloatCases \cup {Cast} \cup Loops \cup SelfLoops \cup HeaderLoops
    \cup Joins \cup Triangles \cup LoopsAroundBranch \cup Calls
    \cup {Large(1984), Large(2000), Large(3000), Large(9000)}

AllPipelines ==
    {<<>>, <<"const">>, <<"gvn">>, <<"dead">>, <<"hoist">>, <<"simplify">>, <<"split">>,
     <<"const", "dead", "gvn", "dead", "hoist", "simplify", "split">>}
=============================================================================
