# A verification project for the Cminus-F compiler

Cminusf translates Cminus-F, a small C with `int`, `float` and arrays, to
LoongArch assembly: a parser builds a syntax tree, `CminusfBuilder` turns it
into a light intermediate representation (IR), a pass manager runs
optimisation passes over the IR, and a code generator prints assembly. The
program is one process with one thread. What is hard in it is not concurrency
but state that is kept twice and updated by hand, loops that edit what they
iterate over, fixed points over graphs, results that are cached while the
program they describe is edited, and orders nobody wrote a test for.

This directory holds TLA+ models of the core of it, TLC runs that check them
on small instances, and TLAPS proofs of what holds for every instance.

Contents: 1 inventory, 2 modules and how they correspond to the code, 3 runs,
4 fairness, 5 proofs, 6 findings, 7 limits, 8 plan.

## 1. Inventory

Paths are relative to `src/` of the source tree; *(m)* modelled, *(p)* partly,
*(-)* not modelled yet or at all.

| Component | Code | State | Operations | What is hard | What must hold |
|---|---|---|---|---|---|
| Def-use graph (m) | `lightir/Value`, `lightir/User` | `use_list_` of every value, `operands_` of every user | add, set, remove an operand; `replace_all_use_with`, `replace_use_with_if`; destructors | the two are updated side by side; loops over a list that each iteration edits; renumbering | both agree after every call; the loops end; nothing names a destroyed value |
| Linear-scan allocator (m) | `codegen/Regalloc` | `active`, `used`, `reg_map` | `reset`, `reserve_for_arg`, `expire_old_intervals`, `spill_at_interval`, `linear_scan` | touching intervals, all registers taken, eviction next to arguments, reuse for the next function | overlapping values have different registers; no register leaks; no needless spill |
| Live ranges (m) | `codegen/Liverange` | numbering, live sets, intervals | `get_dfs_order`, `make_id`, `make_interval` and what they call | phis as parallel copies on edges; a sweep that overwrites some sets and accumulates others | the live sets are those of the definition; interfering values have meeting intervals |
| Dominators (m) | `passes/Dominators` | post order, idoms, frontiers, tree | `run_on_func` and its four steps | irreducible graphs, unfinished idoms in the first sweep, self-loops | idoms, frontiers and tree are those of the definition; the sweeps end |
| FuncInfo (m) | `passes/FuncInfo` | `is_pure`, worklist | `trivial_mark`, `process` | recursive call cycles; addresses traced to the alloca they come from | the result is the largest closed set of effect-free functions; it ends; what it calls pure may be merged and dropped |
| Pass manager, driver (p) | `passes/PassManager.hpp`, `cminusfc/cminusfc.cpp` | cached analyses | `getAnalysis`, `run`, `invalidateStaleAnalyses` | an analysis cached by one pass and used by a later one | cached control-flow analyses are fresh; stale purity removes no effect |
| UnreachableBlockElim (m) | `passes/UnreachableBlockElim` | blocks reached | search, removal of blocks and of phi pairs | dead blocks branch to each other and to live ones while edge lists are edited; order of `remove_operand` calls | exactly the reachable blocks stay; edge lists, phis and use lists agree |
| ConstPropagation (m) | `passes/ConstPropagation`, `passes/common/ConstFolder` | known constants and globals, worklist of dead blocks | folding, `simplify_constant_branches`, `simplify_control_flow` | edge removal beside phis; phis that shrink to one pair; blocks removed only when they have no predecessor; i32 and float at their edges; globals across calls | phis match predecessors; SSA form and behaviour stay; it ends |
| DeadCode (m) | `passes/DeadCode` | marks, work list | mark, sweep | dead cycles of phis; trust in FuncInfo | nothing live goes; the rounds end; no reachable effect is lost |
| Mem2Reg (m) | `passes/Mem2Reg` | variable stacks, phis, calls of `rename` | `generate_phi`, `rename`, deletion of loads and stores | iterated frontiers over nested loops; pushes and pops along the dominator tree | SSA form; a load gets the definition that reaches it |
| GlobalValueNumbering (m) | `passes/GlobalValueNumbering` | value table, leaders, replacements | numbering, phi congruence, walk of the dominator tree | phis numbered before their back edges; leaders of the blocks above only; replacements of replaced values | what is replaced is equal and dominated |
| GVN (-) | `passes/GVN` | partitions | | unfinished, in no pipeline | |
| LoopInfo (m) | `passes/LoopInfo` | indices, low links, loops, innermost headers | `find_scc`, rounds without the headers found, `get_parent` | orders of sets of pointers; irreducible graphs; which predecessor decides the parent | the loops are the natural loops; parents enclose; the rounds end |
| LoopInvHoist (m) | `passes/LoopInvHoist` | loop tree, processed blocks | collection, ordering and moving of invariants | hoisted code is hoisted again from the outer loop, operands with their users or behind them | an instruction follows its operands; what can leave a nest leaves it |
| SimplifyPhi (m) | `passes/SimplifyPhi` | worklist, phis to erase | replacement of trivial phis | a replacement makes other phis trivial; in no pipeline of the driver | no trivial phi is left; behaviour stays |
| SplitCriticalEdges (m) | `passes/SplitCriticalEdges` | critical edges collected | split of each | edge lists, branches and phis edited by hand, two edges of one branch; in no pipeline of the driver | no critical edge is left; edge lists and phis agree; behaviour stays |
| Stack code generator (m) | `codegen/CodeGen` | `offset_map`, `phi_temp_offset_map`, `frame_size`, output, `next_phi_edge_id` | `allocate`, prologue, one `gen_*` per instruction, phi copies, calls, epilogue | phi copies that read what others write; offsets beyond 12 bits; sixteen arguments; recursion | every value is in its slot at every block; the code does what the IR says |
| Register code generator (p) | `codegen/CodeGenRegister` | phi map | `get_phi_map`, the loop over functions | unfinished and not called by the driver | |
| IR containers (p) | `lightir/Function`, `BasicBlock`, `Instruction` | block list, edge lists, instruction lists | `create`, `remove`, branch constructors, phi pairs | edge lists are kept beside branch operands; unlinked is not destroyed: use lists keep the entries | edge lists say what branches say |
| Types, constants, printing (p) | `lightir/*` | interned objects | constructors | numbers at the edges of their type | folding agrees with the target |
| IR builder (p) | `cminusfc/cminusf_builder` | insertion point, statements being visited | one visit per syntax node | blocks after a terminator, nested statements that return | every block gets one terminator and nothing after it |
| Lexer, parser, syntax tree, runtime library (-) | `parser`, `common`, `io` | | | generated code, conversion, plain I/O | |

How they interact. Every pass edits the IR through the def-use graph. A pass
asks the pass manager for analyses (`getAnalysis`, computed at first use,
shared until invalidated) and says which survive it. `Dominators` feeds
`Mem2Reg` and `GlobalValueNumbering`; `LoopInfo` feeds `LoopInvHoist`;
`FuncInfo` reads call sites from the use lists and feeds `DeadCode` and
`GlobalValueNumbering`. `Liverange` reads the
phis through `get_phi_map` and feeds two `RegAllocator` objects, one for
integers and one for floats, which are reused for every function. The driver
builds pipelines of `UnreachableBlockElim`, `Mem2Reg`, `ConstPropagation`,
`GlobalValueNumbering`, `LoopInvHoist` and a `DeadCode` after each
optimisation, and then calls the stack code generator. The register code
generator (with `Liverange` and `Regalloc`) is in the tree but the driver does
not call it.

The hazards these components are exposed to are listed, each at its line and
with the properties that watch it, in `PROJECT.json`.

## 2. Modules and the code

| Module | Models | Extends / uses |
|---|---|---|
| `OperandGraph` | abstract: what the IR promises about operands | |
| `UseDef`, `UseDefProofs` | `Value`, `User`, phi pairs | refines `OperandGraph` |
| `LinearScan`, `MCLinearScan`, `LinearScanProofs` | `RegAllocator` | |
| `Liveness` | `LiveRangeAnalyzer`, `get_phi_map` | |
| `Allocation` | abstract: what register allocation promises | |
| `RegisterAllocation`, `MCRegisterAllocation`, `RegisterAllocationProofs` | `CodeGenRegister::run` up to the registers of a function | `Liveness` and `LinearScan` composed; refines `Allocation` |
| `Dominators` | `Dominators::run_on_func` | compared with `Dominance` |
| `Purity` | abstract: the set of pure functions, in closed form | |
| `FuncInfo` | `FuncInfo::run` | `Purity` |
| `Effects` | `FuncInfo::trivial_mark` on the functions of a program | `Ir`, `Purity` |
| `PassManager`, `MCPassManager`, `PassManagerProofs` | `PassManager::run`, the pipelines of `main` | `Purity`: the composition takes FuncInfo by its result, which `FuncInfo` shows |
| `Ir` | a function: block list, edge lists, terminators, phis, instructions | |
| `Arith`, `ConstFolder` | constants, i32 and float arithmetic; `ConstFolder` | |
| `Builder` | `CminusfBuilder` on the statements of a function | `Ir` |
| `BlockElim`, `Mem2Reg`, `ConstProp`, `DeadCode`, `Gvn`, `LoopInvHoist` | the passes of these names (`Gvn`: `GlobalValueNumbering`) on one function | `Ir`; `Mem2Reg`, `Gvn` and `LoopInvHoist` also `Dominance` |
| `Compile` | builder, pipeline and the two executions | all of the above |
| `IrProofs` | theorems about the builder, the passes and their composition | `Compile`, `SimplifyPhi`, `SplitCriticalEdges` |
| `Lemmas` | facts about sequences, orders and finite sets that the proof modules share (no code) | |
| `Dominance` | abstract: dominance, frontiers, tree, natural loops, in closed form | compared with `Dominators` and `LoopInfo`, used by the passes |
| `CompileDominators` | `Dominators` on what a pipeline leaves | `Compile`, an instance of `Dominators` |
| `LoopInfo` | `LoopInfo::run`, `find_scc`, `get_innermost`, `get_parent` | `Dominance` (natural loops) |
| `MCAnalyses` | a request of one of the three analyses | `Dominators`, `LoopInfo`, `FuncInfo` |
| `AnalysesProofs` | theorems about the three analyses | `Dominators`, `LoopInfo`, `FuncInfo` |
| `SimplifyPhi`, `SplitCriticalEdges` | the passes of these names on one function | `Ir` |
| `Frame` | `CodeGen::allocate` | |
| `CodeGen`, `CodeGenProofs` | the stack code generator, on a module | `Ir`, `Arith`, `Frame` |
| `IrMeaning` | what a program of the IR does when it runs (no code) | `Ir`, `Arith` |
| `Machine` | the target, as far as the code uses it (external) | `Arith` |
| `BackEnd`, `MCBackEnd` | passes on `main`, code generation, three executions | all of the above but the front end |

Operators called `Mutant of ...` next to a definition are that definition with
a plausible mistake; putting one in its place makes the named property fail.
They are used by nothing.

### UseDef

`operands[u]` is `operands_`; `uses[v]` is `use_list_`, as a bag of pairs
(user, operand number). The order of the list is left out: it decides only
which use a loop takes first, and the model lets the loop take any. Operand
numbers start from 1 (0 in the code). `alive` are the values whose destructor
has not completed. `set_operand`, `add_operand`, `add_phi_pair_operand`,
`remove_all_operands` are one action each. A call with a loop over a use list
sets `job` and each iteration is a step (`ReplaceOne`, `ReplaceIfOne`,
`RenumberOne`), so that the loop's test meets the list as its earlier
iterations left it. `Destroy` is `~User` followed by `~Value`, whose loop is
the one of `replace_all_use_with` with a null replacement. `remove_use`
removes every equal entry, as `list::remove` does.

`DropIncomingPair` is what `ConstPropagation` does to drop an incoming pair:
`remove_operand(i)` twice. `DropIncomingPairBackwards` is the order of
`UnreachableBlockElim`, the predecessor first. The driver runs that pass only
before `Mem2Reg` creates phis, so `Spec` leaves it out and `SpecBackwards`
puts it in. What the callers ensure is in the guards: types of operands are kept
(a label replaces a label, phi operands alternate), no call starts inside
another, `remove_operand` is called where no operand is null (it dereferences
every later operand without a test).

### LinearScan

One action per case of the loop of `linear_scan` (`Skip`, `Assign`,
`LeaveInMemory`, `TakeRegister`), each with the `expire_old_intervals` that
precedes it, and `StartScan` for `reset` and `reserve_for_arg`. A value is
its address (a number), because both orders of intervals end in a comparison of
pointers. `reg_map[v] = 0` is the absence of an entry. Functions are inputs:
the intervals of arguments start at 0 and those of a function that follows
another belong to other objects.

### Liveness

A function is a record of blocks in list order, successors, phis with an
incoming value per predecessor, and bodies of (uses, definition). `Traverse` is
a call of the recursive depth-first search, `MakeId` numbers instructions and
copies, `SweepStart` and `VisitBlock` are the loops of the data-flow analysis,
`MakeInterval` takes the hulls. `Id` gives the *last* number an entity got, as
the assignment into `copy_id` does. The sets of instructions accumulate, those
of copies are overwritten, and only the former set `changed`.
The definition of liveness that the result is compared with (`Live`) is stated
over program points and does not use numbers, blocks in order or sweeps.

### RegisterAllocation

The steps of `Liveness`, then `StartScan` of `LinearScan` on the intervals that
it made (`LiveIntervals`), then the scan: the three calls of
`CodeGenRegister::run`, with `ra_float` as a second instance of the same code
left out. Here `no_reg_alloca` is computed from the uses in the function (a
comparison that only a branch uses gets no register), while `LinearScan` alone
takes it as an input. `Allocation` is the promise: it knows which values are
live at a common point (`conflicts`, from the path definition of liveness) and
in one step gives every value a place such that values in conflict share no
register. The refinement maps `place` to `reg_map` once the scan has ended, so
numbers, live sets and intervals are all hidden; what it adds to
`InterferenceKept` and `NoOverlap` is that the output of the analysis is an
input the scan accepts, that the two orders fit together, and that both end.

### Dominators

`PostOrderVisit` is one iteration of the recursive visit, its calls on `stack`.
A block of a sweep is `PickPred` (the first predecessor with an idom),
`JoinPred` (the next predecessor), `Intersect` (one step of a finger) and
`JoinEnd`. Predecessor lists are taken in any order. `StartWalk` and `WalkUp`
build the frontiers, `BuildTree` the tree. `WalkUp` has no step for a null
runner, where `idom_.at` throws: a run would report a deadlock.

### FuncInfo and Purity

`TrivialMark` is the look at one function, whose outcome (does it store or load
something other than its own `alloca`, is it `main`, a declaration, or has it an
array parameter) is an input. `Process` takes the head of the worklist; its
callers are met in any order.

### PassManager

Of the IR the model keeps a version of the control-flow graph and, per
function, whether it has global loads, global stores and which functions it
calls: in reachable code (`hot`), in code no execution reaches (`cold`), and
in blocks that were unlinked but whose calls stay in the use lists
(`unlinked`). `RunPass` is an iteration of `PassManager::run`: request, run,
invalidate. What a pass may do is a set of results: `DeadCode` may erase any
loads and any calls of functions the *cached* FuncInfo calls pure; the passes that
edit the graph may unlink the cold code of any functions. Mem2Reg, value
numbering and hoisting change nothing that is kept here.

### Ir and Builder

A function is one record `ir`: `blocks` is `basic_blocks_`, `succ` and `pred`
are the edge lists of every block, `term` its terminator, `phis` its phis and
`body` the rest, records of an operation, its operands and, if it defines one,
its value: stores and loads, arithmetic, comparisons and conversions, calls,
address computations and allocas. The front end needs few of them (stores and
loads of local scalars, and one operation per expression); `BackEnd` has all. `Terminate` is the
constructor of `BranchInst`, which appends to both edge lists; `RemoveBlock` is
`Function::remove`, which edits the lists of the neighbours and leaves those of
the block. A phi is its variable and its (value, predecessor) pairs.

`Builder` takes the program as input: at each point any statement may come.
`insert` is the insertion point, `open` the statements whose visits are in
progress. The visits of `if`, `while` and of index checks are actions at the
places where the code creates blocks, branches or moves the insertion point;
"if not terminated" is `Seal`.

### The passes on one function

Each keeps its local state in one variable (`elim`, `m2r`, `cp`, `dc`, `hoist`,
`gvn`, `simp`, `split`): an iteration of a worklist loop is an action. `Mem2Reg` has one action per
block of the worklist of `generate_phi`, per call of `rename` and per return
from one. `ConstProp` folds a block per action, straightens all branches on
constants at once (`simplify_constant_branches` has no state between branches
but the edge lists) and removes a block of the worklist per action; the
worklist starts in any order, as the blocks come out of a set of pointers.
`DeadCode` alternates mark and sweep. `LoopInvHoist` handles a loop per action,
at any time after its subloops; the invariants move in any order in which
operands precede their users, of which the worklist of
`compute_topological_order` gives some. `Gvn` has one action per call of
`analyzeGVN` up to its recursive calls, per return, and per replacement; the
children of a block and the replacements come in any order, as out of sets of
pointers. `LookupStep` is a step of the recursion of `lookupOrAdd`, whose calls in
progress and to come it works off, and `LookupOrAdd` the `ValueTable` after all of
them; a number is looked up in that. Operations on
constants fold, operands of commutative operations are sorted, tests are turned
around, and a call of a pure function is its callee and arguments; what
everything else defines has a number of its own. `Dominators` and `LoopInfo`
are taken by their results (`Dominance`), which the run `analyses` and the proofs
about them show.

`ConstProp` and `Gvn` share `ConstFolder`, whose results are sets, empty where the
code returns `nullptr`. `Arith` has integers of `IntBits` bits that wrap, and
floats as halves up to `MaxFloat`, infinities and NaN. A division of the least
integer by -1 is undefined in the compiler itself: `FoldTraps` ends the run.

`SimplifyPhi` takes the phis that use a replaced one in any order, that of use
lists. `SplitCriticalEdges` collects first (`CollectCriticalEdges`) and splits an
edge per action.

`Effects` gives `FuncInfo` on the functions of a program: `FirstAddr` is
`get_first_addr`, `SeemsPure` is `trivial_mark`, and the worklist is taken by its
closed form, which the run and the proofs of `FuncInfo` show. `Gvn` and
`DeadCode` get the result when they start.

### Compile

`pipeline` holds the passes so far. `NextStage` is the step of `PassManager::run`
to the next pass; where pipelines have the same beginning the choice between
them is left until they differ. At the end
`StartRun` and `RunBoth` execute the function as built (with memory) and as
optimised (with values) side by side, a block at a time, on all arguments. The
execution is a definition of the meaning of the IR and models no code.

`CompileDominators` puts `Dominators` behind the pipeline, where
`GlobalValueNumbering` requests it.

### LoopInfo

`calls` is the recursion of `traverse`, with the successors that are left;
nodes and successors come in any order, as in a `DenseSet` of pointers. `Root`,
`Descend`, `Meet` and `Leave` are the cases of the recursion, `Ascend` the
`min` after a call. `Collect` is a round of `run`, which
records the components that are loops with one header and takes their headers, and
all other components, out of `graph.nodes`; then `find_scc` begins again.
`MCAnalyses` has the three analyses and requests one of them (`analysis`).

### Frame and CodeGen

`frame` is the frame of the function being compiled: `AllocateValue`,
`AllocatePhi` and `AllocateAlloca` are the cases of the loop of `allocate`.
`unit` is the module, `context` the place in it, `output` the code so far. The
code of an instruction is one action (`GenBinary` ... `GenGep`), that of a
terminator another (`GenRet`, `GenJump`, `GenCondBr`); `GenPrologue` begins a
function, and the last block ends with the epilogue. An instruction of the
target is a tuple of what its line of assembly has. Every choice the code makes
by the size of a number (`IS_IMM_12`) is in the model, and so is how it puts
large numbers together. `ParallelCopies` is `emit_parallel_phi_copies`.

Immediates of 12 bits and offsets keep their size; the 32 bits of an integer, the
20 bits that are left of it beside 12, and the double word scale with `IntBits`.
With 15 bits, 3000 and -3000 are large, the least and greatest integers are
-16384 and 16383, and frames of 2000 to 9000 bytes are beyond 12 bits.

### IrMeaning, Machine and BackEnd

`IrMeaning` says what a program of the IR does: activations with the values
computed, memory behind pointers (an object and an offset), and the calls of the
library, which are all that is seen. `Machine` executes the code: registers,
bytes of memory of which a store takes as many as it is wide, and `bl` to the library,
which leaves junk in every register that a callee may use. Neither models
code of the compiler; the target and the library are modelled from how the code
uses them.

`BackEnd` takes a program in SSA form (the functions that `main` calls, and
`main`), runs a pipeline of passes on `main`, generates the code of all functions, and
executes three things: the program as it was, the program after the passes, and the
code. The last two go side by side from block to block (`turn`), so that
`SlotsHoldValues` can compare them at every label.

## 3. Runs

| Run | Bounds | Shows |
|---|---|---|
| `use_def` | one phi of at most two pairs, one instruction of at most two operands, one plain value, one label | `UsesExact`: use lists and operands agree between calls and inside replacement loops; `NoDangling`; `LoopsEnd`; `ImplementsOperandGraph`: each call has on the operands the effect `OperandGraph` gives it, at once |
| `use_def_backwards` | same | *violation* of `UsesExact`: section 6 |
| `linear_scan` | 2 registers, 1 argument register; one function of 4 or 5 values with every interval over 3 positions, or two functions of 3 values over 2 positions one after the other | `NoOverlap`, `RegistersAccounted`, `ArgumentsKeepTheirRegister`, `SpillOnlyUnderPressure` |
| `linear_scan_convention` | 3 registers, 2 for arguments, an int argument after a float one | *violation* of `ArgRegMatchesConvention` |
| `register_allocation` | diamonds with one and two phis, loops with two phis, nested branches; 4 to 6 blocks; 3 registers, 1 for arguments, so that some functions spill | `LivenessExact`, `InterferenceKept`; `ImplementsAllocation`: analysis and scan end, and together refine `Allocation` |
| `live_range_copies` | diamonds with two phis, with arms of copies only | *violation* of `StartsAtFirstLivePosition`: section 6 |
| `analyses` | for `Dominators`, every graph of 4 reachable blocks with at most 2 successors each, up to renaming; for `LoopInfo`, every graph of an entry and 4 blocks that it reaches, with at most 2 successors each, up to renaming, the entry not a target; for `FuncInfo`, every call graph of 4 functions (main calls one or two others and is not called), every set of functions with effects | `NoDominatorLost` during the sweeps; `IdomCorrect` and `MatchesDominance` (frontiers and tree) at the end; `LoopsNatural`, `ParentEncloses`; `PurityTypeOK`, `NoCallerForgotten`, `ResultIsPureFunctions`; `AnalysesEnd` |
| `pass_manager` | all pipelines; 3 functions and a library function, any mix of effects and calls in two of them | `CfgAnalysesFresh`, `EffectsKept` |
| `compile` | every function of at most 3 statements (assignment, return, index check, `if`, `while`) over a parameter and a local; the pipelines of `-mem2reg -const-prop` and of `-mem2reg -gvn` | `NothingAfterTerminator`, `AllTerminated`, `EdgesAgree`, `OnlyReachableKept`, `PhisAgree`, `SsaForm`, `SameBehaviour` |
| `compile_loops` | every function of at most 4 statements that are loops and assignments of operations, with operations as conditions; `-mem2reg -loop-inv-hoist` without and with `-gvn` | `InvariantsLeave`, `SameBehaviour`, `PassesEnd` |
| `const_prop_dominators` | functions of 2 branches and loops with constant conditions; `-mem2reg -const-prop -gvn` | *violation* of `WalkMeetsIdom`: section 6 |
| `code_gen` | 445 programs: every operation and test at the edges of i32 and of float, loops whose phis swap, rotate and feed each other, loops of one block, joins and triangles of two phis, nested calls with sixteen arguments, recursion, writes through pointers and to globals, pure and impure functions, frames beyond 12 bits; inputs 0 and 3; `IntBits` = 15; no pass, each of six passes, and all of them | `SameResult`: program, passed program and code make the same library calls and return the same; `SlotsHoldValues` at every block; `FrameDisjoint`, `ImmediatesFit`, `NoTrivialPhi`, `EdgesSplit` |

Why the bounds are enough for the interesting cases. Two pairs in one phi make
equal neighbours, which is where renumbering and removal meet; a phi and an
instruction that use each other and themselves make every kind of cycle. Two
registers and three or more values make every register busy, with eviction,
leaving in memory and expiry in the same scan, and intervals that touch, nest and
coincide; one argument register next to two registers is the smallest instance
of the code's relation (8 of 15 and of 22) and the victim search passes over an
argument. Four blocks contain irreducible loops, self-loops, two back edges to
one header and a join of three predecessors; with an entry before them they
contain loops nested three deep and siblings in a loop. Four functions make call
cycles that meet. The pipelines of `pass_manager` are those of the driver, all of
them. Three statements nest a loop in a loop around an assignment (phis on the
frontier of phis), put a branch with returning arms in a loop, and make chains
of two invariant operations; two variables are needed for such a chain, for a
phi that another phi uses and for a value that survives its variable. A fourth
statement (`y = !x; while (!x) { x = !x; y = !x; }`) is what it takes for an
operation on a phi to be the phi of its results. Conditions are a constant or
values, and values become constants, so that a branch is cut off on either
side. In `code_gen` the programs are chosen, not enumerated: what can
be wrong there depends on the shape around an edge (both edges of a branch with copies, a block
that is its own successor, a critical edge), on numbers at a boundary and on
the number of arguments, and each of these has its family of programs. 15 bits
are the fewest with integers on both sides of 12-bit immediates, and with
halves of a large number that are themselves negative.

Bounds in the modules: `MaxOps`, `MaxInstOps` (operands), `MaxFunctions`
(scans), `MaxStmts` (statements), `MaxBlocks` (blocks,
enough for `MaxStmts`; `SplitEdge` takes no more than there are), `MaxLookups` (calls of
`lookupOrAdd` that one instruction starts; were it too small, a value would have no
number and TLC would stop with an error), `MaxFloat` (floats beyond are infinite).
A run in which `MaxBlocks` were too small for a split would report a deadlock.

Deadlock is checked in every run but the two of `UseDef`, where every value may
have been destroyed. The others end in a step that changes nothing (`Finished`,
`Ended`, ...), enabled only in the state where the call returns, so that
stopping anywhere else is reported.

## 4. Fairness

The code is sequential: a call that has a next step takes it. `MCAnalyses`
and `RegisterAllocation` state weak fairness of their steps, every step of
the call; `UseDef` of `Loop` only, the iterations of a call in
progress: that some pass makes another call is assumed by nothing. `Compile`
states it of the steps of the passes and of the step to the next pass, not of
the builder, whose input may go on (`PassesRun`, which spells out the enabling
condition because TLC would compute it from the passes in every state).
`LinearScan` on its own, `PassManager`, `CompileDominators` and `BackEnd` have no liveness
property and no fairness: a run of them that stops early is a deadlock. Termination in the model therefore says that the work runs
out, not that somebody schedules it.

## 5. Proofs

TLAPS proves, for every value of the constants that satisfies the assumptions
named in the module:

**LinearScanProofs** (assumption `LinearScanAssumption`: the functions are
well-formed, argument intervals start at 0, argument numbers differ, and
`ARG_MAX_R < num_regs`).

- `Invariance`: `IInv` is inductive. `NoOverlap` is not inductive alone: that
  the register just taken is free of overlap needs that a register outside
  `used` belongs to no active interval (`RegistersAccounted`), that a value in
  a register that is not active ended before everything still to be visited
  starts (`ExpiredInThePast`, which rests on the order of visits), and that
  what is unvisited has no register (`UnvisitedFree`). One lemma per action.
- `TypeCorrect`, `AllocationValid` (`NoOverlap`), `NoRegisterLeaks`
  (`RegistersAccounted`) follow.
- `SpillInvariance`: what is active is a candidate or an argument in a register,
  and what was visited and is in memory met pressure. With it a full active
  set contains a value that is not an argument, since there are more registers
  than argument registers (`ReservedAreFew`, `VictimIsNoArgument`), and an
  eviction happens at a position where one value more than registers is live
  (`PressureAtSpill`). `ArgumentsStay` and `NoNeedlessSpill` follow.

**RegisterAllocationProofs** (assumptions `LivenessAssumption`: every function is
`WellFormed`, that is, it has finitely many values and uses no others, every block ends
in a terminator and is reachable, and no block branches to the first; and
`RegisterAssumption`: values have different addresses, and `ARG_MAX_R < num_regs`. TLC
evaluates both on the functions of `register_allocation`). The analysis, for functions
of any size and with any phis:

- `LiveIsLeast`: `Live`, defined by paths, is the least solution of the equations of
  liveness over the points.
- `Numbering`: `make_id` gives every instruction and every copy a number, so that the
  sets can be read by instruction and copy (`SetsOf`) and the proofs can do without
  numbers. `DfsInv` is the invariant of `get_dfs_order`: every block is met once, after one of
  its predecessors. The sweeps go over it in reverse, so that every block but the
  first is visited before some predecessor.
- `LiveInvariance`: `LiveInv` is inductive; its core is `SweepInv`. No set exceeds any
  solution of the equations (`Sound`): a sweep never makes too much live. In the
  other direction the code stops when no `in_set` of an instruction has grown, and
  that has to be enough for the sets of copies too, which are overwritten and not
  watched. A block that was visited satisfies its own equations, with the sets of
  its copies computed from those of its instructions (`Settled`). While nothing has
  grown in this sweep, what enters a block was seen by every predecessor already
  visited (`Seen`), or it is not empty and waits for a predecessor that no sweep has
  visited and whose sets will therefore grow (`Awaited`; only in the first sweep).
  So a sweep without growth has reached a fixed point (`SweepEnds`),
  and one within every solution is the least one (`FixedIsExact`).
- The sets of a block stand for it only if no other block writes to them: copies with
  the same source and destination share a number (finding 4). What the other blocks read is the set at
  the entry, hence the hypothesis that the entries are their own (`EntriesOwn`), which both
  `CopiesDiffer` and `EntryCopiesDiffer` give (`EntriesAre`).
- `AnalysisExact` (`LivenessExact`). `IntervalsMeet` (`InterferenceKept`): what is live at a
  point is recorded at one position, the same for all values, even where the copies of
  the block share their numbers (`TouchedTogether`); and an interval is the hull of
  the positions.

The analysis and the scan:

- `RegisterInvariance`: `RegInv` composes `LiveInv` with the invariant of
  `LinearScanProofs`, instantiated. What the analysis ends with is an input as the scan
  assumes it (`IntervalsScanned`).
- `RefinesAllocation`: if the entry copies of the function differ, every step maps to the
  one of `Allocation` or to a stutter (`Promise!AllocationSafety`): values live at a
  common point, by the definition of liveness, are not in one register when the scan has
  ended. `ImplementsAllocation` adds that it ends, which is left to TLC.

**AnalysesProofs**, FuncInfo (assumption `FuncInfoAssumption`, and that the set of
functions is finite, which follows from it).

- `PurityInvariance`: `PurityInv` is inductive. It adds to the type invariant that a
  pure function is a candidate that was looked at, that what waits is impure
  (`WaitingImpure`), that until every function was looked at each impure one
  waits (`ImpureWaiting`), and that every closed set of candidates stays pure
  (`ClosedStaysPure`): the worklist never marks too much, and
  `NoCallerForgotten` says that it does not mark too little.
- `PurityTypeCorrect`, `CallersRemembered`, `PurityCorrect`
  (`ResultIsPureFunctions`: the result equals the closed form of `Purity`).

**PassManagerProofs** (assumption `PassManagerAssumption`).

- `CacheInvariance`: what is cached for the control-flow graph was made for the
  present graph, and the cached set of pure functions is *safe to erase*: no
  function in it stores to a global or calls one outside it in code an execution
  may reach. This is weaker than being what FuncInfo would compute now, which
  does not hold, and it is what erasing loads and calls preserves.
- `AnalysesFresh` (`CfgAnalysesFresh`), and the action property `NoEffectLost`
  (`EffectsKept`): whatever has an effect is reached along calls that remain.

**AnalysesProofs**, Dominators (assumption `DominatorsAssumption`).

- `AnalysisInvariance`: `IInv` is inductive, on every graph, unreachable blocks
  included, for every order of predecessors. The stack of the search is a path
  (`SearchInv`), so a dominator of a block lies below it on the stack
  (`DominatorsBelow`) and is left after it (`DominatorsLater`); the two fingers of
  `intersect` stay below every block that dominates the join
  (`FingersDominated`). `NoSweepClimbsTooFar` (`NoDominatorLost`) follows: an
  idom that is not final yet is too near, never too far up.
- `IdomsAreImmediate` (`IdomCorrect`), when every block is reachable: in the last
  sweep nothing changed, so every idom already visited is that of its
  predecessors (`SettledBehind`, `FingersClimb`), and a block on the idom chain
  is a dominator. `const_prop_dominators` shows what the hypothesis is worth.
- `FrontiersAndTree` (`MatchesDominance`), when also the set of blocks is finite
  and no block branches to the entry (`NoBranchToEntry`: the builder has no
  statement that would): a walk climbs the chain of its predecessor and stops
  at the idom of the join (`WalkClimbs`), and every walk that is over has left
  its join in the frontiers it passed (`WalksComplete`). The definitions of
  `Dominance` fold over sets; `ReachedIsLeast` shows that they compute the least
  closed set, by a counterexample of largest size.

**AnalysesProofs**, LoopInfo (assumption `LoopInfoAssumption`; every graph is a function
after `UnreachableBlockElim`, `WholeFunction`, which the graphs of `analyses` satisfy;
the set of blocks is finite).

- `SccInv` is the invariant of `find_scc`, kept by every step of the recursion
  (`SccKept`). Indices grow along the stack and along the calls; every edge from
  a node on the stack is still to be looked at, or leads to a finished node, or
  is in the low link (`EdgesSeen`); a low link is the index of a node that is
  reached without going below (`LowReached`) and is smaller than the index of a
  node whose call is over (`LowFell`). Therefore what `Leave` takes from the stack
  leads nowhere else on it, and every part of it leads to its root: it is a
  strongly connected component (`Component`).
- `LoopInv` is the invariant of the rounds. No natural loop is cut but at its
  header (`LoopsWhole`), and what remains of a component can only be entered
  from a header that was taken and dominates it (`Regions`): so a component with one
  header is the natural loop of that header, in any round. On a reducible
  graph every component has one (`LoopsTaken`). `LoopsAreNatural`
  (`LoopsNatural`) follows.
- `NestInv` is about `bb2base`: loops found so far are nested or apart, later ones
  lie within earlier ones, and the innermost header of a block is that of the
  smallest loop found around it. `ParentsEnclose` (`ParentEncloses`) follows, with
  the observation that every block of a loop has a successor in it.

**UseDefProofs** (assumption `UseDefAssumption`).

- `BookkeepingInvariance`: `UsesExact` does not hold inside `remove_operand`, whose
  loop renumbers one use at a time. `Counted` says what each count is there: the
  operands up to `next` have moved, and the removed operand's own use is still
  in the list beside the one that moved onto it. That removing all equal entries
  then removes one needs that neighbours differ, which holds because a phi
  alternates values and labels (`Alternates`); the finding of section 6 is the order
  of calls for which they do not.
- `TypeCorrect`, `UseListsAreExact` (`UsesExact`), `NothingDangles` (`NoDangling`).
- `RefinesOperandGraph` (`ImplementsOperandGraph`): each step of `UseDef` is a call of
  `OperandGraph` or a stutter. The refinement maps a loop in progress to the
  operands it will leave (`FinalOperands`), so that the call takes effect where it
  begins.

**CodeGenProofs** (the frame of the stack code generator).

- `FramesDisjoint` (`FrameDisjoint`): of the values that `allocate` has gone over
  (`Placed`), all parts are aligned, apart and above `-offset`; the next part is put
  below. For any functions of which `SlotsOf` gives every value once, of 1, 4 or
  8 bytes, and an alloca as a pointer to an area of words. The area of an
  alloca is not aligned by itself; that its start is aligned rests on the
  pointer slot before it and on the size of areas.

**IrProofs** (assumption `BuilderAssumption`: a statement creates at most three blocks
and the bound on blocks has room for them; programs of any length and nesting, over the
operators of `Kinds`, and any pipelines. That `Numbers` and `Tests` are 0 and 1 plays no
part in the proofs). The builder:

- `BuilderInvariance`: a block without a terminator is the insertion point, or one that
  an open statement will go on with (`Pending`); no two open statements wait for the
  same block, and the insertion point is none of them (`PendingOpen`,
  `OthersTerminated`). Blocks are numbered in the order of their creation, so what a
  statement creates is new (`BlocksNumbered`). One lemma per action; `GrowFacts`
  states once what creating blocks, writing code and branching do together.
- `TerminatorsLast` (`NothingAfterTerminator`): where the builder does not look for a
  terminator before it branches, as after a condition or an index check, the block is
  one that the same statement created and left open.
- `BuilderGraph`: the edge lists are those of the branches after every visit
  (`EdgesMatchBranches`), and every block has a terminator in the end
  (`AllTerminated`).

The builder and the passes composed (`Spec` of `Compile`):

- `CompileInvariance`: `CompileInv` is inductive. Between two passes the function is
  `Wired`: blocks differ, each has a terminator whose targets are blocks of the
  function, `succ` says what the terminators say, and `pred` names exactly the
  blocks *of the function* that branch here. The last is what a pass that removes a
  block must restore in the lists of the others. Inside a pass `PassInv` adds what its
  loop relies on. `UnreachableBlockElim` breaks `Wired` while it removes blocks that
  dead blocks still branch to; `ElimInv` keeps that what was reached is closed but
  for the worklist and lies in every closed set, and that what is to go is still in
  `left`. `ConstPropagation` keeps `Wired` at every step, since `Straighten` takes both
  edges away before it makes one, and a block goes only when nobody branches to it;
  `ConstInv` adds that what waits is a block or gone. `Mem2Reg`, `DeadCode`,
  `GlobalValueNumbering` and `LoopInvHoist` keep branches and edge lists
  (`SameGraph`), through the calls of `rename`, the rounds and the replacements; that
  `LoopInvHoist` only edits blocks of the function is in `HoistInv`.
- `CompileEdges` (`EdgesAgree`), `CompileReachable` (`OnlyReachableKept`: the blocks kept
  are the least set that contains the entry and is closed under branches),
  `CompileTerminated` (`AllTerminated`) and `CompileTerminators`
  (`NothingAfterTerminator`).

The passes outside the pipelines start from any function, since the driver has none
that feeds them:

- `SimplifyInvariance`, `NoTrivialPhiLeft` (`NoTrivialPhi`): a phi that is trivial is
  in the worklist or marked for removal, in any order of use lists: a replacement can make
  trivial only phis that used the replaced one, and those are pushed. The hypotheses of
  `SimplifySpec` are that the function is one and that phis of a block differ.
- `SplitInvariance`, `NoCriticalEdge` (`EdgesSplit`): an edge that is critical is among
  those collected and waits (`WaitingEdges`), although each split changes the edge lists
  from which the rest was collected: a split makes no block fork or join that did not,
  and the two edges of the new block are not critical. What waits is
  a branch to two different blocks, so that `RewriteBranch` finds its one target. The
  hypotheses of `SplitSpec` are that the function is `Wired` and its phis have one pair
  for every predecessor. In every state of `code_gen` in which one of the two passes
  runs, those hypotheses hold of the function (checked once with TLC; there the
  functions come out of the passes of the pipeline).

What the proofs do not cover, and stays with TLC:

- Termination and the other liveness properties, out of the prover's reach.
- `SameBehaviour` and `SameResult` compare two or three executions: a proof would need a
  simulation relation for every pass and for the code generator, and the meaning of a
  program is a recursion over its runs, of which the prover knows nothing.
  `SlotsHoldValues` is a part of such a relation. `ImmediatesFit` rests on powers of 2,
  a recursive function for which induction is needed.
- `SsaForm` and `InvariantsLeave` need the dominance of definitions over uses, and with it
  the correctness of the phi placement of `Mem2Reg`. `PhisAgree` is not kept by
  `ConstPropagation` on any function: it rests on which blocks of the builder can
  lose an edge and keep another (section 6), so that its proof needs the structure of
  the builder's graphs through all passes.

## 6. Findings

Each is a run that TLC finds violated; `PROJECT.json` quotes the lines.

1. `User::remove_operand` drops a use when the operand after the removed one is
   the same value (`use_def_backwards`). `UnreachableBlockElim` removes the
   predecessor of a phi pair first and so makes neighbours of two incoming
   values. With the pipelines of the driver there is no phi yet.
2. `reserve_for_arg` numbers argument registers over all the arguments, the
   prologue per class (`linear_scan_convention`).
3. `ConstPropagation` removes only blocks whose predecessor list is empty, so a
   loop in the branch that it cuts off stays in the function, as in
   `if (0) { while (x) {} }`. `GlobalValueNumbering` then requests `Dominators`,
   and the walk that collects the frontiers runs from a predecessor without
   dominators into `idom_.at(nullptr)` (`const_prop_dominators`).
4. Two copies with the same source and destination share one id in `Liverange`
   (`copy_id` is keyed by the pair). Where both predecessors of a phi hold nothing but
   copies and this is the first of each, the set live into one block is
   read as that of the other, and the interval of a value used by a later copy begins too late:
   `StartsAtFirstLivePosition` (`live_range_copies`), and values that interfere may
   get one register.

Observed while modelling and harmless as far as the runs go:

- A FuncInfo cached across `DeadCode` may call a function impure that a
  recomputation would call pure (the last global load of it was removed); the
  error is on the safe side, and `EffectsKept` holds.
- Where copies that share an id are not the first of their blocks, the interval of
  such a phi may start late; values that interfere still have intervals that meet
  (`InterferenceKept`, whose functions satisfy `EntryCopiesDiffer`).
- `simplify_constant_branches` removes an edge and leaves the incoming pairs of
  the phis behind it. The only block of the builder that can lose an edge that
  way and keep another predecessor is the continuation of an index check, which
  never has a phi: `PhisAgree` holds.
- `get_parent` asks for the innermost loop of the first predecessor outside the
  loop, and misses the parent when that is a sibling loop with an exit to this
  one; it does not when the predecessor branches to the loop only
  (`ParentEncloses`), which is what `LoopInvHoist` requires before it moves
  anything.
- `simplify_constant_branches` in SSA form can leave, in a block that has become
  unreachable, a phi with a pair for a predecessor that has gone on; the block
  goes with the worklist.
- Folding -2^31 / -1 is a division of the compiler's own that may trap on the host
  (`ConstFolder.cpp:50-51`), where the target wraps. `FoldTraps` ends the run.
- "Not equal" of NaN is true in the folder, false in the generated
  `fcmp.sne.s`, and printed as `une` in the IR. A program that asks has no meaning in
  `IrMeaning`, so that the passes and the code may differ on it.
- `ConstantFP::get` finds its constants by `==`, so that 0.0 and -0.0 are one; the
  floats of `Arith` have one zero.
- A division by zero that `LoopInvHoist` moves in front of the test that guards it is
  executed, and its result is not used: the target does not trap (`SameResult`
  over `LoopsAroundBranch`).

## 7. Limits

- The graphs of `Dominators` in `analyses` have only reachable blocks ("Keeps
  only blocks reachable via CFG edges from the entry block",
  `src/src/passes/UnreachableBlockElim.cpp:34-35`); finding 3 is what happens on
  others.
- The functions of `register_allocation` satisfy `EntryCopiesDiffer`; finding 4 is what
  happens on others.
- In `Compile` variables are scalars, all promotable; the expressions have one
  operation of one operand. Arrays appear as index checks only. Operations with two
  operands, conversions, calls, globals and arrays are in the programs of `BackEnd`,
  which is not fed by `Builder`: its programs are given in SSA form.
- Scopes of names, the types of declarations and where the builder inserts
  conversions are left out of `Builder`.
- `BackEnd` applies passes to `main` only; the functions that it calls are compiled
  as they are. `Mem2Reg` and `UnreachableBlockElim` come before SSA form and are
  left to `Compile`.
- `PassesEnd` is checked for the pipelines of `compile_loops`, not for
  `ConstPropagation`, in whose run only deadlock and safety are.
- In the pipelines of the driver `UnreachableBlockElim` runs before there are
  phis: its removal of phi pairs has nothing to do in `compile`, and the calls it
  makes are the subject of `use_def_backwards`.
- Loops in unreachable code, which `LoopInfo` finds after `ConstPropagation`
  has cut something off, are not processed by the model of `LoopInvHoist`.
- Floats are halves with a bound, so that rounding happens at halves; the bits of a
  float, and the two instructions that put them into a register, are one
  instruction of the model.
- The section of the global variables and the text of the assembly are not in
  `CodeGen`: a global is an address. Frames beyond 2 GB, where 32-bit
  offsets would wrap, are not reached.
- `linear_scan` takes any intervals as input; `register_allocation` composes the
  scan with the analysis on one function and for integer values only.
- `FuncInfo` takes the look at a single function as an input, `Effects` has that
  look and takes the worklist by its closed form; `PassManager` takes FuncInfo by
  its closed form too.

Not modelled, and why. Lexer and parser are generated from grammars. The syntax
tree is built, visited and printed, and never changed. The runtime library and
the log are input and output. `IRprinter`, names and interned types are text
and lookup without behaviour over time. `passes/GVN` is unfinished and in no
pipeline. `CodeGenRegister` is unfinished as well and not called by the driver:
only `get_phi_map` and what it feeds (`RegisterAllocation`) is modelled.

## 8. Plan

What is left, in this order.

1. `SsaForm` behind `Mem2Reg`: that a phi placed on the iterated frontier dominates what
   it is renamed to. The facts about dominance in `AnalysesProofs` are a start.
2. A composition of `Builder` with `BackEnd`, which needs types and scopes in it.
