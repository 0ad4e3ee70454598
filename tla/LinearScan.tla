----------------------------- MODULE LinearScan -----------------------------
(***************************************************************************)
(* Linear-scan register allocation (codegen/Regalloc): one RegAllocator,   *)
(* for the integer or for the float values, run on one function after      *)
(* another.  linear_scan resets the allocator, reserves the registers of   *)
(* the arguments, then visits the live intervals by increasing start.      *)
(*                                                                         *)
(* A value is its address: the two orders of intervals end in a comparison *)
(* of pointers, so Values is a set of numbers.  reg_map[v] = 0 says that   *)
(* reg_map has no entry for v: registers are numbered from 1.              *)
(***************************************************************************)
EXTENDS Integers, FiniteSets

CONSTANTS
    Values,         \* the addresses of the values with a live interval
    NumRegs,        \* num_regs: the registers of this class
    ArgMaxR,        \* ARG_MAX_R: the arguments passed in registers
    Type,           \* the type this allocator handles, by is_float
    Functions,      \* the functions it may be run on
    MaxFunctions    \* bound on the number of runs

(* A function as linear_scan sees it: its live intervals start .. end, which *)
(* of the values are arguments, and the answer of no_reg_alloca for the      *)
(* instructions.  make_interval starts every argument at position 0.         *)
IsFunction(f) ==
    /\ f.values \subseteq Values /\ IsFiniteSet(f.values)
    /\ f.args \subseteq f.values
    /\ f.noReg \subseteq f.values \ f.args
    /\ f.start \in [f.values -> Nat]
    /\ f.end \in [f.values -> Nat]
    /\ f.type \in [f.values -> {"int", "float", "ptr"}]
    /\ f.argNo \in [f.args -> Nat]
    /\ \A v \in f.values : f.start[v] <= f.end[v]
    /\ \A a \in f.args : f.start[a] = 0
    /\ \A a, b \in f.args : f.argNo[a] = f.argNo[b] => a = b

ASSUME LinearScanAssumption ==
    /\ Values \subseteq Nat
    /\ NumRegs \in Nat /\ ArgMaxR \in Nat
    /\ ArgMaxR < NumRegs            \* 8 < R_USABLE = 15 < FR_USABLE = 22
    /\ MaxFunctions \in Nat
    /\ \A f \in Functions : IsFunction(f)

VARIABLES
    func,       \* the function being scanned, or scanned last
    todo,       \* the values whose interval the loop has not visited
    active,     \* RegAllocator::active, as a set of values
    used,       \* RegAllocator::used, as a set of registers
    reg_map,    \* RegAllocator::reg_map, 0 where there is no entry
    runs        \* the calls of linear_scan so far

vars == <<func, todo, active, used, reg_map, runs>>

Regs == 1 .. NumRegs

(* No function yet: every map is empty. *)
NoFunction ==
    LET none == [v \in {} |-> 0]
    IN  [values |-> {}, args |-> {}, noReg |-> {}, start |-> none, end |-> none,
         type |-> none, argNo |-> none]

Init ==
    /\ func = NoFunction
    /\ todo = {}
    /\ active = {}
    /\ used = {}
    /\ reg_map = [v \in Values |-> 0]
    /\ runs = 0

-----------------------------------------------------------------------------
(* LiveIntervalCmp among the values that are not arguments, and ActiveCmp  *)
(* among values that are both arguments or both not.                       *)
StartsBefore(f, u, v) ==
    \/ f.start[u] < f.start[v]
    \/ f.start[u] = f.start[v] /\ u < v

EndsBefore(f, u, v) ==
    \/ f.end[u] < f.end[v]
    \/ f.end[u] = f.end[v] /\ StartsBefore(f, u, v)

(* The arguments reserve_for_arg gives a register to. *)
Reserved(f) == {a \in f.args : f.type[a] = Type /\ f.argNo[a] < ArgMaxR}

(* Mutant of ArgReg: registers numbered from 0. *)
ArgRegFromZero(f, a) == f.argNo[a]

ArgReg(f, a) == f.argNo[a] + 1

(* The other values linear_scan does not skip. *)
Candidates(f) == {v \in f.values \ (f.args \cup f.noReg) : f.type[v] = Type}

(* Mutant of StartScan: reset leaves the bits of used. *)
StartScanKeepingUsed(f) ==
    /\ todo = {}
    /\ runs < MaxFunctions
    /\ f.values \cap func.values = {}
    /\ runs' = runs + 1
    /\ func' = f
    /\ todo' = f.values \ f.args
    /\ active' = Reserved(f)
    /\ used' = used \cup {ArgReg(f, a) : a \in Reserved(f)}
    /\ reg_map' = [v \in Values |-> IF v \in Reserved(f) THEN ArgReg(f, v) ELSE 0]

(* reset, then reserve_for_arg, for a function that shares no value with    *)
(* the one before.                                                          *)
StartScan(f) ==
    /\ todo = {}
    /\ runs < MaxFunctions
    /\ f.values \cap func.values = {}
    /\ runs' = runs + 1
    /\ func' = f
    /\ todo' = f.values \ f.args
    /\ active' = Reserved(f)
    /\ used' = {ArgReg(f, a) : a \in Reserved(f)}
    /\ reg_map' = [v \in Values |-> IF v \in Reserved(f) THEN ArgReg(f, v) ELSE 0]

(* v is the interval the loop visits next. *)
IsNext(v) == \A u \in todo \ {v} : StartsBefore(func, v, u)

Skip(v) ==
    /\ IsNext(v)
    /\ v \notin Candidates(func)
    /\ todo' = todo \ {v}
    /\ UNCHANGED <<func, active, used, reg_map, runs>>

(* Mutants of Expired: an interval that ends where v starts has expired;    *)
(* the intervals of arguments never do.                                     *)
ExpiredAtStart(v) == {u \in active : func.end[u] <= func.start[v]}
ExpiredButArguments(v) == {u \in active \ func.args : func.end[u] < func.start[v]}

(* expire_old_intervals: what is active and in use once v is reached. *)
Expired(v) == {u \in active : func.end[u] < func.start[v]}
StillActive(v) == active \ Expired(v)

StillUsed(v) == used \ {reg_map[u] : u \in Expired(v)}

(* used.find_next_unset(0) *)
IsFirstFree(r, taken) ==
    r \notin taken /\ \A q \in 1 .. r - 1 : q \in taken

Assign(v) ==
    /\ IsNext(v)
    /\ v \in Candidates(func)
    /\ Cardinality(StillActive(v)) # NumRegs
    /\ \E r \in Regs :
         /\ IsFirstFree(r, StillUsed(v))
         /\ used' = StillUsed(v) \cup {r}
         /\ reg_map' = [reg_map EXCEPT ![v] = r]
    /\ active' = StillActive(v) \cup {v}
    /\ todo' = todo \ {v}
    /\ UNCHANGED <<func, runs>>

(* Mutant of IsVictim: the argument test is left out. *)
IsVictimOrArgument(w, S) == w \in S /\ \A u \in S \ {w} : EndsBefore(func, u, w)

(* std::prev(active.end()), moved back over the arguments; when the active *)
(* set, arguments first, holds only arguments, the walk stops at begin().  *)
IsVictim(w, S) ==
    IF S \subseteq func.args
    THEN w \in S /\ \A u \in S \ {w} : EndsBefore(func, w, u)
    ELSE w \in S \ func.args /\ \A u \in S \ (func.args \cup {w}) : EndsBefore(func, u, w)

(* spill_at_interval, when the interval of v ends last: v stays in memory. *)
LeaveInMemory(v) ==
    /\ IsNext(v)
    /\ v \in Candidates(func)
    /\ Cardinality(StillActive(v)) = NumRegs
    /\ \E w \in StillActive(v) : IsVictim(w, StillActive(v)) /\ func.end[v] > func.end[w]
    /\ active' = StillActive(v)
    /\ used' = StillUsed(v)
    /\ todo' = todo \ {v}
    /\ UNCHANGED <<func, reg_map, runs>>

(* spill_at_interval otherwise: v takes the register of the victim. *)
TakeRegister(v) ==
    /\ IsNext(v)
    /\ v \in Candidates(func)
    /\ Cardinality(StillActive(v)) = NumRegs
    /\ \E w \in StillActive(v) :
         /\ IsVictim(w, StillActive(v))
         /\ func.end[v] <= func.end[w]
         /\ reg_map' = [reg_map EXCEPT ![w] = 0, ![v] = reg_map[w]]
         /\ active' = (StillActive(v) \ {w}) \cup {v}
    /\ used' = StillUsed(v)
    /\ todo' = todo \ {v}
    /\ UNCHANGED <<func, runs>>

(* There may be no other function. *)
Finished == todo = {} /\ UNCHANGED vars

Next ==
    \/ \E f \in Functions : StartScan(f)
    \/ \E v \in todo : Skip(v) \/ Assign(v) \/ LeaveInMemory(v) \/ TakeRegister(v)
    \/ Finished

Spec == Init /\ [][Next]_vars

-----------------------------------------------------------------------------
(* Type invariant. *)
TypeOK ==
    /\ IsFunction(func)
    /\ todo \subseteq func.values \ func.args
    /\ active \subseteq func.values
    /\ used \subseteq Regs
    /\ reg_map \in [Values -> 0 .. NumRegs]
    /\ runs \in 0 .. MaxFunctions

Overlap(f, u, v) == f.start[u] <= f.end[v] /\ f.start[v] <= f.end[u]

InRegister(v) == reg_map[v] # 0

(* Two values that were given the same register are never live at the same *)
(* position: the result of linear_scan is a valid allocation, at every     *)
(* point of the scan.                                                      *)
NoOverlap ==
    \A u, v \in func.values :
        u # v /\ InRegister(u) /\ reg_map[u] = reg_map[v] => ~Overlap(func, u, v)

(* The bits of used are the registers of the active intervals, one each:   *)
(* expiry frees no register twice, eviction and a new run leak none.       *)
RegistersAccounted ==
    /\ used = {reg_map[u] : u \in active}
    /\ \A u, v \in active : reg_map[u] = reg_map[v] => u = v

(* An argument that came in a register keeps it to the end: the fallback   *)
(* of spill_at_interval, which would evict an argument, is never taken.    *)
ArgumentsKeepTheirRegister ==
    \A a \in Reserved(func) : reg_map[a] = ArgReg(func, a)

LiveAt(p) ==
    {u \in Candidates(func) \cup Reserved(func) :
        func.start[u] <= p /\ p <= func.end[u]}

(* A value is left in memory, or sent back to it, only if at some position *)
(* of its interval more values than registers compete.                     *)
SpillOnlyUnderPressure ==
    \A v \in Candidates(func) \ todo :
        InRegister(v) \/ \E p \in func.start[v] .. func.end[v] :
                            Cardinality(LiveAt(p)) > NumRegs

(* The calling convention CodeGen::gen_prologue reads the arguments by: the *)
(* float and the other arguments are counted separately.                    *)
ConventionReg(f, a) ==
    1 + Cardinality({b \in f.args : /\ f.argNo[b] < f.argNo[a]
                                    /\ (f.type[b] = "float") = (f.type[a] = "float")})

(* "maps to reg arg_no + 1 ($a0..$a7 / $fa0..$fa7), which matches the       *)
(* calling convention" (Regalloc.cpp:42-43).                                *)
ArgRegMatchesConvention ==
    \A a \in Reserved(func) : reg_map[a] = ConventionReg(func, a)
=============================================================================
