-------------------------- MODULE RegisterAllocation --------------------------
(***************************************************************************)
(* CodeGenRegister on one function up to the registers of its values: the  *)
(* live range analysis, then the scan of the intervals that it made.  The  *)
(* values are integers; ra_float does the same for floats.                 *)
(***************************************************************************)
EXTENDS Liveness

CONSTANTS
    NumRegs, ArgMaxR,   \* of ra_int
    Address,            \* the addresses of the values
    Comparisons         \* the values that a comparison defines

(* Different values are different objects. *)
ASSUME RegisterAssumption ==
    /\ NumRegs \in Nat /\ ArgMaxR \in Nat
    /\ ArgMaxR < NumRegs            \* 8 < R_USABLE = 15
    /\ \A g \in Programs : ValuesOf(g) \subseteq DOMAIN Address
    /\ \A v \in DOMAIN Address : Address[v] \in Nat
    /\ \A u, v \in DOMAIN Address : Address[u] = Address[v] => u = v

VARIABLES
    conflicts,          \* who is live with whom, by definition
    func, todo, active, used, reg_map, runs     \* of ra_int

scanVars == <<func, todo, active, used, reg_map, runs>>
allVars == <<vars, conflicts, scanVars>>

RaInt == INSTANCE LinearScan
            WITH Values <- {Address[v] : v \in DOMAIN Address}, Type <- "int",
                 Functions <- {}, MaxFunctions <- 1

(* The pairs of values that live has at a common point. *)
Conflicts(live) ==
    UNION {LET at == {l[1] : l \in {k \in live : k[2] = p}} IN at \X at : p \in Points}

Users(v) ==
    {u \in Points : u[2] > 0 /\ v \in prog.body[u[1]][u[2]].uses}
    \cup UNION {UNION {{<<b, p, pred>> : pred \in {q \in DOMAIN p.inc : p.inc[q] = v}} :
                            p \in Phis(b)} : b \in Blocks}

IsBranch(user) ==
    /\ Len(user) = 2 /\ user[2] = Len(prog.body[user[1]])
    /\ Len(prog.succ[user[1]]) = 2

(* no_reg_alloca: nothing uses v, or v is a comparison and only a branch    *)
(* does.                                                                    *)
NoRegAlloca(v) ==
    \/ Users(v) = {}
    \/ v \in Comparisons /\ \E user \in Users(v) : Users(v) = {user} /\ IsBranch(user)

(* get_live_intervals, with what linear_scan asks of the values. *)
LiveIntervals ==
    LET at(S) == {Address[v] : v \in S}
        value(n) == CHOOSE v \in DOMAIN interval_map : Address[v] = n
        values == at(DOMAIN interval_map)
        args == at(prog.args \cap DOMAIN interval_map)
    IN  [values |-> values, args |-> args,
         noReg |-> at({v \in DOMAIN interval_map \ prog.args : NoRegAlloca(v)}),
         start |-> [n \in values |-> interval_map[value(n)].start],
         end |-> [n \in values |-> interval_map[value(n)].end],
         type |-> [n \in values |-> "int"],
         argNo |-> [n \in args |-> Cardinality({m \in args : m < n})]]

RegisterInit ==
    /\ Init /\ RaInt!Init
    /\ \E live \in {Live} : conflicts = Conflicts(live)

Analyze == Step /\ UNCHANGED <<conflicts, scanVars>>

StartScan ==
    /\ phase = "done" /\ runs = 0
    /\ RaInt!StartScan(LiveIntervals)
    /\ UNCHANGED <<vars, conflicts>>

ScanNext ==
    /\ \E v \in todo :
        RaInt!Skip(v) \/ RaInt!Assign(v) \/ RaInt!LeaveInMemory(v) \/ RaInt!TakeRegister(v)
    /\ UNCHANGED <<vars, conflicts>>

Allocated == runs = 1 /\ todo = {}

AllocationStep == Analyze \/ StartScan \/ ScanNext

(* The calls of CodeGenRegister::run follow one another. *)
RegisterSpec ==
    /\ RegisterInit
    /\ [][AllocationStep \/ (Allocated /\ UNCHANGED allVars)]_allVars
    /\ WF_allVars(AllocationStep)

-----------------------------------------------------------------------------
(* Where the values are once the scan has ended. *)
Place == IF Allocated THEN [v \in Values |-> reg_map[Address[v]]] ELSE <<>>

Promise == INSTANCE Allocation WITH place <- Place

(* The analysis and the scan end, and together they keep the promise of an   *)
(* allocation: values that are live at a common point, by the definition of *)
(* liveness and not by the numbers and intervals that stand for it, are not *)
(* in one register.                                                         *)
ImplementsAllocation == Promise!AllocationSpec
=============================================================================
