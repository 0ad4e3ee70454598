-------------------------- MODULE LinearScanProofs --------------------------
(***************************************************************************)
(* For every set of functions and every number of registers, the linear    *)
(* scan keeps its types and never gives two values that are live at the    *)
(* same position one register.                                             *)
(***************************************************************************)
EXTENDS LinearScan, FiniteSetTheorems, TLAPS

(* Active intervals hold a register. *)
ActiveInRegister == \A u \in active : InRegister(u)

(* An interval not yet visited has no register and is not active. *)
UnvisitedFree == \A w \in todo : ~InRegister(w) /\ w \notin active

(* A value that keeps its register after its interval was expired ends     *)
(* before everything the scan has still to visit.                          *)
ExpiredInThePast ==
    \A u \in func.values, w \in todo :
        InRegister(u) /\ u \notin active => func.end[u] < func.start[w]

(* NoOverlap is not inductive: that a register taken from used is free of  *)
(* overlap depends on who is active and on the order of the visits.        *)
IInv ==
    /\ TypeOK
    /\ ActiveInRegister
    /\ RegistersAccounted
    /\ UnvisitedFree
    /\ ExpiredInThePast
    /\ NoOverlap

-----------------------------------------------------------------------------
(* The initial state: no function, no register. *)
LEMMA InitIInv == Init => IInv
  <1> USE LinearScanAssumption
  <1> SUFFICES ASSUME Init PROVE IInv
    OBVIOUS
  <1>1. IsFunction(NoFunction)
    <2>1. IsFiniteSet({})
      BY FS_EmptySet
    <2> QED BY <2>1 DEF IsFunction, NoFunction
  <1>2. TypeOK
    BY <1>1 DEF Init, TypeOK, Regs, NoFunction
  <1> QED
    BY <1>2 DEF Init, IInv, ActiveInRegister, RegistersAccounted, UnvisitedFree,
       ExpiredInThePast, NoOverlap, NoFunction

(* A new function: only its arguments are in registers, each in its own. *)
LEMMA StartScanIInv ==
  ASSUME IInv, NEW f, IsFunction(f), StartScan(f)
  PROVE  IInv'
  <1> USE LinearScanAssumption DEF StartScan
  <1>1. IsFunction(f)
    OBVIOUS
  <1>2. /\ Reserved(f) \subseteq f.values
        /\ \A a \in Reserved(f) : ArgReg(f, a) \in Regs /\ ArgReg(f, a) <= ArgMaxR
        /\ \A a, b \in Reserved(f) : ArgReg(f, a) = ArgReg(f, b) => a = b
    BY <1>1 DEF IsFunction, Reserved, ArgReg, Regs
  <1>3. \A v \in f.values : reg_map'[v] # 0 <=> v \in Reserved(f)
    BY <1>1, <1>2 DEF IsFunction, Regs
  <1>4. \A v \in Reserved(f) : reg_map'[v] = ArgReg(f, v)
    BY <1>1, <1>2 DEF IsFunction
  <1>5. TypeOK'
    <2>1. reg_map' \in [Values -> 0 .. NumRegs]
      BY <1>2 DEF Regs
    <2> QED BY <1>1, <1>2, <2>1 DEF IInv, TypeOK, IsFunction
  <1>6. RegistersAccounted'
    BY <1>2, <1>4 DEF RegistersAccounted
  <1>7. UnvisitedFree' /\ ActiveInRegister'
    BY <1>1, <1>2, <1>3 DEF UnvisitedFree, ActiveInRegister, InRegister, Reserved, IsFunction
  <1>8. ExpiredInThePast'
    BY <1>3 DEF ExpiredInThePast, InRegister
  <1>9. NoOverlap'
    BY <1>2, <1>3, <1>4 DEF NoOverlap, InRegister
  <1> QED
    BY <1>5, <1>6, <1>7, <1>8, <1>9 DEF IInv

-----------------------------------------------------------------------------
(* The next interval to visit starts no later than the others. *)
LEMMA NextStartsFirst ==
  ASSUME IInv, NEW v \in todo, IsNext(v), NEW w \in todo
  PROVE  func.start[v] <= func.start[w]
  BY DEF IInv, TypeOK, IsFunction, IsNext, StartsBefore

(* expire_old_intervals keeps the accounts, and what it drops ends before  *)
(* everything still to be visited, v included.                             *)
LEMMA ExpireKeeps ==
  ASSUME IInv, NEW v \in todo, IsNext(v)
  PROVE  /\ StillUsed(v) = {reg_map[u] : u \in StillActive(v)}
         /\ StillActive(v) \subseteq active
         /\ \A u \in func.values, w \in todo :
               InRegister(u) /\ u \notin StillActive(v) => func.end[u] < func.start[w]
  <1>1. StillUsed(v) = {reg_map[u] : u \in StillActive(v)}
    BY DEF IInv, RegistersAccounted, StillUsed, StillActive, Expired
  <1>2. StillActive(v) \subseteq active
    BY DEF StillActive
  <1>3. ASSUME NEW u \in func.values, NEW w \in todo, InRegister(u), u \notin StillActive(v)
        PROVE  func.end[u] < func.start[w]
    <2>1. CASE u \notin active
      BY <1>3, <2>1 DEF IInv, ExpiredInThePast
    <2>2. CASE u \in active
      <3>1. func.end[u] < func.start[v]
        BY <1>3, <2>2 DEF StillActive, Expired
      <3>2. func.start[v] <= func.start[w]
        BY NextStartsFirst
      <3>3. /\ func.end[u] \in Nat
            /\ func.start[v] \in Nat
            /\ func.start[w] \in Nat
        BY DEF IInv, TypeOK, IsFunction
      <3> QED BY <3>1, <3>2, <3>3
    <2> QED BY <2>1, <2>2
  <1> QED
    BY <1>1, <1>2, <1>3

(* A register that no active interval holds after the expiry is held by    *)
(* no value that overlaps the interval visited.                            *)
LEMMA FreeOfOverlap ==
  ASSUME IInv, NEW v \in todo, IsNext(v),
         NEW u \in func.values, InRegister(u), u \notin StillActive(v)
  PROVE  ~Overlap(func, u, v)
  <1>1. func.end[u] < func.start[v]
    BY ExpireKeeps
  <1>2. func.end[u] \in Nat /\ func.start[v] \in Nat
    BY DEF IInv, TypeOK, IsFunction
  <1> QED BY <1>1, <1>2 DEF Overlap

(* A filtered value changes nothing but the list to visit. *)
LEMMA SkipIInv ==
  ASSUME IInv, NEW v \in todo, Skip(v)
  PROVE  IInv'
  <1>1. TypeOK'
    BY DEF IInv, TypeOK, Skip
  <1>2. ActiveInRegister' /\ RegistersAccounted' /\ NoOverlap'
    BY DEF IInv, Skip, ActiveInRegister, RegistersAccounted, NoOverlap, InRegister
  <1>3. UnvisitedFree' /\ ExpiredInThePast'
    BY DEF IInv, Skip, UnvisitedFree, ExpiredInThePast, InRegister
  <1> QED BY <1>1, <1>2, <1>3 DEF IInv

(* A free register goes to v. *)
LEMMA AssignIInv ==
  ASSUME IInv, NEW v \in todo, Assign(v)
  PROVE  IInv'
  <1> USE LinearScanAssumption
  <1>1. PICK r \in Regs :
          /\ IsFirstFree(r, StillUsed(v))
          /\ used' = StillUsed(v) \cup {r}
          /\ reg_map' = [reg_map EXCEPT ![v] = r]
    BY DEF Assign
  <1>2. /\ IsNext(v)
        /\ active' = StillActive(v) \cup {v}
        /\ todo' = todo \ {v}
        /\ UNCHANGED <<func, runs>>
    BY DEF Assign
  <1>3. r \notin StillUsed(v)
    BY <1>1 DEF IsFirstFree
  <1>4. /\ v \in func.values /\ v \in Values
        /\ v \notin active
        /\ ~InRegister(v)
    BY DEF IInv, TypeOK, IsFunction, UnvisitedFree
  <1>5. /\ reg_map'[v] = r /\ r # 0
        /\ \A u \in func.values \ {v} : reg_map'[u] = reg_map[u]
    BY <1>1, <1>4 DEF IInv, TypeOK, IsFunction, Regs
  <1>6. /\ StillUsed(v) = {reg_map[u] : u \in StillActive(v)}
        /\ StillActive(v) \subseteq active /\ active \subseteq func.values
        /\ \A u \in func.values, w \in todo :
              InRegister(u) /\ u \notin StillActive(v) => func.end[u] < func.start[w]
    BY <1>2, ExpireKeeps DEF IInv, TypeOK
  <1>7. TypeOK'
    <2>1. reg_map' \in [Values -> 0 .. NumRegs]
      <3>1. reg_map \in [Values -> 0 .. NumRegs]
        BY DEF IInv, TypeOK
      <3>2. r \in 0 .. NumRegs
        BY DEF Regs
      <3> QED BY <1>1, <3>1, <3>2
    <2>2. used' \subseteq Regs
      BY <1>1 DEF IInv, TypeOK, StillUsed
    <2>3. /\ IsFunction(func') /\ runs' \in 0 .. MaxFunctions
          /\ todo' \subseteq func'.values \ func'.args
          /\ active' \subseteq func'.values
      BY <1>2, <1>4, <1>6 DEF IInv, TypeOK
    <2> QED BY <2>1, <2>2, <2>3 DEF TypeOK
  <1>8. ActiveInRegister'
    BY <1>2, <1>4, <1>5, <1>6 DEF IInv, ActiveInRegister, InRegister
  <1>9. RegistersAccounted'
    BY <1>1, <1>2, <1>3, <1>4, <1>5, <1>6 DEF IInv, RegistersAccounted
  <1>10. UnvisitedFree' /\ ExpiredInThePast'
    BY <1>2, <1>4, <1>5, <1>6 DEF IInv, TypeOK, UnvisitedFree, ExpiredInThePast, InRegister
  <1>11. NoOverlap'
    <2> SUFFICES ASSUME NEW u \in func.values, NEW x \in func.values, u # x,
                        reg_map'[u] # 0, reg_map'[u] = reg_map'[x]
                 PROVE  ~Overlap(func, u, x)
      BY <1>2 DEF NoOverlap, InRegister, Overlap
    <2>1. ASSUME NEW z \in func.values \ {v}, reg_map'[z] = r
          PROVE  ~Overlap(func, z, v)
      <3>1. InRegister(z) /\ z \notin StillActive(v)
        BY <2>1, <1>3, <1>5, <1>6 DEF InRegister
      <3> QED BY <3>1, <1>2, FreeOfOverlap
    <2>2. CASE u = v
      BY <2>1, <2>2, <1>5 DEF Overlap
    <2>3. CASE x = v
      BY <2>1, <2>3, <1>5
    <2>4. CASE u # v /\ x # v
      BY <2>4, <1>5 DEF IInv, NoOverlap, InRegister
    <2> QED BY <2>2, <2>3, <2>4
  <1> QED
    BY <1>7, <1>8, <1>9, <1>10, <1>11 DEF IInv

(* v stays in memory: only the expiry changes anything. *)
LEMMA LeaveInMemoryIInv ==
  ASSUME IInv, NEW v \in todo, LeaveInMemory(v)
  PROVE  IInv'
  <1>1. /\ IsNext(v)
        /\ active' = StillActive(v)
        /\ used' = StillUsed(v)
        /\ todo' = todo \ {v}
        /\ UNCHANGED <<func, reg_map, runs>>
    BY DEF LeaveInMemory
  <1>2. /\ StillUsed(v) = {reg_map[u] : u \in StillActive(v)}
        /\ StillActive(v) \subseteq active /\ active \subseteq func.values
        /\ \A u \in func.values, w \in todo :
              InRegister(u) /\ u \notin StillActive(v) => func.end[u] < func.start[w]
    BY <1>1, ExpireKeeps DEF IInv, TypeOK
  <1>3. TypeOK'
    BY <1>1, <1>2 DEF IInv, TypeOK, StillUsed
  <1>4. ActiveInRegister' /\ RegistersAccounted' /\ NoOverlap'
    BY <1>1, <1>2 DEF IInv, ActiveInRegister, RegistersAccounted, NoOverlap, InRegister
  <1>5. UnvisitedFree' /\ ExpiredInThePast'
    BY <1>1, <1>2 DEF IInv, UnvisitedFree, ExpiredInThePast, InRegister
  <1> QED BY <1>3, <1>4, <1>5 DEF IInv

(* v takes the register of an active interval, which goes to memory. *)
LEMMA TakeRegisterIInv ==
  ASSUME IInv, NEW v \in todo, TakeRegister(v)
  PROVE  IInv'
  <1> USE LinearScanAssumption
  <1>1. PICK y \in StillActive(v) :
          /\ reg_map' = [reg_map EXCEPT ![y] = 0, ![v] = reg_map[y]]
          /\ active' = (StillActive(v) \ {y}) \cup {v}
    BY DEF TakeRegister
  <1>2. /\ IsNext(v)
        /\ used' = StillUsed(v)
        /\ todo' = todo \ {v}
        /\ UNCHANGED <<func, runs>>
    BY DEF TakeRegister
  <1>3. /\ StillUsed(v) = {reg_map[u] : u \in StillActive(v)}
        /\ StillActive(v) \subseteq active /\ active \subseteq func.values
        /\ \A u \in func.values, w \in todo :
              InRegister(u) /\ u \notin StillActive(v) => func.end[u] < func.start[w]
    BY <1>2, ExpireKeeps DEF IInv, TypeOK
  <1>4. /\ v \in func.values /\ v \in Values
        /\ v \notin active
        /\ ~InRegister(v)
        /\ y \in func.values /\ y \in Values /\ y \in active /\ y # v
        /\ InRegister(y)
    BY <1>3 DEF IInv, TypeOK, IsFunction, UnvisitedFree, ActiveInRegister
  <1> DEFINE r == reg_map[y]
  <1>5a. reg_map \in [Values -> 0 .. NumRegs] /\ func.values \subseteq Values
    BY DEF IInv, TypeOK, IsFunction
  <1>5. /\ reg_map'[v] = r /\ reg_map'[y] = 0 /\ r \in Regs /\ r # 0
        /\ \A u \in func.values \ {v, y} : reg_map'[u] = reg_map[u]
    <2>1. r \in Regs /\ r # 0
      <3>1. r \in 0 .. NumRegs /\ r # 0
        BY <1>4, <1>5a DEF InRegister
      <3>2. NumRegs \in Nat
        OBVIOUS
      <3> QED BY <3>1, <3>2 DEF Regs
    <2>2. reg_map'[v] = r
      BY <1>1, <1>4, <1>5a
    <2>3. reg_map'[y] = 0
      BY <1>1, <1>4, <1>5a
    <2>4. \A u \in func.values \ {v, y} : reg_map'[u] = reg_map[u]
      BY <1>1, <1>4, <1>5a
    <2> QED BY <2>1, <2>2, <2>3, <2>4
  <1>6. \A u \in func.values : reg_map[u] = r /\ u \in active => u = y
    BY <1>4 DEF IInv, RegistersAccounted
  <1>7. TypeOK'
    <2>1. reg_map' \in [Values -> 0 .. NumRegs]
      <3>1. 0 \in 0 .. NumRegs /\ r \in 0 .. NumRegs
        BY <1>5 DEF Regs
      <3> QED BY <1>1, <1>5a, <3>1
    <2>2. used' \subseteq Regs
      BY <1>2 DEF IInv, TypeOK, StillUsed
    <2>3. /\ IsFunction(func') /\ runs' \in 0 .. MaxFunctions
          /\ todo' \subseteq func'.values \ func'.args
          /\ active' \subseteq func'.values
      BY <1>1, <1>2, <1>3, <1>4 DEF IInv, TypeOK
    <2> QED BY <2>1, <2>2, <2>3 DEF TypeOK
  <1>8. ActiveInRegister'
    BY <1>1, <1>3, <1>4, <1>5 DEF IInv, ActiveInRegister, InRegister
  <1>9. RegistersAccounted'
    <2>1. \A u \in active' \ {v} : reg_map'[u] = reg_map[u] /\ u \in active /\ u # y
      BY <1>1, <1>3, <1>5
    <2>2. used' = {reg_map'[u] : u \in active'}
      <3>1. ASSUME NEW q \in used' PROVE \E u \in active' : q = reg_map'[u]
        <4>1. PICK u \in StillActive(v) : q = reg_map[u]
          BY <1>2, <1>3
        <4>2. CASE u = y
          BY <4>1, <4>2, <1>1, <1>5
        <4>3. CASE u # y
          BY <4>1, <4>3, <1>1, <1>3, <1>4, <1>5
        <4> QED BY <4>2, <4>3
      <3>2. ASSUME NEW u \in active' PROVE reg_map'[u] \in used'
        <4>1. CASE u = v
          BY <4>1, <1>2, <1>3, <1>5
        <4>2. CASE u # v
          BY <4>2, <1>1, <1>2, <1>3, <2>1
        <4> QED BY <4>1, <4>2
      <3> QED BY <3>1, <3>2
    <2>3. ASSUME NEW u \in active', NEW x \in active', reg_map'[u] = reg_map'[x]
          PROVE  u = x
      BY <1>3, <1>5, <1>6, <2>1, <2>3 DEF IInv, RegistersAccounted
    <2> QED BY <2>2, <2>3 DEF RegistersAccounted
  <1>10. UnvisitedFree' /\ ExpiredInThePast'
    <2>1. \A w \in todo' : w # v /\ w # y /\ w \in todo /\ w \in func.values
      BY <1>2, <1>4 DEF IInv, TypeOK, UnvisitedFree
    <2>2. UnvisitedFree'
      BY <1>1, <1>3, <1>5, <2>1 DEF IInv, UnvisitedFree, InRegister
    <2>3. ExpiredInThePast'
      BY <1>1, <1>2, <1>3, <1>5, <2>1 DEF ExpiredInThePast, InRegister
    <2> QED BY <2>2, <2>3
  <1>11. NoOverlap'
    <2> SUFFICES ASSUME NEW u \in func.values, NEW x \in func.values, u # x,
                        reg_map'[u] # 0, reg_map'[u] = reg_map'[x]
                 PROVE  ~Overlap(func, u, x)
      BY <1>2 DEF NoOverlap, InRegister, Overlap
    <2>1. ASSUME NEW z \in func.values \ {v}, reg_map'[z] = r
          PROVE  ~Overlap(func, z, v)
      <3>1. InRegister(z) /\ z \notin StillActive(v)
        BY <2>1, <1>3, <1>5, <1>6 DEF InRegister
      <3> QED BY <3>1, <1>2, FreeOfOverlap
    <2>2. CASE u = v
      BY <2>1, <2>2, <1>5 DEF Overlap
    <2>3. CASE x = v
      BY <2>1, <2>3, <1>5
    <2>4. CASE u # v /\ x # v
      BY <2>4, <1>5 DEF IInv, NoOverlap, InRegister
    <2> QED BY <2>2, <2>3, <2>4
  <1> QED
    BY <1>7, <1>8, <1>9, <1>10, <1>11 DEF IInv

-----------------------------------------------------------------------------
(* The strengthened invariant holds in every reachable state. *)
THEOREM Invariance == Spec => []IInv
  <1>1. Init => IInv
    BY InitIInv
  <1>2. IInv /\ [Next]_vars => IInv'
    <2> SUFFICES ASSUME IInv, [Next]_vars PROVE IInv'
      OBVIOUS
    <2>1. CASE \E f \in Functions : StartScan(f)
      BY <2>1, StartScanIInv, LinearScanAssumption
    <2>2. CASE \E v \in todo : Skip(v)
      BY <2>2, SkipIInv
    <2>3. CASE \E v \in todo : Assign(v)
      BY <2>3, AssignIInv
    <2>4. CASE \E v \in todo : LeaveInMemory(v)
      BY <2>4, LeaveInMemoryIInv
    <2>5. CASE \E v \in todo : TakeRegister(v)
      BY <2>5, TakeRegisterIInv
    <2>6. CASE UNCHANGED vars
      BY <2>6 DEF vars, IInv, TypeOK, ActiveInRegister, RegistersAccounted,
         UnvisitedFree, ExpiredInThePast, NoOverlap, InRegister, Overlap
    <2> QED
      BY <2>1, <2>2, <2>3, <2>4, <2>5, <2>6 DEF Next, Finished
  <1> QED
    BY <1>1, <1>2, PTL DEF Spec

(* The allocator keeps its types. *)
THEOREM TypeCorrect == Spec => []TypeOK
  BY Invariance, PTL DEF IInv

(* Two values in one register are never live at the same position, for    *)
(* every function and every number of registers.                          *)
THEOREM AllocationValid == Spec => []NoOverlap
  BY Invariance, PTL DEF IInv

(* The busy registers are those of the active intervals, one each. *)
THEOREM NoRegisterLeaks == Spec => []RegistersAccounted
  BY Invariance, PTL DEF IInv

-----------------------------------------------------------------------------
(* Only values the allocator handles are active. *)
ActiveAllocatable == active \subseteq Candidates(func) \cup Reserved(func)

(* An active interval has started when the next one is visited. *)
ActiveStarted == \A u \in active, w \in todo : func.start[u] <= func.start[w]

(* The invariant behind the two statements about spilling. *)
SpillInv ==
    /\ IInv
    /\ ActiveAllocatable
    /\ ActiveStarted
    /\ ArgumentsKeepTheirRegister
    /\ SpillOnlyUnderPressure

(* At most ArgMaxR arguments have a register: their numbers differ. *)
LEMMA ReservedAreFew ==
  ASSUME NEW f, IsFunction(f)
  PROVE  IsFiniteSet(Reserved(f)) /\ Cardinality(Reserved(f)) <= ArgMaxR
  <1> USE LinearScanAssumption
  <1> DEFINE T == 0 .. ArgMaxR - 1
             g == [a \in Reserved(f) |-> f.argNo[a]]
  <1>1. IsFiniteSet(T) /\ Cardinality(T) = ArgMaxR
    BY FS_Interval
  <1>2. g \in [Reserved(f) -> T]
    BY DEF Reserved, IsFunction
  <1>3. \A a, b \in Reserved(f) : g[a] = g[b] => a = b
    BY DEF Reserved, IsFunction
  <1>4. g \in Injection(Reserved(f), T)
    BY <1>2, <1>3 DEF Injection, IsInjective
  <1> HIDE DEF g, T
  <1> QED
    BY <1>1, <1>4, FS_Injection

(* Hence the victim of a spill is not an argument. *)
LEMMA VictimIsNoArgument ==
  ASSUME SpillInv, NEW S \in SUBSET active, Cardinality(S) = NumRegs,
         NEW w, IsVictim(w, S)
  PROVE  w \in S /\ w \notin func.args
  <1> USE LinearScanAssumption
  <1>1. CASE S \subseteq func.args
    <2>1. S \subseteq Reserved(func)
      BY <1>1 DEF SpillInv, ActiveAllocatable, Candidates
    <2>2. /\ IsFiniteSet(Reserved(func))
          /\ Cardinality(Reserved(func)) <= ArgMaxR
      BY ReservedAreFew DEF SpillInv, IInv, TypeOK
    <2>3. Cardinality(S) <= Cardinality(Reserved(func))
      BY <2>1, <2>2, FS_Subset
    <2>4. Cardinality(Reserved(func)) \in Nat
      BY <2>2, FS_CardinalityType
    <2> QED
      BY <2>2, <2>3, <2>4
  <1>2. CASE ~(S \subseteq func.args)
    BY <1>2 DEF IsVictim
  <1> QED
    BY <1>1, <1>2

(* Where all registers are taken and one more interval starts, more values *)
(* compete than there are registers.                                       *)
LEMMA PressureAtSpill ==
  ASSUME SpillInv, NEW v \in todo, IsNext(v), v \in Candidates(func),
         Cardinality(StillActive(v)) = NumRegs
  PROVE  /\ Cardinality(LiveAt(func.start[v])) > NumRegs
         /\ \A u \in StillActive(v) \cup {v} :
               func.start[v] \in func.start[u] .. func.end[u]
  <1> USE LinearScanAssumption
  <1> DEFINE p == func.start[v]
             S == StillActive(v)
  <1>1. /\ v \in func.values /\ v \notin active
        /\ func.values \subseteq Values /\ IsFiniteSet(func.values)
        /\ func.start \in [func.values -> Nat]
        /\ func.end \in [func.values -> Nat]
        /\ func.start[v] <= func.end[v]
        /\ S \subseteq active /\ active \subseteq func.values
    BY DEF SpillInv, IInv, TypeOK, IsFunction, UnvisitedFree, StillActive
  <1>2. \A u \in S : func.start[u] <= p /\ p <= func.end[u]
    <2>1. \A u \in S : func.start[u] <= p
      BY <1>1 DEF SpillInv, ActiveStarted
    <2>2. \A u \in S : ~(func.end[u] < p)
      BY DEF StillActive, Expired
    <2>3. \A u \in S : func.end[u] \in Nat /\ p \in Nat
      BY <1>1
    <2> QED BY <2>1, <2>2, <2>3
  <1>3. S \cup {v} \subseteq LiveAt(p)
    BY <1>1, <1>2 DEF LiveAt, SpillInv, ActiveAllocatable
  <1>4. /\ IsFiniteSet(LiveAt(p))
        /\ IsFiniteSet(S)
    <2>1. LiveAt(p) \subseteq func.values
      BY <1>1 DEF LiveAt, Candidates, Reserved, SpillInv, IInv, TypeOK, IsFunction
    <2>2. S \subseteq func.values
      BY <1>1
    <2> QED BY <1>1, <2>1, <2>2, FS_Subset
  <1>5. /\ IsFiniteSet(S \cup {v})
        /\ Cardinality(S \cup {v}) = NumRegs + 1
    BY <1>1, <1>4, FS_AddElement
  <1>6. NumRegs + 1 <= Cardinality(LiveAt(p))
    BY <1>3, <1>4, <1>5, FS_Subset
  <1>7. Cardinality(LiveAt(p)) \in Nat
    BY <1>4, FS_CardinalityType
  <1>8. \A u \in S \cup {v} : func.start[v] \in func.start[u] .. func.end[u]
    BY <1>1, <1>2
  <1> QED
    BY <1>6, <1>7, <1>8

(* A value that is out of its register for a good reason. *)
Justified(v) ==
    \E p \in func.start[v] .. func.end[v] : Cardinality(LiveAt(p)) > NumRegs

(* A step that keeps the function and the registers of everything but the  *)
(* value visited and a justified victim keeps the two properties.          *)
LEMMA SpillStep ==
  ASSUME SpillInv, UNCHANGED func, NEW v \in todo, todo' = todo \ {v},
         \A u \in func.values :
            \/ u # v /\ reg_map'[u] = reg_map[u]
            \/ u \notin func.args /\ reg_map'[u] # 0
            \/ u \notin func.args /\ Justified(u)
  PROVE  ArgumentsKeepTheirRegister' /\ SpillOnlyUnderPressure'
  <1>1. \A a \in Reserved(func) : a \in func.values /\ a \in func.args
    BY DEF SpillInv, IInv, TypeOK, IsFunction, Reserved
  <1>2. ArgumentsKeepTheirRegister'
    BY <1>1 DEF SpillInv, ArgumentsKeepTheirRegister
  <1>3. SpillOnlyUnderPressure'
    <2> SUFFICES ASSUME NEW u \in Candidates(func), u \notin todo \ {v}
                 PROVE  reg_map'[u] # 0 \/ Justified(u)
      BY DEF SpillOnlyUnderPressure, Justified, LiveAt, InRegister
    <2>1. u \in func.values
      BY DEF Candidates
    <2>2. CASE u # v /\ reg_map'[u] = reg_map[u]
      BY <2>2 DEF SpillInv, SpillOnlyUnderPressure, Justified, InRegister
    <2> QED BY <2>1, <2>2
  <1> QED BY <1>2, <1>3

(* The strengthened invariant of the two statements about spilling. *)
THEOREM SpillInvariance == Spec => []SpillInv
  <1> USE LinearScanAssumption
  <1>1. Init => SpillInv
    <2> SUFFICES ASSUME Init PROVE SpillInv
      OBVIOUS
    <2>1. IInv
      BY InitIInv
    <2> QED
      BY <2>1 DEF Init, SpillInv, ActiveAllocatable, ActiveStarted, Reserved, Candidates,
         ArgumentsKeepTheirRegister, SpillOnlyUnderPressure, NoFunction
  <1>2. SpillInv /\ IInv' /\ [Next]_vars => SpillInv'
    <2> SUFFICES ASSUME SpillInv, IInv', [Next]_vars PROVE SpillInv'
      OBVIOUS
    <2>1. ASSUME NEW f \in Functions, StartScan(f) PROVE SpillInv'
      <3>1. IsFunction(f)
        OBVIOUS
      <3>2. ActiveAllocatable' /\ ActiveStarted'
        BY <2>1, <3>1 DEF StartScan, ActiveAllocatable, ActiveStarted, Reserved, IsFunction
      <3>3. ArgumentsKeepTheirRegister'
        BY <2>1, <3>1 DEF StartScan, ArgumentsKeepTheirRegister, Reserved, IsFunction
      <3>4. SpillOnlyUnderPressure'
        BY <2>1, <3>1 DEF StartScan, SpillOnlyUnderPressure, Candidates, IsFunction
      <3> QED BY <3>2, <3>3, <3>4 DEF SpillInv
    <2>2. ASSUME NEW v \in todo, Skip(v) PROVE SpillInv'
      <3>1. ActiveAllocatable' /\ ActiveStarted' /\ ArgumentsKeepTheirRegister'
        BY <2>2 DEF SpillInv, Skip, ActiveAllocatable, ActiveStarted, ArgumentsKeepTheirRegister
      <3>2. SpillOnlyUnderPressure'
        BY <2>2 DEF SpillInv, Skip, SpillOnlyUnderPressure, InRegister, LiveAt
      <3> QED BY <3>1, <3>2 DEF SpillInv
    <2>3. ASSUME NEW v \in todo, Assign(v) PROVE SpillInv'
      <3>1. /\ v \in Candidates(func) /\ v \in func.values /\ IsNext(v)
            /\ reg_map \in [Values -> 0 .. NumRegs] /\ func.values \subseteq Values
            /\ active' = StillActive(v) \cup {v} /\ todo' = todo \ {v}
            /\ UNCHANGED func
        BY <2>3 DEF Assign, SpillInv, IInv, TypeOK, IsFunction
      <3>2. PICK r \in Regs : reg_map' = [reg_map EXCEPT ![v] = r]
        BY <2>3 DEF Assign
      <3>3. InRegister(v)'
        BY <3>1, <3>2 DEF InRegister, Regs
      <3>4. ArgumentsKeepTheirRegister' /\ SpillOnlyUnderPressure'
        <4>1. \A u \in func.values : u # v => reg_map'[u] = reg_map[u]
          BY <3>1, <3>2
        <4>2. v \notin func.args /\ reg_map'[v] # 0
          BY <3>1, <3>3 DEF InRegister, Candidates
        <4> QED BY <3>1, <4>1, <4>2, SpillStep
      <3>5. ActiveAllocatable'
        BY <3>1 DEF SpillInv, ActiveAllocatable, StillActive
      <3>6. ActiveStarted'
        BY <3>1, NextStartsFirst DEF SpillInv, ActiveStarted, StillActive
      <3> QED BY <3>4, <3>5, <3>6 DEF SpillInv
    <2>4. ASSUME NEW v \in todo, LeaveInMemory(v) PROVE SpillInv'
      <3>1. /\ v \in Candidates(func) /\ IsNext(v)
            /\ Cardinality(StillActive(v)) = NumRegs
            /\ active' = StillActive(v) /\ todo' = todo \ {v}
            /\ UNCHANGED <<func, reg_map>>
        BY <2>4 DEF LeaveInMemory
      <3>2. Justified(v)
        BY <3>1, PressureAtSpill DEF Justified
      <3>3. ArgumentsKeepTheirRegister' /\ SpillOnlyUnderPressure'
        <4>1. v \notin func.args
          BY <3>1 DEF Candidates
        <4> QED BY <3>1, <3>2, <4>1, SpillStep
      <3>4. ActiveAllocatable' /\ ActiveStarted'
        BY <3>1 DEF SpillInv, ActiveAllocatable, ActiveStarted, StillActive
      <3> QED BY <3>3, <3>4 DEF SpillInv
    <2>5. ASSUME NEW v \in todo, TakeRegister(v) PROVE SpillInv'
      <3>1. /\ v \in Candidates(func) /\ v \in func.values /\ IsNext(v)
            /\ reg_map \in [Values -> 0 .. NumRegs] /\ func.values \subseteq Values
            /\ Cardinality(StillActive(v)) = NumRegs
            /\ StillActive(v) \subseteq active /\ active \subseteq func.values
            /\ todo' = todo \ {v}
            /\ UNCHANGED func
        BY <2>5 DEF TakeRegister, SpillInv, IInv, TypeOK, IsFunction, StillActive
      <3>2. PICK y \in StillActive(v) :
              /\ IsVictim(y, StillActive(v))
              /\ reg_map' = [reg_map EXCEPT ![y] = 0, ![v] = reg_map[y]]
              /\ active' = (StillActive(v) \ {y}) \cup {v}
        BY <2>5 DEF TakeRegister
      <3>3. y \in func.values \ func.args
        BY <3>1, <3>2, VictimIsNoArgument
      <3>4. Justified(v) /\ Justified(y)
        BY <3>1, <3>2, PressureAtSpill DEF Justified
      <3>5. \A u \in func.values : u # v /\ u # y => reg_map'[u] = reg_map[u]
        BY <3>1, <3>2
      <3>6. ArgumentsKeepTheirRegister' /\ SpillOnlyUnderPressure'
        <4>1. v \notin func.args
          BY <3>1 DEF Candidates
        <4> QED BY <3>1, <3>3, <3>4, <3>5, <4>1, SpillStep
      <3>7. ActiveAllocatable'
        BY <3>1, <3>2 DEF SpillInv, ActiveAllocatable
      <3>8. ActiveStarted'
        BY <3>1, <3>2, NextStartsFirst DEF SpillInv, ActiveStarted
      <3> QED BY <3>6, <3>7, <3>8 DEF SpillInv
    <2>6. CASE UNCHANGED vars
      BY <2>6 DEF vars, SpillInv, ActiveAllocatable, ActiveStarted,
         ArgumentsKeepTheirRegister, SpillOnlyUnderPressure, LiveAt, InRegister
    <2> QED
      BY <2>1, <2>2, <2>3, <2>4, <2>5, <2>6 DEF Next, Finished
  <1> QED
    BY <1>1, <1>2, Invariance, PTL DEF Spec

(* No argument loses its register: spill_at_interval never falls back to   *)
(* evicting one, because ArgMaxR < NumRegs.                                *)
THEOREM ArgumentsStay == Spec => []ArgumentsKeepTheirRegister
  BY SpillInvariance, PTL DEF SpillInv

(* A value is in memory only if more values than registers compete at some *)
(* position of its interval.                                               *)
THEOREM NoNeedlessSpill == Spec => []SpillOnlyUnderPressure
  BY SpillInvariance, PTL DEF SpillInv
=============================================================================
