------------------------------ MODULE Allocation ------------------------------
(***************************************************************************)
(* What the register allocation of a function promises to the code that is *)
(* generated from it: at some time every value has a place, a register or  *)
(* memory, and values that conflict have no register in common.            *)
(***************************************************************************)
EXTENDS Integers

VARIABLES
    conflicts,  \* the pairs of values that are live at a common point
    place       \* for every value a register, or Memory

vars == <<conflicts, place>>

Memory == 0
Unknown == <<>>

Keeps(p) ==
    \A pair \in conflicts :
        LET u == pair[1]
            v == pair[2]
        IN  u # v => p[u] = Memory \/ p[u] # p[v]

AllocationInit == place = Unknown

Allocate ==
    /\ place = Unknown /\ place' # Unknown
    /\ Keeps(place')
    /\ UNCHANGED conflicts

AllocationSafety == AllocationInit /\ [][Allocate]_vars

AllocationSpec == AllocationSafety /\ <>(place # Unknown)
=============================================================================
