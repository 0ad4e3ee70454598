-------------------------------- MODULE Frame --------------------------------
(***************************************************************************)
(* CodeGen::allocate: the stack frame of a function.  Offsets go down from *)
(* $fp: below the saved registers every argument and every value that an   *)
(* instruction defines has a slot, a phi has another for the copies, and   *)
(* an alloca has the area it points to below its slot.                     *)
(***************************************************************************)
EXTENDS Integers, Sequences, FiniteSets, SequencesExt

PROLOGUE_OFFSET_BASE == 16      \* the saved $ra and $fp
PROLOGUE_ALIGN == 16

VARIABLE frame

(* values: the arguments and the instructions that define something, each    *)
(* with its size, whether it is a phi, and the size of what it points to if *)
(* it is an alloca; left: those to come; offset; offset_map and             *)
(* phi_temp_offset_map; areas: the offsets of the areas; size: frame_size.  *)
FrameStart(values) ==
    [values |-> values, left |-> values, offset |-> PROLOGUE_OFFSET_BASE,
     offset_map |-> <<>>, phi_temp_offset_map |-> <<>>, areas |-> <<>>, size |-> 0]

(* map[key] = val *)
With(map, key, val) ==
    [k \in DOMAIN map \cup {key} |-> IF k = key THEN val ELSE map[k]]

(* x, up to a multiple of alignment. *)
ALIGN(x, alignment) == ((x + alignment - 1) \div alignment) * alignment

Allocating == frame.left # <<>>
NextValue == Head(frame.left)

(* The end of the next slot, and of the one after it. *)
SlotEnd == ALIGN(frame.offset + NextValue.size, NextValue.size)
SecondEnd == ALIGN(SlotEnd + NextValue.size, NextValue.size)

AllocateValue ==
    /\ Allocating /\ ~NextValue.phi /\ NextValue.area = 0
    /\ frame' = [frame EXCEPT !.left = Tail(@), !.offset = SlotEnd,
                              !.offset_map = With(@, NextValue.value, -SlotEnd)]

(* Mutant of AllocatePhi: the slot for the copies is that of the phi. *)
AllocatePhiOnce ==
    /\ Allocating /\ NextValue.phi
    /\ frame' = [frame EXCEPT !.left = Tail(@), !.offset = SlotEnd,
                              !.offset_map = With(@, NextValue.value, -SlotEnd),
                              !.phi_temp_offset_map = With(@, NextValue.value, -SlotEnd)]

AllocatePhi ==
    /\ Allocating /\ NextValue.phi
    /\ frame' = [frame EXCEPT !.left = Tail(@), !.offset = SecondEnd,
                              !.offset_map = With(@, NextValue.value, -SlotEnd),
                              !.phi_temp_offset_map = With(@, NextValue.value, -SecondEnd)]

AllocateAlloca ==
    /\ Allocating /\ NextValue.area > 0
    /\ frame' = [frame EXCEPT !.left = Tail(@), !.offset = SlotEnd + NextValue.area,
                              !.offset_map = With(@, NextValue.value, -SlotEnd),
                              !.areas = With(@, NextValue.value, -(SlotEnd + NextValue.area))]

(* frame_size *)
FrameSize == ALIGN(frame.offset, PROLOGUE_ALIGN)

FrameStep == AllocateValue \/ AllocatePhi \/ AllocateAlloca

-----------------------------------------------------------------------------
(* The parts of the frame: $ra and $fp, and for the values vs their slots,   *)
(* the second slots of the phis and the areas.                              *)
Part(kind, value, offset, size, align) ==
    [kind |-> kind, value |-> value, offset |-> offset, size |-> size, align |-> align]

Saved == {Part("saved", <<"reg", "ra">>, -8, 8, 8), Part("saved", <<"reg", "fp">>, -16, 8, 8)}

FrameParts(vs) ==
    Saved
    \cup {Part("slot", v.value, frame.offset_map[v.value], v.size, v.size) : v \in vs}
    \cup {Part("temp", v.value, frame.phi_temp_offset_map[v.value], v.size, v.size) :
                v \in {w \in vs : w.phi}}
    \cup {Part("area", v.value, frame.areas[v.value], v.area, 4) : v \in {w \in vs : w.area > 0}}

Apart(p, q) == p.offset + p.size <= q.offset \/ q.offset + q.size <= p.offset

(* The parts of a frame are apart, each is aligned to what is accessed in    *)
(* it, and all are within the frame, whose size keeps $sp a multiple of 16. *)
FrameDisjoint ==
    ~Allocating =>
        /\ FrameSize % PROLOGUE_ALIGN = 0
        /\ \A p \in FrameParts(ToSet(frame.values)) :
            /\ -FrameSize <= p.offset
            /\ p.offset % p.align = 0
            /\ \A q \in FrameParts(ToSet(frame.values)) \ {p} : Apart(p, q)
=============================================================================
