---------------------------- MODULE CodeGenProofs ----------------------------
(***************************************************************************)
(* Whatever the module that is compiled, the parts of no frame overlap.    *)
(***************************************************************************)
EXTENDS CodeGen, SequenceTheorems, TLAPS

genVars == <<unit, context, output, frame>>

(* What allocate may find: every value once, an alloca is a pointer to an   *)
(* area of words, and no phi is an alloca.                                  *)
Slots(V) == [value : V, size : {1, 4, 8}, phi : BOOLEAN, area : {n \in Nat : n % 4 = 0}]

Distinct(vs) == \A i, j \in DOMAIN vs : vs[i].value = vs[j].value => i = j

FrameInputs(V) ==
    {vs \in Seq(Slots(V)) :
        /\ Distinct(vs)
        /\ \A v \in ToSet(vs) : v.area > 0 => v.size = 8 /\ ~v.phi}

(* The parts are apart and aligned, and none is below -bottom. *)
LaidOut(parts, bottom) ==
    \A p \in parts :
        /\ p.offset \in Int /\ p.size \in Nat
        /\ -bottom <= p.offset
        /\ p.offset % p.align = 0
        /\ \A q \in parts \ {p} : Apart(p, q)

(* The values of done have their parts, those of left are new. *)
Placed(done) ==
    /\ ToSet(frame.values) = done \cup ToSet(frame.left)
    /\ \A v \in done : /\ v.value \in DOMAIN frame.offset_map
                       /\ v.phi => v.value \in DOMAIN frame.phi_temp_offset_map
                       /\ v.area > 0 => v.value \in DOMAIN frame.areas
                       /\ \A w \in ToSet(frame.left) : v.value # w.value
    /\ LaidOut(FrameParts(done), frame.offset)

FrameInv(V) ==
    /\ frame = [values |-> frame.values, left |-> frame.left, offset |-> frame.offset,
                offset_map |-> frame.offset_map,
                phi_temp_offset_map |-> frame.phi_temp_offset_map,
                areas |-> frame.areas, size |-> frame.size]
    /\ frame.left \in FrameInputs(V)
    /\ frame.offset \in Nat \ (0 .. 15)
    /\ \E done \in SUBSET ToSet(frame.values) : Placed(done)

-----------------------------------------------------------------------------
(* Facts about numbers and sequences. *)

LEMMA AlignUp ==
  ASSUME NEW x \in Nat, NEW a \in {1, 4, 8, 16}
  PROVE  /\ ALIGN(x, a) \in Nat
         /\ ALIGN(x, a) >= x
         /\ ALIGN(x, a) % a = 0 /\ (-ALIGN(x, a)) % a = 0
  <1>1. CASE a = 1
    BY <1>1 DEF ALIGN
  <1>2. CASE a = 4
    BY <1>2 DEF ALIGN
  <1>3. CASE a = 8
    BY <1>3 DEF ALIGN
  <1>4. CASE a = 16
    BY <1>4 DEF ALIGN
  <1> QED BY <1>1, <1>2, <1>3, <1>4

(* What is left after the next value. *)
LEMMA NextLeft ==
  ASSUME NEW V, NEW vs \in FrameInputs(V), vs # <<>>
  PROVE  /\ Head(vs) \in Slots(V)
         /\ Head(vs).area > 0 => Head(vs).size = 8 /\ ~Head(vs).phi
         /\ Tail(vs) \in FrameInputs(V)
         /\ ToSet(vs) = {Head(vs)} \cup ToSet(Tail(vs))
         /\ \A w \in ToSet(Tail(vs)) : Head(vs).value # w.value
  <1>1. /\ Tail(vs) \in Seq(Slots(V))
        /\ Len(Tail(vs)) = Len(vs) - 1
        /\ \A i \in 1 .. Len(Tail(vs)) : Tail(vs)[i] = vs[i + 1]
        /\ Len(vs) \in Nat \ {0} /\ Head(vs) = vs[1] /\ Head(vs) \in Slots(V)
    BY HeadTailProperties, EmptySeq, LenProperties, ElementOfSeq DEF FrameInputs
  <1>2. DOMAIN vs = 1 .. Len(vs) /\ DOMAIN Tail(vs) = 1 .. Len(vs) - 1
    BY <1>1, LenProperties DEF FrameInputs
  <1>3. \A i \in DOMAIN Tail(vs) : i + 1 \in DOMAIN vs /\ Tail(vs)[i] = vs[i + 1] /\ i + 1 # 1
    BY <1>1, <1>2
  <1>4. \A i \in DOMAIN vs : i # 1 => i - 1 \in DOMAIN Tail(vs) /\ Tail(vs)[i - 1] = vs[i]
    BY <1>1, <1>2
  <1>5. 1 \in DOMAIN vs
    BY <1>1, <1>2
  <1>6. ToSet(vs) = {Head(vs)} \cup ToSet(Tail(vs))
    <2>1. ToSet(vs) \subseteq {Head(vs)} \cup ToSet(Tail(vs))
      <3> SUFFICES ASSUME NEW i \in DOMAIN vs PROVE vs[i] \in {Head(vs)} \cup ToSet(Tail(vs))
        BY DEF ToSet
      <3> QED BY <1>1, <1>4 DEF ToSet
    <2>2. ToSet(Tail(vs)) \subseteq ToSet(vs)
      BY <1>3 DEF ToSet
    <2>3. Head(vs) \in ToSet(vs)
      BY <1>1, <1>5 DEF ToSet
    <2> QED BY <2>1, <2>2, <2>3
  <1>7. Distinct(vs) /\ \A v \in ToSet(vs) : v.area > 0 => v.size = 8 /\ ~v.phi
    BY DEF FrameInputs
  <1>8. Distinct(Tail(vs))
    <2> SUFFICES ASSUME NEW i \in DOMAIN Tail(vs), NEW j \in DOMAIN Tail(vs),
                        Tail(vs)[i].value = Tail(vs)[j].value
                 PROVE  i = j
      BY DEF Distinct
    <2>1. i + 1 = j + 1
      BY <1>3, <1>7 DEF Distinct
    <2> QED BY <1>2, <2>1
  <1>9. \A w \in ToSet(Tail(vs)) : Head(vs).value # w.value
    BY <1>1, <1>3, <1>5, <1>7 DEF Distinct, ToSet
  <1> QED BY <1>1, <1>6, <1>7, <1>8, <1>9 DEF FrameInputs

(* New parts below the old ones. *)
LEMMA PartsAdded ==
  ASSUME NEW parts, NEW bottom \in Nat, LaidOut(parts, bottom),
         NEW new, NEW below \in Nat, below >= bottom, LaidOut(new, below),
         \A p \in new : p.offset + p.size <= -bottom
  PROVE  LaidOut(parts \cup new, below)
  BY DEF LaidOut, Apart

(* The steps of allocate. *)

(* The parts of the next value, when old is the offset and frame the frame  *)
(* that it is in.                                                           *)
PartsOf(v) ==
    {Part("slot", v.value, frame.offset_map[v.value], v.size, v.size)}
    \cup (IF v.phi THEN {Part("temp", v.value, frame.phi_temp_offset_map[v.value], v.size, v.size)}
          ELSE {})
    \cup (IF v.area > 0 THEN {Part("area", v.value, frame.areas[v.value], v.area, 4)} ELSE {})

LEMMA PartsOfDone ==
  ASSUME NEW done, NEW v
  PROVE  FrameParts(done \cup {v}) = FrameParts(done) \cup PartsOf(v)
  BY DEF FrameParts, PartsOf

LEMMA StepPlaced ==
  ASSUME NEW V, FrameInv(V), FrameStep
  PROVE  FrameInv(V)'
  <1>0. PICK h : h = Head(frame.left)
    OBVIOUS
  <1>1. PICK done \in SUBSET ToSet(frame.values) : Placed(done)
    BY DEF FrameInv
  <1>2. /\ h \in Slots(V)
        /\ h.area > 0 => h.size = 8 /\ ~h.phi
        /\ Tail(frame.left) \in FrameInputs(V)
        /\ ToSet(frame.left) = {h} \cup ToSet(Tail(frame.left))
        /\ \A w \in ToSet(Tail(frame.left)) : h.value # w.value
    <2>1. frame.left # <<>>
      BY DEF FrameStep, AllocateValue, AllocatePhi, AllocateAlloca, Allocating
    <2> DEFINE vs == frame.left
    <2>2. vs \in FrameInputs(V) /\ vs # <<>> /\ h = Head(vs)
      BY <1>0, <2>1 DEF FrameInv
    <2> HIDE DEF vs
    <2>3. /\ Head(vs) \in Slots(V)
          /\ Head(vs).area > 0 => Head(vs).size = 8 /\ ~Head(vs).phi
          /\ Tail(vs) \in FrameInputs(V)
          /\ ToSet(vs) = {Head(vs)} \cup ToSet(Tail(vs))
          /\ \A w \in ToSet(Tail(vs)) : Head(vs).value # w.value
      BY <2>2, NextLeft
    <2> QED BY <2>2, <2>3 DEF vs
  <1>3. /\ h.size \in {1, 4, 8} /\ h.area \in Nat /\ h.area % 4 = 0 /\ h.phi \in BOOLEAN
        /\ frame.offset \in Nat /\ frame.offset >= 16
    BY <1>2 DEF Slots, FrameInv
  <1>4. /\ SlotEnd \in Nat /\ SlotEnd >= frame.offset + h.size /\ (-SlotEnd) % h.size = 0
    <2> DEFINE x == frame.offset + h.size
    <2>1. x \in Nat /\ h.size \in {1, 4, 8, 16}
      BY <1>3
    <2>2. SlotEnd = ALIGN(x, h.size)
      BY <1>0 DEF SlotEnd, NextValue
    <2>3. ALIGN(x, h.size) \in Nat /\ ALIGN(x, h.size) >= x /\ (-ALIGN(x, h.size)) % h.size = 0
      <3> HIDE DEF x
      <3> QED BY <2>1, AlignUp
    <2> QED BY <2>2, <2>3
  <1>5. /\ SecondEnd \in Nat /\ SecondEnd >= SlotEnd + h.size /\ (-SecondEnd) % h.size = 0
    <2> DEFINE x == SlotEnd + h.size
    <2>1. x \in Nat /\ h.size \in {1, 4, 8, 16}
      BY <1>3, <1>4
    <2>2. SecondEnd = ALIGN(x, h.size)
      BY <1>0 DEF SecondEnd, NextValue
    <2>3. ALIGN(x, h.size) \in Nat /\ ALIGN(x, h.size) >= x /\ (-ALIGN(x, h.size)) % h.size = 0
      <3> HIDE DEF x
      <3> QED BY <2>1, AlignUp
    <2> QED BY <2>2, <2>3
  <1>6. /\ frame'.values = frame.values /\ frame'.left = Tail(frame.left)
        /\ frame' = [values |-> frame'.values, left |-> frame'.left, offset |-> frame'.offset,
                     offset_map |-> frame'.offset_map,
                     phi_temp_offset_map |-> frame'.phi_temp_offset_map,
                     areas |-> frame'.areas, size |-> frame'.size]
    BY DEF FrameInv, FrameStep, AllocateValue, AllocatePhi, AllocateAlloca
  <1>7. /\ frame'.offset_map = With(frame.offset_map, h.value, -SlotEnd)
        /\ \/ /\ ~h.phi /\ h.area = 0 /\ frame'.offset = SlotEnd
              /\ UNCHANGED <<frame.phi_temp_offset_map, frame.areas>>
           \/ /\ h.phi /\ h.area = 0 /\ frame'.offset = SecondEnd
              /\ frame'.phi_temp_offset_map = With(frame.phi_temp_offset_map, h.value, -SecondEnd)
              /\ UNCHANGED frame.areas
           \/ /\ ~h.phi /\ h.area > 0 /\ frame'.offset = SlotEnd + h.area
              /\ frame'.areas = With(frame.areas, h.value, -(SlotEnd + h.area))
              /\ UNCHANGED frame.phi_temp_offset_map
    <2>1. CASE AllocateValue
      BY <1>0, <1>3, <2>1 DEF FrameInv, AllocateValue, NextValue
    <2>2. CASE AllocatePhi
      BY <1>0, <1>2, <1>3, <2>2 DEF FrameInv, AllocatePhi, NextValue
    <2>3. CASE AllocateAlloca
      BY <1>0, <1>2, <1>3, <2>3 DEF FrameInv, AllocateAlloca, NextValue
    <2> QED BY <2>1, <2>2, <2>3 DEF FrameStep
  <1>8. /\ DOMAIN frame'.offset_map = DOMAIN frame.offset_map \cup {h.value}
        /\ frame'.offset_map[h.value] = -SlotEnd
        /\ \A x \in DOMAIN frame.offset_map :
                x # h.value => frame'.offset_map[x] = frame.offset_map[x]
    BY <1>7 DEF With
  <1>9. /\ DOMAIN frame.phi_temp_offset_map \subseteq DOMAIN frame'.phi_temp_offset_map
        /\ h.phi => /\ h.value \in DOMAIN frame'.phi_temp_offset_map
                    /\ frame'.phi_temp_offset_map[h.value] = -SecondEnd
        /\ \A x \in DOMAIN frame.phi_temp_offset_map :
                x # h.value => frame'.phi_temp_offset_map[x] = frame.phi_temp_offset_map[x]
    BY <1>7 DEF With
  <1>10. /\ DOMAIN frame.areas \subseteq DOMAIN frame'.areas
         /\ h.area > 0 => /\ h.value \in DOMAIN frame'.areas
                          /\ frame'.areas[h.value] = -(SlotEnd + h.area)
         /\ \A x \in DOMAIN frame.areas :
                x # h.value => frame'.areas[x] = frame.areas[x]
    BY <1>3, <1>7 DEF With
  <1>11. \A v \in done : v.value # h.value
    BY <1>1, <1>2 DEF Placed
  <1>12. FrameParts(done)' = FrameParts(done)
    <2>1. \A v \in done : frame'.offset_map[v.value] = frame.offset_map[v.value]
      BY <1>1, <1>8, <1>11 DEF Placed
    <2>2. \A v \in done : v.phi => frame'.phi_temp_offset_map[v.value]
                                    = frame.phi_temp_offset_map[v.value]
      BY <1>1, <1>9, <1>11 DEF Placed
    <2>3. \A v \in done : v.area > 0 => frame'.areas[v.value] = frame.areas[v.value]
      BY <1>1, <1>10, <1>11 DEF Placed
    <2> QED BY <2>1, <2>2, <2>3 DEF FrameParts
  <1>13. /\ frame'.offset \in Nat /\ frame'.offset >= frame.offset
         /\ LaidOut(PartsOf(h)', frame'.offset)
         /\ \A p \in PartsOf(h)' : p.offset + p.size <= -frame.offset
    <2> DEFINE slot == Part("slot", h.value, -SlotEnd, h.size, h.size)
               temp == Part("temp", h.value, -SecondEnd, h.size, h.size)
               area == Part("area", h.value, -(SlotEnd + h.area), h.area, 4)
    <2>1. CASE ~h.phi /\ h.area = 0
      <3>1. PartsOf(h)' = {slot}
        BY <1>3, <1>8, <2>1 DEF PartsOf
      <3> QED BY <1>3, <1>4, <1>7, <2>1, <3>1 DEF LaidOut, Part
    <2>2. CASE h.phi
      <3>1. PartsOf(h)' = {slot, temp} /\ h.area = 0 /\ frame'.offset = SecondEnd
        BY <1>2, <1>3, <1>7, <1>8, <1>9, <2>2 DEF PartsOf
      <3> QED BY <1>3, <1>4, <1>5, <3>1 DEF LaidOut, Part, Apart
    <2>3. CASE h.area > 0
      <3>1. PartsOf(h)' = {slot, area} /\ h.size = 8 /\ frame'.offset = SlotEnd + h.area
        BY <1>2, <1>3, <1>7, <1>8, <1>10, <2>3 DEF PartsOf
      <3>2. (-(SlotEnd + h.area)) % 4 = 0
        BY <1>3, <1>4, <3>1
      <3> QED BY <1>3, <1>4, <2>3, <3>1, <3>2 DEF LaidOut, Part, Apart
    <2> QED BY <1>3, <2>1, <2>2, <2>3
  <1>14. Placed(done \cup {h})'
    <2>1. ToSet(frame.values)' = (done \cup {h}) \cup ToSet(frame.left)'
      BY <1>1, <1>2, <1>6 DEF Placed
    <2>2. ASSUME NEW v \in done \cup {h}
          PROVE  /\ v.value \in DOMAIN frame'.offset_map
                 /\ v.phi => v.value \in DOMAIN frame'.phi_temp_offset_map
                 /\ v.area > 0 => v.value \in DOMAIN frame'.areas
                 /\ \A w \in ToSet(frame.left)' : v.value # w.value
      <3>1. CASE v = h
        BY <1>2, <1>6, <1>8, <1>9, <1>10, <3>1
      <3>2. CASE v \in done
        BY <1>1, <1>2, <1>6, <1>8, <1>9, <1>10, <3>2 DEF Placed
      <3> QED BY <3>1, <3>2
    <2>3. LaidOut(FrameParts(done), frame.offset)
      BY <1>1 DEF Placed
    <2>4. FrameParts(done \cup {h})' = FrameParts(done) \cup PartsOf(h)'
      BY <1>12 DEF FrameParts, PartsOf
    <2>5. LaidOut(FrameParts(done) \cup PartsOf(h)', frame'.offset)
      BY <1>3, <1>13, <2>3, PartsAdded
    <2> QED BY <2>1, <2>2, <2>4, <2>5 DEF Placed
  <1>15. done \cup {h} \subseteq ToSet(frame.values)'
    BY <1>1, <1>2, <1>6 DEF Placed
  <1>16. (frame.left \in FrameInputs(V))'
    <2>1. FrameInputs(V)' = FrameInputs(V)
      BY DEF FrameInputs, Slots
    <2> QED BY <1>2, <1>6, <2>1
  <1>17. (frame.offset \in Nat \ (0 .. 15))'
    BY <1>3, <1>13
  <1>18. (\E some \in SUBSET ToSet(frame.values) : Placed(some))'
    BY <1>14, <1>15
  <1> QED BY <1>6, <1>16, <1>17, <1>18 DEF FrameInv

(* A frame begins with the saved registers. *)
LEMMA SavedLaidOut == FrameParts({}) = Saved /\ LaidOut(Saved, 16)
  BY DEF FrameParts, LaidOut, Saved, Part, Apart

LEMMA FirstFrame ==
  ASSUME NEW V, frame = FrameStart(<<>>)
  PROVE  FrameInv(V)
  <1>1. /\ frame = [values |-> <<>>, left |-> <<>>, offset |-> 16, offset_map |-> <<>>,
                    phi_temp_offset_map |-> <<>>, areas |-> <<>>, size |-> 0]
    BY DEF FrameStart, PROLOGUE_OFFSET_BASE
  <1>2. <<>> \in FrameInputs(V)
    BY DEF FrameInputs, Distinct, ToSet
  <1>3. Placed({})
    BY <1>1, SavedLaidOut DEF Placed
  <1> QED BY <1>1, <1>2, <1>3 DEF FrameInv

LEMMA NextFrame ==
  ASSUME NEW V, NEW vs \in FrameInputs(V), frame' = FrameStart(vs)
  PROVE  FrameInv(V)'
  <1>1. /\ frame' = [values |-> vs, left |-> vs, offset |-> 16, offset_map |-> <<>>,
                     phi_temp_offset_map |-> <<>>, areas |-> <<>>, size |-> 0]
    BY DEF FrameStart, PROLOGUE_OFFSET_BASE
  <1>2. FrameParts({})' = Saved
    BY DEF FrameParts
  <1>3. Placed({})'
    BY <1>1, <1>2, SavedLaidOut DEF Placed
  <1> QED BY <1>1, <1>3 DEF FrameInv

-----------------------------------------------------------------------------
(* The whole generator: but for allocate and the prologue, which notes the  *)
(* size, no step touches a frame.                                           *)
Contexts == [func : Nat, block : Nat, inst : Nat, next_phi_edge_id : Nat]

IInv(V, Units) ==
    /\ unit \in Units
    /\ context \in Contexts
    /\ FrameInv(V)

LEMMA NextBlockType ==
  ASSUME context \in Contexts
  PROVE  NextBlock \in Contexts
  <1> DEFINE c == [context EXCEPT !.block = @ + 1]
  <1>1. c \in Contexts
    BY DEF Contexts
  <1>2. NextBlock = [c EXCEPT !.inst = 1]
    BY DEF NextBlock
  <1> HIDE DEF c
  <1>3. [c EXCEPT !.inst = 1] \in Contexts
    BY <1>1 DEF Contexts
  <1> QED BY <1>2, <1>3

LEMMA FrameInvAgain ==
  ASSUME NEW V, FrameInv(V), UNCHANGED frame
  PROVE  FrameInv(V)'
  <1>1. PICK done \in SUBSET ToSet(frame.values) : Placed(done)
    BY DEF FrameInv
  <1>2. FrameParts(done)' = FrameParts(done)
    BY DEF FrameParts
  <1>3. Placed(done)'
    BY <1>1, <1>2 DEF Placed
  <1> QED BY <1>3 DEF FrameInv

LEMMA PrologueKeeps ==
  ASSUME NEW V, FrameInv(V), GenPrologue
  PROVE  FrameInv(V)'
  <1>1. frame' = [frame EXCEPT !.size = FrameSize]
    BY DEF GenPrologue
  <1>2. /\ UNCHANGED <<frame.values, frame.left, frame.offset, frame.offset_map,
                       frame.phi_temp_offset_map, frame.areas>>
        /\ frame' = [values |-> frame'.values, left |-> frame'.left, offset |-> frame'.offset,
                     offset_map |-> frame'.offset_map,
                     phi_temp_offset_map |-> frame'.phi_temp_offset_map,
                     areas |-> frame'.areas, size |-> frame'.size]
    BY <1>1 DEF FrameInv
  <1>3. PICK done \in SUBSET ToSet(frame.values) : Placed(done)
    BY DEF FrameInv
  <1>4. FrameParts(done)' = FrameParts(done)
    BY <1>2 DEF FrameParts
  <1>5. Placed(done)'
    BY <1>2, <1>3, <1>4 DEF Placed
  <1> QED BY <1>2, <1>5 DEF FrameInv

LEMMA StepCode ==
  ASSUME NEW V, NEW Units,
         \A u \in Units : \A k \in 1 .. Len(u.functions) :
            SlotsOf(u.functions[k]) \in FrameInputs(V),
         \A u \in Units : Len(u.functions) \in Nat,
         IInv(V, Units), [CodeGenStep]_genVars
  PROVE  IInv(V, Units)'
  <1> USE DEF IInv, Contexts
  <1>1. CASE BeginFunction
    <2>1. /\ context'.func = context.func + 1 /\ context' \in Contexts
          /\ unit' = unit
          /\ frame' = FrameStart(SlotsOf(unit.functions[context.func + 1]))
      BY <1>1 DEF BeginFunction, NoContext
    <2>2. context.func + 1 \in 1 .. Len(unit.functions)
      BY <1>1 DEF BeginFunction
    <2>3. SlotsOf(unit.functions[context.func + 1]) \in FrameInputs(V)
      BY <2>2
    <2>4. FrameInv(V)'
      <3>1. PICK vs \in FrameInputs(V) : frame' = FrameStart(vs)
        BY <2>1, <2>3
      <3> QED BY <3>1, NextFrame
    <2> QED BY <2>1, <2>4
  <1>2. CASE Allocate
    BY <1>2, StepPlaced DEF Allocate
  <1>3. CASE GenPrologue
    <2>1. context' \in Contexts /\ unit' = unit
      BY <1>3, NextBlockType DEF GenPrologue
    <2> QED BY <1>3, <2>1, PrologueKeeps
  <1>4. ASSUME UNCHANGED <<unit, frame>>,
               \/ UNCHANGED context
               \/ context' = [context EXCEPT !.inst = @ + 1]
               \/ context' = NextBlock
               \/ context' = [NextBlock EXCEPT !.next_phi_edge_id = @ + 1]
        PROVE  IInv(V, Units)'
    <2>1. context' \in Contexts
      <3>1. NextBlock \in Contexts
        BY NextBlockType
      <3>2. [context EXCEPT !.inst = @ + 1] \in Contexts
        OBVIOUS
      <3> HIDE DEF NextBlock
      <3>3. [NextBlock EXCEPT !.next_phi_edge_id = @ + 1] \in Contexts
        BY <3>1
      <3> QED BY <1>4, <3>1, <3>2, <3>3
    <2> QED BY <1>4, <2>1, FrameInvAgain
  <1>5. CASE GenBinary \/ GenFloatBinary \/ GenAlloca \/ GenLoad \/ GenStore \/ GenIcmp
             \/ GenFcmp \/ GenZext \/ GenSitofp \/ GenFptosi \/ GenCall \/ GenGep
    BY <1>4, <1>5 DEF GenBinary, GenFloatBinary, GenAlloca, GenLoad, GenStore, GenIcmp, GenFcmp,
        GenZext, GenSitofp, GenFptosi, GenCall, GenGep, GoOn
  <1>6. CASE GenRet \/ GenJump \/ GenCondBr
    BY <1>4, <1>6 DEF GenRet, GenJump, GenCondBr, BlockEnd
  <1>7. CASE UNCHANGED genVars
    BY <1>4, <1>7 DEF genVars
  <1> QED BY <1>1, <1>2, <1>3, <1>5, <1>6, <1>7 DEF CodeGenStep

LEMMA PlacedMeansDisjoint ==
  ASSUME NEW V, FrameInv(V)
  PROVE  FrameDisjoint
  <1> SUFFICES ASSUME ~Allocating
               PROVE  /\ FrameSize % PROLOGUE_ALIGN = 0
                      /\ \A p \in FrameParts(ToSet(frame.values)) :
                            /\ -FrameSize <= p.offset
                            /\ p.offset % p.align = 0
                            /\ \A q \in FrameParts(ToSet(frame.values)) \ {p} : Apart(p, q)
    BY DEF FrameDisjoint
  <1>1. PICK done \in SUBSET ToSet(frame.values) : Placed(done)
    BY DEF FrameInv
  <1>2. ToSet(frame.left) = {}
    BY DEF Allocating, ToSet
  <1>3. ToSet(frame.values) = done
    BY <1>1, <1>2 DEF Placed
  <1>4. /\ FrameSize \in Nat /\ FrameSize >= frame.offset /\ frame.offset \in Nat
        /\ FrameSize % PROLOGUE_ALIGN = 0
    BY AlignUp DEF FrameSize, PROLOGUE_ALIGN, FrameInv
  <1>5. LaidOut(FrameParts(done), frame.offset)
    BY <1>1 DEF Placed
  <1> QED BY <1>3, <1>4, <1>5 DEF LaidOut

(* Slots, second slots of phis, areas and the saved registers of a frame    *)
(* are apart, aligned and within it, for any functions: of SlotsOf it is    *)
(* assumed that a value is met once, as in SSA form, and that an alloca is  *)
(* a pointer to words.                                                      *)
THEOREM FramesDisjoint ==
  ASSUME NEW V, NEW Units,
         \A u \in Units : \A k \in 1 .. Len(u.functions) :
            SlotsOf(u.functions[k]) \in FrameInputs(V),
         \A u \in Units : Len(u.functions) \in Nat
  PROVE  unit \in Units /\ CodeGenStart /\ [][CodeGenStep]_genVars => []FrameDisjoint
  <1>1. unit \in Units /\ CodeGenStart => IInv(V, Units)
    <2> SUFFICES ASSUME unit \in Units, CodeGenStart PROVE IInv(V, Units)
      OBVIOUS
    <2>2. FrameInv(V)
      BY FirstFrame DEF CodeGenStart
    <2> QED BY <2>2 DEF IInv, CodeGenStart, NoContext, Contexts
  <1>2. IInv(V, Units) /\ [CodeGenStep]_genVars => IInv(V, Units)'
    BY StepCode
  <1>3. IInv(V, Units) => FrameDisjoint
    BY PlacedMeansDisjoint DEF IInv
  <1> QED BY <1>1, <1>2, <1>3, PTL
=============================================================================
