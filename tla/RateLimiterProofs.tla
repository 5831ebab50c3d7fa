------------------------- MODULE RateLimiterProofs -------------------------
(***************************************************************************)
(* Proofs about RateLimiter, for any callers, maps and limits.  Held says  *)
(* how maps, slots and callers belong together, Counted how a minute's     *)
(* counter relates to the calls it let through; both are inductive with    *)
(* TypeOK.                                                                 *)
(***************************************************************************)
EXTENDS RateLimiter, FiniteSetTheorems, TLAPS

(* A slot belongs to a caller in flight that holds its map; where nobody   *)
(* queues and nothing has aged, also the other way round, and the map is   *)
(* the one activeSlots knows.                                              *)
Steady == ~mayWait /\ agings = 0

Held ==
    /\ \A m \in Maps : \A c \in slots[m] : c \in InFlight /\ call[c].map = m
    /\ agings = 0 => aged = {}
    /\ ~mayWait => \A c \in Calls : call[c].pc # "queued"
    /\ Steady => \A c \in InFlight :
                    c \in slots[call[c].map] /\ active = {call[c].map}

(* What a read of a minute's counter may return never exceeds the calls    *)
(* the minute let through; unless it is sloppy its value is their number.  *)
Counted ==
    /\ \A k \in Minutes :
          /\ \A n \in seen[k] : n <= passed[k]
          /\ k \notin sloppy => kv[k] = passed[k] /\ passed[k] <= MaxPerMinute
    /\ \A c \in Calls : call[c].pc = "put" =>
          call[c].count <= passed[call[c].minute] /\ call[c].count < MaxPerMinute

-----------------------------------------------------------------------------
(* Types.                                                                  *)

LEMMA TypeInit == Init => TypeOK
<1> SUFFICES ASSUME Init PROVE TypeOK
    OBVIOUS
<1>1. 0 \in Minutes
    BY ConstantsAssumption DEF Minutes
<1>2. QED
    BY <1>1, ConstantsAssumption DEF Init, TypeOK, Ended, CallType, Resting

(* What happens to slots and callers in one turn of acquireSlot.           *)
LEMMA TurnTyped ==
    ASSUME TypeOK, NEW c \in Calls, NEW m \in Maps,
           Claim(c, m) \/ Sleep(c, m) \/ Refuse(c, m)
    PROVE  /\ slots' \in [Maps -> SUBSET Calls]
           /\ call' \in [Calls -> CallType]
           /\ \A d \in Calls : call'[d].pc \in Resting <=> call'[d].map = NoMap
<1> USE DEF TypeOK
<1>1. 0 \in Minutes /\ NoMap \notin Maps
    BY ConstantsAssumption DEF Minutes
<1>2. CASE Claim(c, m)
    BY <1>1, <1>2 DEF Claim, Pruned, CallType, Resting, Holding
<1>3. CASE Sleep(c, m)
    BY <1>1, <1>3 DEF Sleep, Pruned, CallType, Resting, Holding, Ended
<1>4. CASE Refuse(c, m)
    BY <1>1, <1>4 DEF Refuse, Pruned, CallType, Resting, Ended
<1>5. QED
    BY <1>2, <1>3, <1>4

LEMMA ReleaseTyped ==
    ASSUME TypeOK, NEW c \in Calls, NEW outcome \in Resting, Release(c, outcome)
    PROVE  /\ slots' \in [Maps -> SUBSET Calls]
           /\ call' \in [Calls -> CallType]
           /\ \A d \in Calls : call'[d].pc \in Resting <=> call'[d].map = NoMap
           /\ active' \subseteq Maps /\ aged' \subseteq Calls
<1>1. 0 \in Minutes
    BY ConstantsAssumption DEF Minutes
<1>2. slots' \in [Maps -> SUBSET Calls]
    BY DEF TypeOK, Release
<1>3. active' \subseteq Maps /\ aged' \subseteq Calls
    BY DEF TypeOK, Release
<1>4. call' \in [Calls -> CallType]
    BY <1>1 DEF TypeOK, Release, Ended, CallType
<1>5. \A d \in Calls : call'[d].pc \in Resting <=> call'[d].map = NoMap
    BY DEF TypeOK, Release, Ended
<1>6. QED
    BY <1>2, <1>3, <1>4, <1>5

LEMMA TypeNext == TypeOK /\ [Next]_vars => TypeOK'
<1> SUFFICES ASSUME TypeOK, [Next]_vars PROVE TypeOK'
    OBVIOUS
<1>1. ASSUME NEW c \in Calls, Enter(c)
      PROVE  TypeOK'
  <2>1. PICK m \in Maps :
           active' = {m} /\ (Claim(c, m) \/ Sleep(c, m) \/ Refuse(c, m))
      BY <1>1 DEF Enter
  <2>2. QED
      BY <1>1, <2>1, TurnTyped DEF Enter, TypeOK, counters
<1>2. ASSUME NEW c \in Calls, Wake(c)
      PROVE  TypeOK'
  <2>1. call[c].map \in Maps
      BY <1>2 DEF Wake, TypeOK, CallType, Resting
  <2>2. QED
      BY <1>2, <2>1, TurnTyped DEF Wake, TypeOK, counters
<1>3. ASSUME NEW c \in Calls, ReadCounter(c)
      PROVE  TypeOK'
  <2> DEFINE k == call[c].minute
  <2>1. PICK n \in seen[k] \union {0} :
           /\ sloppy' = IF n = kv[k] THEN sloppy ELSE sloppy \union {k}
           /\ \/ Release(c, "throttled")
              \/ /\ call' = [call EXCEPT ![c].pc = "put", ![c].count = n]
                 /\ UNCHANGED <<active, slots, aged>>
      BY <1>3 DEF ReadCounter
  <2>2. k \in Minutes /\ n \in Nat
      BY DEF TypeOK, CallType
  <2>3. sloppy' \subseteq Minutes
      BY <2>1, <2>2 DEF TypeOK
  <2>4. UNCHANGED <<mayWait, minute, agings, kv, seen, passed>> /\ call[c].pc = "get"
      BY <1>3 DEF ReadCounter
  <2>5. CASE Release(c, "throttled")
      BY <2>3, <2>4, <2>5, ReleaseTyped DEF TypeOK, Resting
  <2>6. CASE /\ call' = [call EXCEPT ![c].pc = "put", ![c].count = n]
             /\ UNCHANGED <<active, slots, aged>>
    <3>1. call' \in [Calls -> CallType]
        BY <2>2, <2>6 DEF TypeOK, CallType, Holding
    <3>2. \A d \in Calls : call'[d].pc \in Resting <=> call'[d].map = NoMap
        BY <2>4, <2>6 DEF TypeOK, CallType, Resting
    <3>3. QED
        BY <2>3, <2>4, <2>6, <3>1, <3>2 DEF TypeOK
  <2>7. QED
      BY <2>1, <2>5, <2>6
<1>4. ASSUME NEW c \in Calls, WriteCounter(c)
      PROVE  TypeOK'
  <2> DEFINE k == call[c].minute
             n == call[c].count + 1
  <2>1. k \in Minutes /\ n \in Nat
      BY DEF TypeOK, CallType
  <2>2. call' \in [Calls -> CallType]
      BY <1>4 DEF WriteCounter, TypeOK, CallType, Holding
  <2>3. \A d \in Calls : call'[d].pc \in Resting <=> call'[d].map = NoMap
      BY <1>4 DEF WriteCounter, TypeOK, CallType, Resting
  <2>4. kv' \in [Minutes -> Nat] /\ seen' \in [Minutes -> SUBSET Nat]
      BY <1>4, <2>1 DEF WriteCounter, TypeOK
  <2>5. passed' \in [Minutes -> Nat] /\ sloppy' \subseteq Minutes
      BY <1>4, <2>1 DEF WriteCounter, TypeOK
  <2>6. UNCHANGED <<mayWait, minute, active, slots, aged, agings>>
      BY <1>4 DEF WriteCounter
  <2>7. QED
      BY <2>2, <2>3, <2>4, <2>5, <2>6 DEF TypeOK
<1>5. ASSUME NEW c \in Calls, Finish(c)
      PROVE  TypeOK'
    BY <1>5, ReleaseTyped DEF Finish, TypeOK, Resting, counters
<1>6. ASSUME NEW c \in Calls, Age(c)
      PROVE  TypeOK'
    BY <1>6 DEF Age, TypeOK, counters
<1>7. CASE NextMinute
    BY <1>7, ConstantsAssumption DEF NextMinute, TypeOK, Minutes, counters
<1>8. CASE UNCHANGED vars
    BY <1>8 DEF vars, counters, TypeOK
<1>9. QED
    BY <1>1, <1>2, <1>3, <1>4, <1>5, <1>6, <1>7, <1>8 DEF Next, StoreStep

(* Every variable keeps its type, and a caller holds a map exactly while   *)
(* its call is undecided or in flight.                                     *)
THEOREM TypeCorrect == Spec => []TypeOK
    BY TypeInit, TypeNext, PTL DEF Spec

-----------------------------------------------------------------------------
(* The bound of a single map.                                              *)

LEMMA FiniteSlots ==
    ASSUME NEW S \in SUBSET Calls
    PROVE  IsFiniteSet(S) /\ Cardinality(S) \in Nat
    BY ConstantsAssumption, FS_Subset, FS_CardinalityType

(* A set that loses members does not outgrow the limit.                    *)
LEMMA Shrinks ==
    ASSUME NEW S \in SUBSET Calls, NEW T \in SUBSET S, Cardinality(S) <= MaxConcurrent
    PROVE  Cardinality(T) <= MaxConcurrent
    BY FiniteSlots, FS_Subset, ConstantsAssumption

LEMMA TurnBounded ==
    ASSUME TypeOK, SlotsBounded, NEW c \in Calls, NEW m \in Maps,
           Claim(c, m) \/ Sleep(c, m) \/ Refuse(c, m)
    PROVE  SlotsBounded'
<1>1. Pruned(m) \in SUBSET slots[m] /\ slots[m] \in SUBSET Calls
    BY DEF Pruned, TypeOK
<1>2. Cardinality(Pruned(m)) <= MaxConcurrent
    BY <1>1, Shrinks DEF SlotsBounded
<1>3. CASE Claim(c, m)
  <2>1. Cardinality(Pruned(m)) < MaxConcurrent
      BY <1>3 DEF Claim, HasRoom
  <2>2. Cardinality(Pruned(m) \union {c}) <= Cardinality(Pruned(m)) + 1
      BY <1>1, FiniteSlots, FS_AddElement
  <2>3. Cardinality(Pruned(m) \union {c}) <= MaxConcurrent
      BY <1>1, <2>1, <2>2, FiniteSlots, ConstantsAssumption
  <2>4. QED
      BY <1>3, <2>3 DEF Claim, SlotsBounded, TypeOK
<1>4. CASE Sleep(c, m) \/ Refuse(c, m)
    BY <1>2, <1>4 DEF Sleep, Refuse, SlotsBounded, TypeOK
<1>5. QED
    BY <1>3, <1>4

LEMMA ReleaseBounded ==
    ASSUME TypeOK, SlotsBounded, NEW c \in Calls, NEW outcome, Release(c, outcome)
    PROVE  SlotsBounded'
<1>1. ASSUME NEW m \in Maps
      PROVE  slots'[m] \in SUBSET slots[m] /\ slots[m] \in SUBSET Calls
    BY DEF Release, TypeOK
<1>2. QED
    BY <1>1, Shrinks DEF SlotsBounded

(* However callers wake up, time out, finish or leak: no map ever holds    *)
(* more than maxConcurrent slots.                                          *)
THEOREM SlotsBoundedAlways == Spec => []SlotsBounded
<1>1. Init => SlotsBounded
    BY FS_EmptySet, ConstantsAssumption DEF Init, SlotsBounded
<1>2. TypeOK /\ SlotsBounded /\ [Next]_vars => SlotsBounded'
  <2> SUFFICES ASSUME TypeOK, SlotsBounded, [Next]_vars PROVE SlotsBounded'
      OBVIOUS
  <2>1. ASSUME NEW c \in Calls, Enter(c)
        PROVE  SlotsBounded'
      BY <2>1, TurnBounded DEF Enter
  <2>2. ASSUME NEW c \in Calls, Wake(c)
        PROVE  SlotsBounded'
      BY <2>2, TurnBounded DEF Wake, TypeOK, CallType, Resting
  <2>3. ASSUME NEW c \in Calls, ReadCounter(c) \/ Finish(c)
        PROVE  SlotsBounded'
    <3>1. CASE UNCHANGED slots
        BY <3>1 DEF SlotsBounded
    <3>2. CASE \E outcome \in Resting : Release(c, outcome)
        BY <3>2, ReleaseBounded
    <3>3. QED
        BY <2>3, <3>1, <3>2 DEF ReadCounter, Finish, Resting
  <2>4. ASSUME NEW c \in Calls, WriteCounter(c) \/ Age(c)
        PROVE  SlotsBounded'
      BY <2>4 DEF WriteCounter, Age, SlotsBounded
  <2>5. CASE NextMinute \/ UNCHANGED vars
      BY <2>5 DEF NextMinute, vars, SlotsBounded
  <2>6. QED
      BY <2>1, <2>2, <2>3, <2>4, <2>5 DEF Next, StoreStep
<1>3. QED
    BY <1>1, <1>2, TypeCorrect, PTL DEF Spec

-----------------------------------------------------------------------------
(* Maps, slots and callers.                                                *)

LEMMA TurnHeld ==
    ASSUME TypeOK, Held, NEW c \in Calls, NEW m \in Maps, call[c].pc \notin Holding,
           Claim(c, m) \/ Sleep(c, m) \/ Refuse(c, m),
           Steady => active' = {m} /\ (active = {} \/ m \in active),
           UNCHANGED <<mayWait, aged, agings>>
    PROVE  Held'
<1> USE DEF Holding
<1>1. Pruned(m) \subseteq slots[m] /\ (agings = 0 => Pruned(m) = slots[m])
    BY DEF Pruned, Held
<1>2. \A d \in Calls \ {c} : call'[d] = call[d]
    BY DEF Claim, Sleep, Refuse, TypeOK
<1>3. \A d \in Calls : d # c => (d \in InFlight' <=> d \in InFlight)
    BY <1>2 DEF InFlight
<1>4. \A l \in Maps : c \notin slots[l] /\ slots[l] \subseteq Calls
    BY DEF Held, InFlight, TypeOK
<1>5. \A l \in Maps : l # m => slots'[l] = slots[l]
    BY DEF Claim, Sleep, Refuse, TypeOK
<1>6. CASE Claim(c, m)
  <2>1. slots'[m] = Pruned(m) \union {c}
      BY <1>6 DEF Claim, TypeOK
  <2>2. call'[c].pc = "get" /\ call'[c].map = m
      BY <1>6 DEF Claim, TypeOK
  <2>3. c \in InFlight'
      BY <2>2 DEF InFlight
  <2>4. ASSUME NEW l \in Maps, NEW d \in slots'[l]
        PROVE  d \in InFlight' /\ call'[d].map = l
    <3>1. CASE d = c
        BY <3>1, <1>4, <1>5, <2>2, <2>3, <2>4
    <3>2. CASE d # c
      <4>1. d \in slots[l]
          BY <3>2, <1>1, <1>5, <2>1, <2>4
      <4>2. QED
          BY <3>2, <4>1, <1>2, <1>3, <1>4 DEF Held
    <3>3. QED
        BY <3>1, <3>2
  <2>5. ASSUME Steady, NEW d \in InFlight'
        PROVE  d \in slots'[call'[d].map] /\ active' = {call'[d].map}
    <3>1. CASE d = c
        BY <3>1, <2>1, <2>2, <2>5
    <3>2. CASE d # c
      <4>1. d \in Calls /\ d \in InFlight /\ call'[d] = call[d]
          BY <3>2, <1>2, <1>3, <2>5 DEF InFlight
      <4>2. d \in slots[call[d].map] /\ active = {call[d].map}
          BY <4>1, <2>5 DEF Held
      <4>3. call[d].map = m
          BY <4>2, <2>5
      <4>4. QED
          BY <4>1, <4>2, <4>3, <1>1, <2>1, <2>5 DEF Steady
    <3>3. QED
        BY <3>1, <3>2
  <2>6. Steady' <=> Steady
      BY DEF Steady
  <2>7. (\A d \in Calls : call[d].pc # "queued") => \A d \in Calls : call'[d].pc # "queued"
      BY <1>2, <2>2
  <2>8. QED
      BY <2>4, <2>5, <2>6, <2>7 DEF Held
<1>7. CASE Sleep(c, m) \/ Refuse(c, m)
  <2>1. slots'[m] = Pruned(m)
      BY <1>7 DEF Sleep, Refuse, TypeOK
  <2>2. call'[c].pc \notin Holding /\ (~mayWait => call'[c].pc # "queued")
      BY <1>7 DEF Sleep, Refuse, TypeOK, Ended
  <2>3. InFlight' = InFlight
      BY <1>3, <2>2 DEF InFlight
  <2>4. ASSUME NEW l \in Maps, NEW d \in slots'[l]
        PROVE  d \in InFlight' /\ call'[d].map = l
    <3>1. d \in slots[l]
        BY <1>1, <1>5, <2>1, <2>4
    <3>2. QED
        BY <3>1, <1>2, <1>4, <2>3 DEF Held
  <2>5. ASSUME Steady, NEW d \in InFlight'
        PROVE  d \in slots'[call'[d].map] /\ active' = {call'[d].map}
    <3>1. d \in Calls /\ d # c /\ call'[d] = call[d]
        BY <2>5, <2>3, <1>2 DEF InFlight
    <3>2. d \in slots[call[d].map] /\ active = {call[d].map}
        BY <3>1, <2>3, <2>5 DEF Held
    <3>3. call[d].map = m
        BY <3>2, <2>5
    <3>4. QED
        BY <3>1, <3>2, <3>3, <1>1, <2>1, <2>5 DEF Steady
  <2>6. Steady' <=> Steady
      BY DEF Steady
  <2>7. ~mayWait => \A d \in Calls : call'[d].pc # "queued"
      BY <1>2, <2>2 DEF Held
  <2>8. QED
      BY <2>4, <2>5, <2>6, <2>7 DEF Held
<1>8. QED
    BY <1>6, <1>7

LEMMA ReleaseHeld ==
    ASSUME TypeOK, Held, NEW c \in InFlight, NEW outcome \in Resting, Release(c, outcome),
           UNCHANGED <<mayWait, agings>>
    PROVE  Held'
<1> USE DEF Holding, Resting
<1>1. c \in Calls /\ call[c].map \in Maps
    BY DEF InFlight, TypeOK, CallType
<1>2. call'[c].pc = outcome /\ \A d \in Calls \ {c} : call'[d] = call[d]
    BY <1>1 DEF Release, Ended, TypeOK
<1>3. InFlight' = InFlight \ {c}
    BY <1>1, <1>2 DEF InFlight
<1>4. \A m \in Maps : /\ slots[m] \subseteq Calls
                      /\ slots'[m] = IF m = call[c].map THEN slots[m] \ {c} ELSE slots[m]
    BY DEF Release, TypeOK
<1>5. ASSUME NEW m \in Maps, NEW d \in slots'[m]
      PROVE  d \in InFlight' /\ call'[d].map = m
  <2>1. d \in slots[m]
      BY <1>4, <1>5
  <2>2. d # c
    <3>1. c \in slots[m] => m = call[c].map
        BY DEF Held
    <3>2. c \notin slots'[m]
        BY <3>1, <1>4
    <3>3. QED
        BY <3>2, <1>5
  <2>3. QED
      BY <2>1, <2>2, <1>2, <1>3, <1>4 DEF Held
<1>6. ASSUME Steady, NEW d \in InFlight'
      PROVE  d \in slots'[call'[d].map] /\ active' = {call'[d].map}
  <2>1. d \in InFlight /\ d # c /\ d \in Calls /\ call'[d] = call[d]
      BY <1>6, <1>3, <1>2 DEF InFlight
  <2>2. d \in slots[call[d].map] /\ active = {call[d].map} /\ active = {call[c].map}
      BY <2>1, <1>6 DEF Held
  <2>3. call[d].map = call[c].map
      BY <2>2
  <2>4. ~(slots[call[c].map] \subseteq {c})
      BY <2>1, <2>2, <2>3
  <2>5. active' = active
      BY <2>4 DEF Release
  <2>6. QED
      BY <2>1, <2>2, <2>3, <2>5, <1>1, <1>4
<1>7. /\ Steady' <=> Steady
      /\ agings' = 0 => aged' = {}
      /\ ~mayWait' => \A d \in Calls : call'[d].pc # "queued"
    BY <1>2 DEF Steady, Held, Release
<1>8. QED
    BY <1>5, <1>6, <1>7 DEF Held

LEMMA SameHeld ==
    ASSUME Held, UNCHANGED <<mayWait, active, slots, aged, agings>>,
           \A c \in Calls : /\ call'[c].map = call[c].map
                            /\ call'[c].pc \in Holding <=> call[c].pc \in Holding
                            /\ call'[c].pc = "queued" <=> call[c].pc = "queued"
    PROVE  Held'
<1>1. InFlight' = InFlight
    BY DEF InFlight
<1>2. Steady' <=> Steady
    BY DEF Steady
<1>3. \A m \in Maps : \A c \in slots'[m] : c \in InFlight' /\ call'[c].map = m
    BY <1>1 DEF Held, InFlight
<1>4. Steady' => \A c \in InFlight' : c \in slots'[call'[c].map] /\ active' = {call'[c].map}
    BY <1>1, <1>2 DEF Held, InFlight
<1>5. QED
    BY <1>3, <1>4 DEF Held

LEMMA HeldNext == TypeOK /\ Held /\ [Next]_vars => Held'
<1> SUFFICES ASSUME TypeOK, Held, [Next]_vars PROVE Held'
    OBVIOUS
<1>1. ASSUME NEW c \in Calls, Enter(c)
      PROVE  Held'
  <2>1. PICK m \in Maps : /\ active' = {m} /\ (active = {} \/ m \in active)
                          /\ Claim(c, m) \/ Sleep(c, m) \/ Refuse(c, m)
      BY <1>1 DEF Enter
  <2>2. UNCHANGED <<mayWait, aged, agings>> /\ call[c].pc \notin Holding
      BY <1>1 DEF Enter, Holding, Resting
  <2>3. Steady => active' = {m} /\ (active = {} \/ m \in active)
      BY <2>1
  <2>4. Claim(c, m) \/ Sleep(c, m) \/ Refuse(c, m)
      BY <2>1
  <2>5. QED
      BY <2>2, <2>3, <2>4, TurnHeld
<1>2. ASSUME NEW c \in Calls, Wake(c)
      PROVE  Held'
  <2>1. call[c].map \in Maps /\ mayWait
      BY <1>2 DEF Wake, TypeOK, CallType, Resting, Held
  <2>2. QED
      BY <1>2, <2>1, TurnHeld DEF Wake, Steady, Holding
<1>3. ASSUME NEW c \in Calls, ReadCounter(c)
      PROVE  Held'
  <2>1. CASE Release(c, "throttled")
      BY <1>3, <2>1, ReleaseHeld DEF ReadCounter, InFlight, Holding, Resting
  <2>2. CASE \E n : call' = [call EXCEPT ![c].pc = "put", ![c].count = n]
    <3>1. PICK n : call' = [call EXCEPT ![c].pc = "put", ![c].count = n]
        BY <2>2
    <3>2. call[c].pc = "get" /\ call'[c].pc = "put" /\ call'[c].map = call[c].map
        BY <1>3, <3>1 DEF ReadCounter, TypeOK, CallType
    <3>3. \A d \in Calls \ {c} : call'[d] = call[d]
        BY <3>1 DEF TypeOK
    <3>4. CASE UNCHANGED <<active, slots, aged>>
        BY <1>3, <3>2, <3>3, <3>4, SameHeld DEF ReadCounter, Holding
    <3>5. CASE Release(c, "throttled")
        BY <1>3, <3>5, <2>1
    <3>6. QED
        BY <1>3, <3>4, <3>5 DEF ReadCounter
  <2>3. QED
      BY <1>3, <2>1, <2>2 DEF ReadCounter
<1>4. ASSUME NEW c \in Calls, WriteCounter(c)
      PROVE  Held'
    BY <1>4, SameHeld DEF WriteCounter, TypeOK, CallType, Holding
<1>5. ASSUME NEW c \in Calls, Finish(c)
      PROVE  Held'
    BY <1>5, ReleaseHeld DEF Finish, InFlight, Holding, Resting
<1>6. ASSUME NEW c \in Calls, Age(c)
      PROVE  Held'
  <2>1. agings' # 0 /\ UNCHANGED <<mayWait, slots, call>>
      BY <1>6 DEF Age, TypeOK
  <2>2. QED
      BY <2>1 DEF Held, InFlight, Steady
<1>7. CASE NextMinute \/ UNCHANGED vars
    BY <1>7, SameHeld DEF NextMinute, vars
<1>8. QED
    BY <1>1, <1>2, <1>3, <1>4, <1>5, <1>6, <1>7 DEF Next, StoreStep

(* Maps, slots and callers belong together as Held says, always.           *)
THEOREM HeldAlways == Spec => [](TypeOK /\ Held /\ SlotsBounded)
<1>1. Init => Held
    BY DEF Init, Held, InFlight, Ended, Holding, Steady
<1>2. TypeOK /\ Held /\ [Next]_vars => Held'
    BY HeldNext
<1>3. QED
    BY <1>1, <1>2, TypeCorrect, SlotsBoundedAlways, PTL DEF Spec

(* Without a queue and without calls that outlive their slot, at most      *)
(* maxConcurrent calls of the user are in flight in the isolate.           *)
THEOREM CapWithoutQueueAlways == Spec => []CapWithoutQueue
<1>1. TypeOK /\ Held /\ SlotsBounded => CapWithoutQueue
  <2> SUFFICES ASSUME TypeOK, Held, SlotsBounded, Steady
               PROVE  Cardinality(InFlight) <= MaxConcurrent
      BY DEF CapWithoutQueue, Steady
  <2>1. CASE InFlight = {}
      BY <2>1, FS_EmptySet, ConstantsAssumption
  <2>2. CASE InFlight # {}
    <3>1. PICK c \in InFlight : TRUE
        BY <2>2
    <3>2. call[c].map \in Maps
        BY <3>1 DEF InFlight, Holding, Resting, TypeOK, CallType
    <3>3. InFlight \subseteq slots[call[c].map]
      <4>1. \A d \in InFlight : {call[d].map} = {call[c].map}
          BY <3>1 DEF Held
      <4>2. \A d \in InFlight : call[d].map = call[c].map
          BY <4>1
      <4>3. QED
          BY <4>2 DEF Held
    <3>4. slots[call[c].map] \in SUBSET Calls
        BY <3>2 DEF TypeOK
    <3>5. QED
        BY <3>2, <3>3, <3>4, Shrinks DEF SlotsBounded
  <2>3. QED
      BY <2>1, <2>2
<1>2. QED
    BY <1>1, HeldAlways, PTL

(* Whoever is turned away for concurrency finds maxConcurrent calls in     *)
(* flight that have not outlived their slot.                               *)
THEOREM NoFalseBusyAlways == Spec => NoFalseBusy
<1>1. ASSUME TypeOK, Held, NEW m \in Maps, ~HasRoom(Pruned(m))
      PROVE  Cardinality(InFlight \ aged) >= MaxConcurrent
  <2>1. Pruned(m) \subseteq InFlight \ aged /\ InFlight \ aged \in SUBSET Calls
    <3>1. \A c \in slots[m] : c \in InFlight
        BY <1>1 DEF Held
    <3>2. QED
        BY <3>1 DEF Pruned, InFlight
  <2>2. Cardinality(Pruned(m)) <= Cardinality(InFlight \ aged)
      BY <2>1, FiniteSlots, FS_Subset
  <2>3. Cardinality(Pruned(m)) >= MaxConcurrent
      BY <1>1, <2>1, FiniteSlots, ConstantsAssumption DEF HasRoom
  <2>4. QED
      BY <2>1, <2>2, <2>3, FiniteSlots, ConstantsAssumption
<1>2. TypeOK /\ Held /\ [Next]_vars =>
        [\A c \in Calls : call'[c].pc = "busy" /\ call[c].pc # "busy"
           => Cardinality(InFlight \ aged) >= MaxConcurrent]_vars
  <2> SUFFICES ASSUME TypeOK, Held, Next, NEW c \in Calls,
                      call'[c].pc = "busy", call[c].pc # "busy"
               PROVE  \E m \in Maps : ~HasRoom(Pruned(m))
      BY <1>1
  <2>1. ASSUME NEW d \in Calls, Enter(d) \/ Wake(d)
        PROVE  \E m \in Maps : ~HasRoom(Pruned(m))
    <3>1. PICK m \in Maps : Claim(d, m) \/ Sleep(d, m) \/ Refuse(d, m)
        BY <2>1 DEF Enter, Wake, TypeOK, CallType, Resting
    <3>2. CASE Claim(d, m)
        BY <3>2 DEF Claim, TypeOK
    <3>3. QED
        BY <3>1, <3>2 DEF Sleep, Refuse
  <2>2. ASSUME NEW d \in Calls, StoreStep(d) \/ Finish(d) \/ Age(d)
        PROVE  call'[c].pc # "busy"
    <3>1. CASE Release(d, "throttled") \/ Release(d, "idle")
        BY <3>1 DEF Release, Ended, TypeOK
    <3>2. CASE \E n : call' = [call EXCEPT ![d].pc = "put", ![d].count = n]
        BY <3>2 DEF TypeOK, CallType
    <3>3. CASE call' = [call EXCEPT ![d].pc = "run"]
        BY <3>3 DEF TypeOK, CallType
    <3>4. CASE UNCHANGED call
        BY <3>4
    <3>5. QED
        BY <2>2, <3>1, <3>2, <3>3, <3>4
           DEF StoreStep, ReadCounter, WriteCounter, Finish, Age
  <2>3. CASE NextMinute
      BY <2>3 DEF NextMinute
  <2>4. QED
      BY <2>1, <2>2, <2>3 DEF Next
<1>3. QED
    BY <1>2, HeldAlways, PTL DEF Spec, NoFalseBusy

-----------------------------------------------------------------------------
(* The minute's counter.                                                   *)

LEMMA SameCounted ==
    ASSUME Counted, UNCHANGED counters,
           \A c \in Calls : call'[c].pc = "put" => call'[c] = call[c]
    PROVE  Counted'
    BY DEF Counted, counters

LEMMA ReadCounted ==
    ASSUME TypeOK, Counted, NEW c \in Calls, ReadCounter(c)
    PROVE  Counted'
<1> DEFINE k == call[c].minute
<1>1. k \in Minutes /\ UNCHANGED <<kv, seen, passed>>
    BY DEF ReadCounter, TypeOK, CallType
<1>2. PICK n \in seen[k] \union {0} :
         /\ sloppy' = IF n = kv[k] THEN sloppy ELSE sloppy \union {k}
         /\ \/ Release(c, "throttled")
            \/ ~Throttles(n) /\ call' = [call EXCEPT ![c].pc = "put", ![c].count = n]
    BY DEF ReadCounter
<1>3. \A d \in Calls : call'[d].pc = "put" =>
         \/ call'[d] = call[d]
         \/ d = c /\ call'[d].count = n /\ call'[d].minute = k /\ ~Throttles(n)
  <2>1. CASE Release(c, "throttled")
      BY <2>1 DEF Release, Ended, TypeOK
  <2>2. CASE ~Throttles(n) /\ call' = [call EXCEPT ![c].pc = "put", ![c].count = n]
      BY <2>2 DEF TypeOK, CallType
  <2>3. QED
      BY <1>2, <2>1, <2>2
<1>4. n <= passed[k]
    BY <1>1, <1>2 DEF Counted, TypeOK
<1>5. ~Throttles(n) => n < MaxPerMinute
    BY <1>1, <1>2, ConstantsAssumption DEF Throttles, TypeOK
<1>6. sloppy \subseteq sloppy'
    BY <1>2
<1>7. QED
    BY <1>1, <1>3, <1>4, <1>5, <1>6 DEF Counted

LEMMA WriteCounted ==
    ASSUME TypeOK, Counted, NEW c \in Calls, WriteCounter(c)
    PROVE  Counted'
<1> DEFINE k == call[c].minute
           n == call[c].count + 1
<1>1. k \in Minutes /\ call[c].count \in Nat /\ passed[k] \in Nat /\ kv[k] \in Nat
    BY DEF TypeOK, CallType
<1>2. call[c].count <= passed[k] /\ call[c].count < MaxPerMinute
    BY DEF WriteCounter, Counted
<1>3. passed' = [passed EXCEPT ![k] = @ + 1]
    BY DEF WriteCounter
<1>4. ASSUME NEW j \in Minutes
      PROVE  /\ \A v \in seen'[j] : v <= passed'[j]
             /\ j \notin sloppy' => kv'[j] = passed'[j] /\ passed'[j] <= MaxPerMinute
  <2>1. CASE j # k
    <3>1. passed'[j] = passed[j] /\ kv'[j] = kv[j] /\ seen'[j] = seen[j]
        BY <1>1, <1>3, <2>1 DEF WriteCounter, TypeOK
    <3>2. sloppy \subseteq sloppy'
        BY DEF WriteCounter
    <3>3. QED
        BY <3>1, <3>2 DEF Counted
  <2>2. CASE j = k
    <3>1. passed'[k] = passed[k] + 1
        BY <1>1, <1>3 DEF TypeOK
    <3>2. ASSUME NEW v \in seen'[k]
          PROVE  v <= passed'[k]
      <4>1. v \in seen[k] \/ v = n
          BY <1>1, <3>2 DEF WriteCounter, TypeOK
      <4>2. v \in seen[k] => v \in Nat /\ v <= passed[k]
          BY <1>1 DEF Counted, TypeOK
      <4>3. QED
          BY <4>1, <4>2, <3>1, <1>1, <1>2
    <3>3. ASSUME k \notin sloppy'
          PROVE  kv'[k] = passed'[k] /\ passed'[k] <= MaxPerMinute
      <4>1. kv' = [kv EXCEPT ![k] = n] /\ kv[k] + 1 = n /\ k \notin sloppy
          BY <3>3 DEF WriteCounter
      <4>2. kv[k] = passed[k] /\ kv'[k] = n
          BY <4>1, <1>1 DEF Counted, TypeOK
      <4>3. QED
          BY <4>1, <4>2, <3>1, <1>1, <1>2, ConstantsAssumption
    <3>4. QED
        BY <2>2, <3>2, <3>3
  <2>3. QED
      BY <2>1, <2>2
<1>5. ASSUME NEW d \in Calls, call'[d].pc = "put"
      PROVE  call'[d].count <= passed'[call'[d].minute] /\ call'[d].count < MaxPerMinute
  <2>1. call'[d] = call[d]
      BY <1>5 DEF WriteCounter, TypeOK, CallType
  <2>2. call[d].count <= passed[call[d].minute] /\ call[d].count < MaxPerMinute
      BY <1>5, <2>1 DEF Counted
  <2>3. call[d].minute \in Minutes /\ call[d].count \in Nat
      BY DEF TypeOK, CallType
  <2>4. passed[call[d].minute] <= passed'[call[d].minute]
      BY <1>1, <1>3, <2>3 DEF TypeOK
  <2>5. passed[call[d].minute] \in Nat /\ passed'[call[d].minute] \in Nat
      BY <1>1, <1>3, <2>3 DEF TypeOK
  <2>6. QED
      BY <2>1, <2>2, <2>3, <2>4, <2>5
<1>6. QED
    BY <1>4, <1>5 DEF Counted

LEMMA CountedNext == TypeOK /\ Counted /\ [Next]_vars => Counted'
<1> SUFFICES ASSUME TypeOK, Counted, [Next]_vars PROVE Counted'
    OBVIOUS
<1>1. ASSUME NEW c \in Calls, Enter(c) \/ Wake(c)
      PROVE  Counted'
  <2>1. PICK m \in Maps : Claim(c, m) \/ Sleep(c, m) \/ Refuse(c, m)
      BY <1>1 DEF Enter, Wake, TypeOK, CallType, Resting
  <2>2. \A d \in Calls : call'[d].pc = "put" => call'[d] = call[d]
      BY <2>1 DEF Claim, Sleep, Refuse, Ended, TypeOK
  <2>3. QED
      BY <1>1, <2>2, SameCounted DEF Enter, Wake
<1>2. ASSUME NEW c \in Calls, StoreStep(c)
      PROVE  Counted'
    BY <1>2, ReadCounted, WriteCounted DEF StoreStep
<1>3. ASSUME NEW c \in Calls, Finish(c)
      PROVE  Counted'
    BY <1>3, SameCounted DEF Finish, Release, Ended, TypeOK
<1>4. ASSUME NEW c \in Calls, Age(c)
      PROVE  Counted'
    BY <1>4, SameCounted DEF Age
<1>5. CASE NextMinute \/ UNCHANGED vars
    BY <1>5, SameCounted DEF NextMinute, vars
<1>6. QED
    BY <1>1, <1>2, <1>3, <1>4, <1>5 DEF Next

THEOREM CountedAlways == Spec => [](TypeOK /\ Counted)
<1>1. Init => Counted
    BY ConstantsAssumption DEF Init, Counted, Ended, Minutes
<1>2. TypeOK /\ Counted /\ [Next]_vars => Counted'
    BY CountedNext
<1>3. QED
    BY <1>1, <1>2, TypeCorrect, PTL DEF Spec

(* A minute whose counter was read fresh, never failed and lost no update  *)
(* lets at most maxPerMinute calls through.                                *)
THEOREM CapUnlessSloppyAlways == Spec => []CapUnlessSloppy
<1>1. Counted => CapUnlessSloppy
    BY DEF Counted, CapUnlessSloppy
<1>2. QED
    BY <1>1, CountedAlways, PTL

(* Nobody is throttled before maxPerMinute calls of the minute have gone   *)
(* to Acumatica, however stale the store and however the calls interleave. *)
THEOREM NoFalseThrottleAlways == Spec => NoFalseThrottle
<1>1. TypeOK /\ Counted /\ [Next]_vars =>
        [\A c \in Calls : call'[c].pc = "throttled" /\ call[c].pc = "get"
           => passed[call[c].minute] >= MaxPerMinute]_vars
  <2> SUFFICES ASSUME TypeOK, Counted, Next, NEW c \in Calls,
                      call'[c].pc = "throttled", call[c].pc = "get"
               PROVE  passed[call[c].minute] >= MaxPerMinute
      OBVIOUS
  <2> DEFINE k == call[c].minute
  <2>1. k \in Minutes
      BY DEF TypeOK, CallType
  <2>2. ASSUME ReadCounter(c)
        PROVE  passed[k] >= MaxPerMinute
    <3>1. PICK n \in seen[k] \union {0} :
             Throttles(n) \/ call' = [call EXCEPT ![c].pc = "put", ![c].count = n]
        BY <2>2 DEF ReadCounter
    <3>2. Throttles(n)
        BY <3>1 DEF TypeOK, CallType
    <3>3. n \in Nat /\ passed[k] \in Nat /\ n <= passed[k]
        BY <2>1 DEF Counted, TypeOK
    <3>4. QED
        BY <3>2, <3>3, ConstantsAssumption DEF Throttles
  <2>3. ASSUME NEW d \in Calls, Enter(d) \/ Wake(d)
        PROVE  FALSE
    <3>1. PICK m \in Maps : Claim(d, m) \/ Sleep(d, m) \/ Refuse(d, m)
        BY <2>3 DEF Enter, Wake, TypeOK, CallType, Resting
    <3>2. QED
        BY <3>1 DEF Claim, Sleep, Refuse, Ended, TypeOK
  <2>4. ASSUME NEW d \in Calls, d # c, StoreStep(d) \/ Finish(d) \/ Age(d)
        PROVE  FALSE
    <3>1. call'[c] = call[c]
        BY <2>4 DEF StoreStep, ReadCounter, WriteCounter, Finish, Release, Age, TypeOK
    <3>2. QED
        BY <3>1
  <2>5. ASSUME WriteCounter(c) \/ Finish(c) \/ Age(c) \/ NextMinute
        PROVE  FALSE
      BY <2>5 DEF WriteCounter, Finish, Age, NextMinute
  <2>6. QED
      BY <2>2, <2>3, <2>4, <2>5 DEF Next, StoreStep
<1>2. QED
    BY <1>1, CountedAlways, PTL DEF Spec, NoFalseThrottle
=============================================================================
