----------------------------- MODULE RateLimiter -----------------------------
(***************************************************************************)
(* The per-user rate limiter (src/src/lib/rate-limiter.ts) as the Acumatica *)
(* calls of one user in one isolate meet it: a map of concurrency slots    *)
(* found through activeSlots, a bounded wait for a slot, and a per-minute  *)
(* counter in an eventually consistent store.                              *)
(*                                                                         *)
(* The code between two awaits is one step.  A caller keeps the map it     *)
(* found on entry; a map that activeSlots forgets lives on as long as a    *)
(* caller holds it, so maps have identities here.                          *)
(***************************************************************************)
EXTENDS Naturals, FiniteSets

CONSTANTS
    Calls,          \* callers of withRateLimit, each may call repeatedly
    Maps,           \* identities of slot maps
    NoMap,
    MaxConcurrent,  \* limits.maxConcurrent
    MaxPerMinute,   \* limits.maxPerMinute
    MaxMinute,      \* bound: calendar minutes the clock goes through
    MaxPassed,      \* bound: calls let through in a minute, but for overlaps
    MaxAged         \* bound: slots that outlive STALE_SLOT_MS

ASSUME ConstantsAssumption ==
    /\ IsFiniteSet(Calls) /\ NoMap \notin Maps
    /\ MaxConcurrent \in Nat \ {0} /\ MaxPerMinute \in Nat \ {0}
    /\ MaxMinute \in Nat /\ MaxPassed \in Nat /\ MaxAged \in Nat

VARIABLES
    mayWait,      \* limits.queueWaitMs > 0
    minute,       \* the calendar minute
    active,       \* activeSlots.get(userKey): a set of at most one map
    slots,        \* slots[m]: the callers whose slot is in map m
    aged,         \* callers whose slot has outlived STALE_SLOT_MS
    agings,       \* how often that has happened
    call,         \* call[c]: where caller c stands
    kv, seen,     \* the counter of each minute: last value put, values a
                  \* read may return
    passed,       \* history: calls of each minute that went to Acumatica
    sloppy        \* history: minutes whose counter was read stale, failed,
                  \* or lost an update

counters == <<kv, seen, passed, sloppy>>
vars == <<mayWait, minute, active, slots, aged, agings, call, counters>>

-----------------------------------------------------------------------------
Minutes == 0..MaxMinute
Resting == {"idle", "busy", "throttled"}   \* the outcome of the last call
Holding == {"get", "put", "run"}           \* has been given a slot

Ended(outcome) == [pc |-> outcome, map |-> NoMap, minute |-> 0, count |-> 0]

CallType == [pc: Resting \union Holding \union {"queued"},
             map: Maps \union {NoMap}, minute: Minutes, count: Nat]

InFlight == {c \in Calls : call[c].pc \in Holding}

TypeOK ==
    /\ mayWait \in BOOLEAN /\ minute \in Minutes
    /\ active \subseteq Maps
    /\ slots \in [Maps -> SUBSET Calls]
    /\ aged \subseteq Calls /\ agings \in Nat
    /\ call \in [Calls -> CallType]
    /\ \A c \in Calls : call[c].pc \in Resting <=> call[c].map = NoMap
    /\ kv \in [Minutes -> Nat] /\ seen \in [Minutes -> SUBSET Nat]
    /\ passed \in [Minutes -> Nat] /\ sloppy \subseteq Minutes

Init ==
    /\ mayWait \in BOOLEAN /\ minute = 0
    /\ active = {} /\ slots = [m \in Maps |-> {}]
    /\ aged = {} /\ agings = 0
    /\ call = [c \in Calls |-> Ended("idle")]
    /\ kv = [k \in Minutes |-> 0] /\ seen = [k \in Minutes |-> {0}]
    /\ passed = [k \in Minutes |-> 0] /\ sloppy = {}

-----------------------------------------------------------------------------
(* The slot map.                                                           *)

(* new Map(): one that nobody holds; which one is immaterial.              *)
Fresh(m) == slots[m] = {} /\ \A c \in Calls : call[c].map # m
NewMap == CHOOSE m \in Maps : Fresh(m)

(* pruneStale: what is left in the map after records older than            *)
(* STALE_SLOT_MS are dropped.  The mutant never prunes.                    *)
PrunedNever(m) == slots[m]
Pruned(m) == slots[m] \ aged

(* Whether a slot is free; the mutant is off by one.                       *)
HasRoomForOneMore(others) == Cardinality(others) <= MaxConcurrent
HasRoom(others) == Cardinality(others) < MaxConcurrent

(* acquireSlot, one turn of its loop: prune, then check and set with no    *)
(* await in between; withRateLimit goes on to read the minute's counter.   *)
Claim(c, m) ==
    /\ HasRoom(Pruned(m))
    /\ slots' = [slots EXCEPT ![m] = Pruned(m) \union {c}]
    /\ call' = [call EXCEPT ![c] = [pc |-> "get", map |-> m,
                                    minute |-> minute, count |-> 0]]

(* The deadline has passed, or queueWaitMs is 0: RateLimitError, thrown    *)
(* before the try block.  The mutant's caller keeps watching its map.      *)
RefuseWatching(c, m) ==
    /\ ~HasRoom(Pruned(m))
    /\ slots' = [slots EXCEPT ![m] = Pruned(m)]
    /\ call' = [call EXCEPT ![c].pc = "busy"]

Refuse(c, m) ==
    /\ ~HasRoom(Pruned(m))
    /\ slots' = [slots EXCEPT ![m] = Pruned(m)]
    /\ call' = [call EXCEPT ![c] = Ended("busy")]

Sleep(c, m) ==
    /\ ~HasRoom(Pruned(m)) /\ mayWait
    /\ slots' = [slots EXCEPT ![m] = Pruned(m)]
    /\ call' = [call EXCEPT ![c] = [Ended("queued") EXCEPT !.map = m]]

(* The finally block: the slot goes, and with the last one the entry of    *)
(* activeSlots -- whichever map is there by now.  The mutant forgets the   *)
(* entry with every call that ends.                                        *)
ReleaseForgets(c, outcome) ==
    /\ slots' = [slots EXCEPT ![call[c].map] = @ \ {c}]
    /\ active' = {}
    /\ aged' = aged \ {c}
    /\ call' = [call EXCEPT ![c] = Ended(outcome)]

Release(c, outcome) ==
    LET m == call[c].map
    IN  /\ slots' = [slots EXCEPT ![m] = @ \ {c}]
        /\ active' = IF slots[m] \subseteq {c} THEN {} ELSE active
        /\ aged' = aged \ {c}
        /\ call' = [call EXCEPT ![c] = Ended(outcome)]

-----------------------------------------------------------------------------
(* withRateLimit, from one await to the next.                              *)

Enter(c) ==
    /\ call[c].pc \in Resting
    /\ passed[minute] < MaxPassed
    /\ \E m \in Maps :
         /\ m \in active \/ (active = {} /\ Fresh(m) /\ m = NewMap)
         /\ active' = {m}
         /\ \/ Claim(c, m)
            \/ Sleep(c, m)
            \/ ~mayWait /\ Refuse(c, m)
    /\ UNCHANGED <<mayWait, minute, aged, agings, counters>>

(* A queued caller wakes up every SLOT_POLL_MS; to sleep again changes     *)
(* nothing.  The mutant sleeps again for ever.                             *)
WakeNeverDue(c) ==
    /\ call[c].pc = "queued"
    /\ Claim(c, call[c].map)
    /\ UNCHANGED <<mayWait, minute, active, aged, agings, counters>>

Wake(c) ==
    /\ call[c].pc = "queued"
    /\ Claim(c, call[c].map) \/ Refuse(c, call[c].map)
    /\ UNCHANGED <<mayWait, minute, active, aged, agings, counters>>

(* The per-minute limit, and its mutants, off by one either way.           *)
ThrottlesEarly(n) == n + 1 >= MaxPerMinute
ThrottlesLate(n) == n > MaxPerMinute
Throttles(n) == n >= MaxPerMinute

(* store.get answers: 0 if it failed or the key is missing.                *)
ReadCounter(c) ==
    LET k == call[c].minute
    IN  /\ call[c].pc = "get"
        /\ \E n \in seen[k] \union {0} :
             /\ sloppy' = IF n = kv[k] THEN sloppy ELSE sloppy \union {k}
             /\ \/ /\ Throttles(n)
                   /\ Release(c, "throttled")
                \/ /\ ~Throttles(n)
                   /\ call' = [call EXCEPT ![c].pc = "put", ![c].count = n]
                   /\ UNCHANGED <<active, slots, aged>>
        /\ UNCHANGED <<mayWait, minute, agings, kv, seen, passed>>

(* store.put answers; a failure is swallowed.  Then fn() is called.        *)
WriteCounter(c) ==
    LET k == call[c].minute
        n == call[c].count + 1
    IN  /\ call[c].pc = "put"
        /\ \/ /\ kv' = [kv EXCEPT ![k] = n]
              /\ seen' = [seen EXCEPT ![k] = @ \union {n}]
              /\ sloppy' = IF kv[k] + 1 = n THEN sloppy ELSE sloppy \union {k}
           \/ UNCHANGED <<kv, seen>> /\ sloppy' = sloppy \union {k}
        /\ passed' = [passed EXCEPT ![k] = @ + 1]
        /\ call' = [call EXCEPT ![c].pc = "run"]
        /\ UNCHANGED <<mayWait, minute, active, slots, aged, agings>>

(* fn() returns or throws.                                                 *)
Finish(c) ==
    /\ call[c].pc = "run"
    /\ Release(c, "idle")
    /\ UNCHANGED <<mayWait, minute, agings, counters>>

(* A slot outlives STALE_SLOT_MS: nothing bounds the time fn() takes.      *)
Age(c) ==
    /\ call[c].pc \in Holding /\ c \notin aged
    /\ agings < MaxAged
    /\ aged' = aged \union {c} /\ agings' = agings + 1
    /\ UNCHANGED <<mayWait, minute, active, slots, call, counters>>

NextMinute ==
    /\ minute < MaxMinute
    /\ minute' = minute + 1
    /\ UNCHANGED <<mayWait, active, slots, aged, agings, call, counters>>

-----------------------------------------------------------------------------
StoreStep(c) == ReadCounter(c) \/ WriteCounter(c)

Next ==
    \/ \E c \in Calls : Enter(c) \/ Wake(c) \/ StoreStep(c) \/ Finish(c) \/ Age(c)
    \/ NextMinute

(* Timers fire and the store answers; fn() may take for ever, and nobody   *)
(* has to call.                                                            *)
Fairness == \A c \in Calls : WF_vars(Wake(c)) /\ WF_vars(StoreStep(c))

Spec     == Init /\ [][Next]_vars
FairSpec == Spec /\ Fairness
-----------------------------------------------------------------------------
(* No map ever holds more slots than the limit, however many callers wake  *)
(* up on it and whatever is pruned or released in between.                 *)
SlotsBounded == \A m \in Maps : Cardinality(slots[m]) <= MaxConcurrent

(* Where nobody queues and no call has outlived its slot, at most          *)
(* maxConcurrent calls of the user are in flight in the isolate, although  *)
(* the map comes and goes with them.                                       *)
CapWithoutQueue ==
    (~mayWait /\ agings = 0) => Cardinality(InFlight) <= MaxConcurrent

(* A call is turned away for concurrency only while that many calls of the *)
(* user, none older than STALE_SLOT_MS, are in flight: rejections and      *)
(* leaks never eat a slot.                                                 *)
NoFalseBusy ==
    [][\A c \in Calls : call'[c].pc = "busy" /\ call[c].pc # "busy"
         => Cardinality(InFlight \ aged) >= MaxConcurrent]_vars

(* A call is throttled only when maxPerMinute calls of its minute have     *)
(* gone to Acumatica: what was rejected for concurrency or throttled has   *)
(* spent no token, and neither have the calls of other minutes.            *)
NoFalseThrottle ==
    [][\A c \in Calls : call'[c].pc = "throttled" /\ call[c].pc = "get"
         => passed[call[c].minute] >= MaxPerMinute]_vars

(* The minute's cap holds unless the counter was read stale, failed or     *)
(* lost an update, whatever the calls did otherwise.                       *)
CapUnlessSloppy ==
    \A k \in Minutes \ sloppy : passed[k] <= MaxPerMinute

(* A caller queued for a slot or waiting for the store gets to Acumatica   *)
(* or is turned away, even if the calls ahead of it never end.             *)
EveryCallDecided ==
    \A c \in Calls : call[c].pc \in {"queued", "get", "put"}
                       ~> call[c].pc \in Resting \union {"run"}

-----------------------------------------------------------------------------
(* What the source says and a queue breaks.                                *)

(* rate-limiter.ts:17 "Max simultaneous in-flight Acumatica calls per user *)
(* (per isolate)" and :156 "waiters can't both observe the same free slot  *)
(* and over-admit".                                                        *)
InFlightCap == agings = 0 => Cardinality(InFlight) <= MaxConcurrent
=============================================================================
