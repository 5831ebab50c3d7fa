------------------------ MODULE GiRegistryCacheProofs ------------------------
(***************************************************************************)
(* Proofs about GiRegistryCache, for any requests, users, isolates,        *)
(* histories of the designs and bounds: the caches keep their types, a     *)
(* clear takes effect, and a query passes ungated only in an isolate where *)
(* KV was found empty.                                                     *)
(***************************************************************************)
EXTENDS GiRegistryCache, TLAPS

RegType  == Registry \union {NoReg}
MetaType == Versions \union {None}
MemoType == [attempted: BOOLEAN, reg: RegType]
ReqType  == [pc: {"idle", "registry", "build", "query", "get"},
             iso: Isolates \union {None}, reg: RegType, feed: MetaType]
LoadType == [pc: {"off", "read", "fetch", "put", "done"}, meta: MetaType]
ClearType == [pc: {"idle", "list", "delete"}, iso: Isolates \union {None},
              reg: BOOLEAN, users: SUBSET Users, clean: BOOLEAN]

Typed ==
    /\ now \in Nat /\ design \in Versions /\ clears \in Nat /\ faults \in Nat
    /\ memo \in [Isolates -> MemoType]
    /\ \A i \in Isolates : memo[i].reg # NoReg => memo[i].attempted
    /\ kvReg \in RegType /\ kvMeta \in [Users -> MetaType]
    /\ oldReg \subseteq Registry /\ oldMeta \in [Users -> SUBSET Versions]
    /\ req \in [Requests -> ReqType]
    /\ load \in [Requests -> [Purposes -> LoadType]]
    /\ clear \in ClearType
    /\ missed \subseteq Isolates /\ floor \in [Isolates -> Versions]

(* A version, a registry no older than the last undisturbed clear in i.    *)
NotBefore(v, i) == v # None => v >= floor[i]
Kept(g, i)      == g # NoReg => g.feed >= floor[i] /\ NotBefore(g.meta, i)

(* What a request carries, and how far its loads are.  What it has fetched *)
(* and what it builds from may go to KV, so it is held against the clears  *)
(* of every isolate; what a query read stays in its own.                   *)
Sound(r) ==
    /\ req[r].pc = "idle" => req[r] = NoReq
    /\ req[r].pc # "idle" => req[r].iso \in Isolates
    /\ load[r]["build"].pc = "done" => req[r].pc = "build"
    /\ load[r]["query"].pc # "off" => req[r].pc \in {"query", "get"}
    /\ req[r].pc = "get" =>
         load[r]["query"].pc = "done" /\ load[r]["query"].meta # None
    /\ \A p \in Purposes : load[r][p].pc \in {"off", "read", "fetch"} => load[r][p].meta = None
    /\ req[r].pc \in {"build", "query", "get"} /\ req[r].reg = NoReg => req[r].iso \in missed
    /\ Kept(req[r].reg, req[r].iso)
    /\ \A i \in Isolates :
         /\ NotBefore(req[r].feed, i)
         /\ NotBefore(load[r]["build"].meta, i)
         /\ load[r]["query"].pc # "done" \/ i = req[r].iso => NotBefore(load[r]["query"].meta, i)

(* What an isolate remembers.                                              *)
Held(i) ==
    /\ floor[i] <= design
    /\ Kept(memo[i].reg, i)
    /\ memo[i].attempted /\ memo[i].reg = NoReg => i \in missed

(* What KV holds, against the clears of every isolate.                     *)
Copies ==
    \A i \in Isolates : Kept(kvReg, i) /\ \A u \in Users : NotBefore(kvMeta[u], i)

(* While a clear is undisturbed, nobody is about to store an older copy,   *)
(* and it will delete everything it has found.                             *)
Undisturbed ==
    clear.clean =>
        /\ Active = {}
        /\ clear.iso \in Isolates /\ memo[clear.iso] = NoMemo
        /\ clear.pc = "delete" =>
             /\ kvReg # NoReg => clear.reg
             /\ \A u \in Users : kvMeta[u] # None => u \in clear.users

CacheInv ==
    /\ Typed
    /\ \A r \in Requests : Sound(r)
    /\ \A i \in Isolates : Held(i)
    /\ Copies
    /\ Undisturbed

-----------------------------------------------------------------------------
(* Types.                                                                  *)

LEMMA Constants ==
    /\ NoReg \in RegType /\ NoMemo \in MemoType /\ NoReq \in ReqType
    /\ NoLoad \in LoadType /\ Started \in LoadType /\ NoClear \in ClearType
    /\ None \in MetaType /\ None \notin Versions /\ NoReg \notin Registry
    /\ NoReg.feed = None /\ NoReg.meta = None
    /\ \A v \in MetaType : Loaded(v) \in LoadType
<1>1. None \in MetaType /\ None \notin Versions
    BY DEF None, MetaType, Versions
<1>2. NoReg \in RegType /\ NoReg.feed = None /\ NoReg.meta = None
    BY DEF NoReg, RegType
<1>3. NoReg \notin Registry
    BY <1>1, <1>2 DEF Registry
<1>4. NoMemo \in MemoType /\ NoReq \in ReqType
    BY <1>1, <1>2 DEF NoMemo, MemoType, NoReq, ReqType
<1>5. NoLoad \in LoadType /\ Started \in LoadType
    BY <1>1 DEF NoLoad, Started, LoadType
<1>6. NoClear \in ClearType
    BY DEF NoClear, ClearType
<1>7. \A v \in MetaType : Loaded(v) \in LoadType
    BY DEF Loaded, LoadType
<1>8. QED
    BY <1>1, <1>2, <1>3, <1>4, <1>5, <1>6, <1>7

LEMMA TypedIsTypeOK == Typed <=> TypeOK
    BY DEF Typed, TypeOK, MemoType, RegType, MetaType, ReqType, LoadType, ClearType

(* What a late read does to floor: isolates lose the promise, none gains.  *)
Voided == floor' \in [Isolates -> Versions] /\ \A i \in Isolates : floor'[i] \in {0, floor[i]}

(* A version, a registry no older than what is promised after the step.    *)
StillNotBefore(v, i) == v # None => v >= floor'[i]
StillKept(g, i)      == g # NoReg => g.feed >= floor'[i] /\ StillNotBefore(g.meta, i)

LEMMA FloorKept == ASSUME Typed, floor' = floor PROVE Voided
    BY DEF Typed, Voided

LEMMA VoidedKeeps ==
    ASSUME Typed, Voided, NEW i \in Isolates
    PROVE  /\ \A v \in MetaType : NotBefore(v, i) => StillNotBefore(v, i)
           /\ \A g \in RegType : Kept(g, i) => StillKept(g, i)
<1>1. floor'[i] \in {0, floor[i]} /\ floor[i] \in Nat
    BY DEF Voided, Typed, Versions
<1>2. \A v \in Versions : v >= 0
    BY DEF Versions
<1>3. ASSUME NEW v \in MetaType, NotBefore(v, i)
      PROVE  StillNotBefore(v, i)
    BY <1>1, <1>2, <1>3 DEF MetaType, NotBefore, StillNotBefore
<1>4. ASSUME NEW g \in RegType, Kept(g, i)
      PROVE  StillKept(g, i)
  <2> SUFFICES ASSUME g # NoReg PROVE StillKept(g, i)
      BY DEF StillKept
  <2>1. g.feed \in Versions /\ g.meta \in MetaType
      BY <1>4 DEF RegType, Registry, MetaType
  <2>2. QED
      BY <1>1, <1>2, <1>3, <1>4, <2>1 DEF Kept, StillKept
<1>5. QED
    BY <1>3, <1>4

(* None was promised anything that this version could break.               *)
LEMMA VoidedIsKept ==
    ASSUME Typed, NEW i \in Isolates, floor'[i] = 0
    PROVE  /\ \A v \in MetaType : StillNotBefore(v, i)
           /\ \A g \in RegType : StillKept(g, i)
    BY DEF MetaType, Versions, RegType, Registry, StillNotBefore, StillKept

LEMMA DesignIsVersion == Typed => design \in MetaType /\ design # None
    BY Constants DEF Typed, MetaType

(* What a request or an isolate that a step leaves alone keeps.            *)
LEMMA SoundVoided ==
    ASSUME Typed, Voided, NEW r \in Requests, Sound(r), req'[r] = req[r], load'[r] = load[r],
           missed \subseteq missed'
    PROVE  Sound(r)'
<1>1. /\ req[r].reg \in RegType /\ req[r].feed \in MetaType
      /\ \A p \in Purposes : load[r][p].meta \in MetaType
    BY DEF Typed, ReqType, LoadType
<1>2. "build" \in Purposes /\ "query" \in Purposes
    BY DEF Purposes
<1>3. Kept(req[r].reg, req[r].iso)'
  <2>1. CASE req[r].iso \in Isolates
      BY <1>1, <2>1, VoidedKeeps DEF Sound, Kept, NotBefore, StillKept, StillNotBefore
  <2>2. CASE req[r].iso \notin Isolates
      BY <2>2 DEF Sound, NoReq, Kept
  <2>3. QED
      BY <2>1, <2>2
<1>4. ASSUME NEW i \in Isolates
      PROVE  /\ NotBefore(req[r].feed, i)'
             /\ NotBefore(load[r]["build"].meta, i)'
             /\ (load[r]["query"].pc # "done" \/ i = req[r].iso
                   => NotBefore(load[r]["query"].meta, i))'
    BY <1>1, <1>2, VoidedKeeps DEF Sound, NotBefore, StillNotBefore
<1>5. QED
    BY <1>3, <1>4 DEF Sound

LEMMA SoundFrame ==
    ASSUME NEW r \in Requests, Sound(r), req'[r] = req[r], load'[r] = load[r],
           floor' = floor, missed \subseteq missed'
    PROVE  Sound(r)'
    BY DEF Sound, Kept, NotBefore

LEMMA HeldVoided ==
    ASSUME Typed, Voided, NEW i \in Isolates, Held(i), memo'[i] = memo[i],
           design' = design, missed \subseteq missed'
    PROVE  Held(i)'
<1>1. floor'[i] <= design'
    BY DEF Held, Typed, Versions, Voided
<1>2. memo[i].reg \in RegType
    BY DEF Typed, MemoType
<1>3. QED
    BY <1>1, <1>2, VoidedKeeps DEF Held, Kept, NotBefore, StillKept, StillNotBefore

LEMMA HeldFrame ==
    ASSUME NEW i \in Isolates, Typed, Held(i), memo'[i] = memo[i],
           floor' = floor, design' \in Versions, design <= design', missed \subseteq missed'
    PROVE  Held(i)'
<1>1. floor[i] <= design'
    BY DEF Held, Typed, Versions
<1>2. QED
    BY <1>1 DEF Held, Kept, NotBefore

LEMMA CopiesVoided ==
    ASSUME Typed, Voided, Copies, UNCHANGED <<kvReg, kvMeta>>
    PROVE  Copies'
<1>1. kvReg \in RegType /\ \A u \in Users : kvMeta[u] \in MetaType
    BY DEF Typed
<1>2. QED
    BY <1>1, VoidedKeeps DEF Copies, Kept, NotBefore, StillKept, StillNotBefore

LEMMA UndisturbedFrame ==
    ASSUME NEW r \in Requests, r \in Active, Undisturbed, clear' = clear
    PROVE  Undisturbed'
    BY DEF Undisturbed

LEMMA Busy ==
    ASSUME NEW r \in Requests, req[r].pc # "idle" \/ Loading(r)
    PROVE  r \in Active
    BY DEF Active

-----------------------------------------------------------------------------
(* The steps in the middle of the actions.                                 *)

LEMMA GateEffect ==
    ASSUME Typed, NEW r \in Requests, NEW i \in Isolates, NEW g \in RegType,
           Gate(r, i, g)
    PROVE  /\ req' \in [Requests -> ReqType]
           /\ load' \in [Requests -> [Purposes -> LoadType]]
           /\ \A q \in Requests \ {r} : req'[q] = req[q] /\ load'[q] = load[q]
           /\ \/ req'[r] = [pc |-> "query", iso |-> i, reg |-> g, feed |-> None]
              \/ req'[r] = NoReq /\ load'[r]["query"] = NoLoad
           /\ load'[r]["query"] \in {NoLoad, Started}
           /\ load'[r]["build"] = IF load[r]["build"].pc = "done"
                                  THEN NoLoad ELSE load[r]["build"]
<1> DEFINE next == IF Allowed(g)
                   THEN [pc |-> "query", iso |-> i, reg |-> g, feed |-> None] ELSE NoReq
           build == IF load[r]["build"].pc = "done" THEN NoLoad ELSE load[r]["build"]
           query == IF Allowed(g) THEN Started ELSE NoLoad
<1>1. /\ req \in [Requests -> ReqType]
      /\ load \in [Requests -> [Purposes -> LoadType]]
    BY DEF Typed
<1>2. next \in ReqType
    BY Constants DEF ReqType
<1>3. "build" \in Purposes /\ "query" \in Purposes
    BY DEF Purposes
<1>4. build \in LoadType /\ query \in LoadType
    BY <1>1, <1>3, Constants
<1>5. req' = [req EXCEPT ![r] = next]
    BY DEF Gate
<1>6. load' = [load EXCEPT ![r] = [load[r] EXCEPT !["build"] = build, !["query"] = query]]
    BY <1>1, <1>3 DEF Gate
<1>7. load[r] \in [Purposes -> LoadType]
    BY <1>1
<1> HIDE DEF next, build, query
<1>8. [load[r] EXCEPT !["build"] = build, !["query"] = query] \in [Purposes -> LoadType]
    BY <1>4, <1>7
<1>9. /\ load'[r]["build"] = build /\ load'[r]["query"] = query
      /\ req'[r] = next
    BY <1>1, <1>3, <1>5, <1>6, <1>7
<1>10. /\ req' \in [Requests -> ReqType]
       /\ load' \in [Requests -> [Purposes -> LoadType]]
       /\ \A q \in Requests \ {r} : req'[q] = req[q] /\ load'[q] = load[q]
    BY <1>1, <1>2, <1>5, <1>6, <1>8
<1>11. QED
    BY <1>9, <1>10 DEF next, build, query

LEMMA LoadIsEffect ==
    ASSUME Typed, NEW r \in Requests, NEW p \in Purposes, NEW l \in LoadType,
           LoadIs(r, p, l)
    PROVE  /\ load' \in [Requests -> [Purposes -> LoadType]]
           /\ \A q \in Requests \ {r} : load'[q] = load[q]
           /\ \A o \in Purposes \ {p} : load'[r][o] = load[r][o]
           /\ load'[r][p] = IF l.pc = "done" /\ p = "build" /\ req[r].pc # "build"
                            THEN NoLoad ELSE l
<1> DEFINE m == IF l.pc = "done" /\ p = "build" /\ req[r].pc # "build" THEN NoLoad ELSE l
<1>1. load \in [Requests -> [Purposes -> LoadType]]
    BY DEF Typed
<1>2. m \in LoadType
    BY Constants
<1>3. load' = [load EXCEPT ![r][p] = m]
    BY DEF LoadIs
<1> HIDE DEF m
<1>4. load[r] \in [Purposes -> LoadType]
    BY <1>1
<1>5. load' = [load EXCEPT ![r] = [load[r] EXCEPT ![p] = m]]
    BY <1>1, <1>3
<1>6. [load[r] EXCEPT ![p] = m] \in [Purposes -> LoadType]
    BY <1>2, <1>4
<1>7. /\ load' \in [Requests -> [Purposes -> LoadType]]
      /\ \A q \in Requests \ {r} : load'[q] = load[q]
      /\ load'[r] = [load[r] EXCEPT ![p] = m]
    BY <1>1, <1>5, <1>6
<1>8. /\ \A o \in Purposes \ {p} : load'[r][o] = load[r][o]
      /\ load'[r][p] = m
    BY <1>4, <1>7
<1>9. QED
    BY <1>7, <1>8 DEF m

(* A request leaves getGiRegistry with a registry that will do, or none    *)
(* where none was found.                                                   *)
LEMMA GateSound ==
    ASSUME CacheInv, NEW r \in Requests, NEW i \in Isolates, NEW g \in RegType,
           Gate(r, i, g), req[r].pc \notin {"query", "get"},
           StillKept(g, i), g = NoReg => i \in missed,
           Voided, missed' = missed
    PROVE  \A q \in Requests : Sound(q)'
<1>1. Typed /\ \A q \in Requests : Sound(q)
    BY DEF CacheInv
<1>2. ASSUME NEW q \in Requests \ {r}
      PROVE  Sound(q)'
    BY <1>1, <1>2, GateEffect, SoundVoided
<1>3. Sound(r)'
  <2>1. Purposes = {"build", "query"}
      BY DEF Purposes
  <2>2. /\ load'[r]["query"] \in {NoLoad, Started}
        /\ load'[r]["build"] = IF load[r]["build"].pc = "done"
                               THEN NoLoad ELSE load[r]["build"]
      BY <1>1, GateEffect
  <2>3. \A p \in Purposes : load'[r][p].pc \in {"off", "read", "fetch"} => load'[r][p].meta = None
      BY <1>1, <2>1, <2>2 DEF Sound, NoLoad, Started
  <2>4. \A j \in Isolates : NotBefore(load[r]["build"].meta, j)' /\ NotBefore(load[r]["query"].meta, j)'
    <3>1. load[r]["build"].meta \in MetaType /\ None \in MetaType
        BY <1>1, <2>1, Constants DEF Typed, LoadType
    <3>2. QED
        BY <1>1, <2>2, <3>1, VoidedKeeps DEF Sound, NoLoad, Started, NotBefore, StillNotBefore
  <2>5. load'[r]["build"].pc # "done" /\ load'[r]["query"].pc # "done"
      BY <2>2 DEF NoLoad, Started
  <2>6. CASE req'[r] = [pc |-> "query", iso |-> i, reg |-> g, feed |-> None]
      BY <2>3, <2>4, <2>5, <2>6 DEF Sound, Kept, NotBefore, StillKept, StillNotBefore
  <2>7. CASE req'[r] = NoReq /\ load'[r]["query"] = NoLoad
    <3>1. req'[r].pc = "idle" /\ req'[r].reg = NoReg /\ req'[r].feed = None
        BY <2>7 DEF NoReq
    <3>2. load'[r]["query"].pc = "off"
        BY <2>7 DEF NoLoad
    <3>3. QED
        BY <2>3, <2>4, <2>5, <2>7, <3>1, <3>2 DEF Sound, Kept, NotBefore
  <2>8. QED
      BY <1>1, <2>6, <2>7, GateEffect
<1>4. QED
    BY <1>2, <1>3

LEMMA SettleKeeps ==
    ASSUME CacheInv, NEW r \in Requests, NEW g \in RegType,
           req[r].pc \in {"registry", "build"}, Settle(r, g),
           StillKept(g, req[r].iso), g = NoReg => req[r].iso \in missed,
           design' = design, clear' = clear, missed' = missed, Voided
    PROVE  /\ memo' \in [Isolates -> MemoType]
           /\ \A i \in Isolates : memo'[i].reg # NoReg => memo'[i].attempted
           /\ req' \in [Requests -> ReqType]
           /\ load' \in [Requests -> [Purposes -> LoadType]]
           /\ \A q \in Requests : Sound(q)'
           /\ \A i \in Isolates : Held(i)'
           /\ Undisturbed'
<1> DEFINE i == req[r].iso
<1>1. Typed /\ Sound(r) /\ (\A j \in Isolates : Held(j)) /\ Undisturbed
    BY DEF CacheInv
<1>2. i \in Isolates
    BY <1>1 DEF Sound
<1>3. memo' = [memo EXCEPT ![i] = [attempted |-> TRUE, reg |-> g]] /\ Gate(r, i, g)
    BY DEF Settle
<1>4. memo \in [Isolates -> MemoType] /\ [attempted |-> TRUE, reg |-> g] \in MemoType
    BY <1>1 DEF Typed, MemoType
<1>5. /\ memo' \in [Isolates -> MemoType]
      /\ memo'[i] = [attempted |-> TRUE, reg |-> g]
      /\ \A j \in Isolates \ {i} : memo'[j] = memo[j]
    BY <1>2, <1>3, <1>4
<1>6. \A j \in Isolates : memo'[j].reg # NoReg => memo'[j].attempted
    BY <1>1, <1>5 DEF Typed
<1>7. \A q \in Requests : Sound(q)'
    BY <1>2, <1>3, GateSound
<1>8. ASSUME NEW j \in Isolates
      PROVE  Held(j)'
  <2>1. CASE j = i
    <3>1. floor'[j] <= design'
        BY <1>1 DEF Held, Typed, Versions, Voided
    <3>2. QED
        BY <1>2, <1>5, <2>1, <3>1 DEF Held, Kept, NotBefore, StillKept, StillNotBefore
  <2>2. CASE j # i
      BY <1>1, <1>5, <2>2, HeldVoided
  <2>3. QED
      BY <2>1, <2>2
<1>9. Undisturbed'
    BY <1>1, Busy, UndisturbedFrame
<1>10. QED
    BY <1>1, <1>2, <1>3, <1>5, <1>6, <1>7, <1>8, <1>9, GateEffect

LEMMA LoadSound ==
    ASSUME CacheInv, NEW r \in Requests, NEW p \in Purposes, NEW l \in LoadType,
           load[r][p].pc \in {"read", "fetch", "put"}, LoadIs(r, p, l),
           l.pc \in {"fetch", "put", "done"}, l.pc = "fetch" => l.meta = None,
           \A i \in Isolates :
              p = "build" \/ l.pc # "done" \/ i = req[r].iso => StillNotBefore(l.meta, i),
           req' = req, missed' = missed, Voided
    PROVE  \A q \in Requests : Sound(q)'
<1>1. Typed /\ \A q \in Requests : Sound(q)
    BY DEF CacheInv
<1>2. ASSUME NEW q \in Requests \ {r}
      PROVE  Sound(q)'
    BY <1>1, <1>2, LoadIsEffect, SoundVoided
<1>3. Sound(r)'
  <2>1. Purposes = {"build", "query"} /\ "build" \in Purposes /\ "query" \in Purposes
      BY DEF Purposes
  <2>2. /\ \A o \in Purposes \ {p} : load'[r][o] = load[r][o]
        /\ load'[r][p] = IF l.pc = "done" /\ p = "build" /\ req[r].pc # "build"
                         THEN NoLoad ELSE l
      BY <1>1, LoadIsEffect
  <2>3. NoLoad.pc = "off" /\ NoLoad.meta = None
      BY DEF NoLoad
  <2>4. \A o \in Purposes : load'[r][o].pc \in {"off", "read", "fetch"} => load'[r][o].meta = None
      BY <1>1, <2>2, <2>3 DEF Sound
  <2>5. ASSUME NEW i \in Isolates
        PROVE  /\ NotBefore(load[r]["build"].meta, i)'
               /\ (load[r]["query"].pc # "done" \/ i = req[r].iso
                     => NotBefore(load[r]["query"].meta, i))'
    <3>1. \A o \in Purposes : load[r][o].meta \in MetaType
        BY <1>1 DEF Typed, LoadType
    <3>2. NotBefore(load[r]["build"].meta, i)'
        BY <1>1, <2>1, <2>2, <2>3, <3>1, VoidedKeeps DEF Sound, NotBefore, StillNotBefore
    <3>3. (load[r]["query"].pc # "done" \/ i = req[r].iso
             => NotBefore(load[r]["query"].meta, i))'
        BY <1>1, <2>1, <2>2, <3>1, VoidedKeeps DEF Sound, NotBefore, StillNotBefore
    <3>4. QED
        BY <3>2, <3>3
  <2>6. load'[r]["build"].pc = "done" => req'[r].pc = "build"
      BY <1>1, <2>1, <2>2, <2>3 DEF Sound
  <2>7. load'[r]["query"].pc # "off" => req'[r].pc \in {"query", "get"}
      BY <1>1, <2>1, <2>2, <2>3 DEF Sound
  <2>8. req'[r].pc = "get" =>
          load'[r]["query"].pc = "done" /\ load'[r]["query"].meta # None
      BY <1>1, <2>1, <2>2 DEF Sound
  <2>9. Kept(req[r].reg, req[r].iso)'
    <3>1. CASE req[r].iso \in Isolates
      <4>1. req[r].reg \in RegType
          BY <1>1 DEF Typed, ReqType
      <4>2. QED
          BY <1>1, <3>1, <4>1, VoidedKeeps DEF Sound, Kept, NotBefore, StillKept, StillNotBefore
    <3>2. CASE req[r].iso \notin Isolates
        BY <1>1, <3>2 DEF Sound, NoReq, Kept
    <3>3. QED
        BY <3>1, <3>2
  <2>10. \A i \in Isolates : NotBefore(req[r].feed, i)'
    <3>1. req[r].feed \in MetaType
        BY <1>1 DEF Typed, ReqType
    <3>2. QED
        BY <1>1, <3>1, VoidedKeeps DEF Sound, NotBefore, StillNotBefore
  <2>11. QED
      BY <1>1, <2>4, <2>5, <2>6, <2>7, <2>8, <2>9, <2>10 DEF Sound
<1>4. QED
    BY <1>2, <1>3

LEMMA HeldUntouched ==
    ASSUME CacheInv, memo' = memo, floor' = floor, design' = design,
           missed \subseteq missed'
    PROVE  \A i \in Isolates : Held(i)'
    BY DEF CacheInv, Held, Kept, NotBefore

LEMMA CopiesUntouched ==
    ASSUME Copies, UNCHANGED <<kvReg, kvMeta, floor>>
    PROVE  Copies'
    BY DEF Copies, Kept, NotBefore

-----------------------------------------------------------------------------
(* getGiRegistry.                                                          *)

LEMMA EnterKeeps == ASSUME CacheInv, NEW r \in Requests, Enter(r) PROVE CacheInv'
<1>1. Typed /\ (\A q \in Requests : Sound(q)) /\ Copies
    BY DEF CacheInv
<1>2. UNCHANGED <<now, design, caches, clears, faults, hist>>
    BY DEF Enter
<1>3. UNCHANGED <<memo, kvReg, kvMeta, oldReg, oldMeta, missed, floor>>
    BY <1>2 DEF caches, kv, hist
<1>4. clear' \in ClearType /\ clear'.clean = FALSE
    BY <1>1 DEF Enter, Typed, ClearType
<1>5. Undisturbed'
    BY <1>4 DEF Undisturbed
<1>6. (\A i \in Isolates : Held(i)') /\ Copies'
    BY <1>1, <1>2, <1>3, HeldUntouched, CopiesUntouched
<1>7. PICK i \in Isolates :
         \/ memo[i].attempted /\ Gate(r, i, memo[i].reg)
         \/ /\ req' = [req EXCEPT ![r] = [NoReq EXCEPT !.pc = "registry", !.iso = i]]
            /\ UNCHANGED load
    BY DEF Enter
<1>8. req[r].pc = "idle"
    BY DEF Enter
<1>9. CASE memo[i].attempted /\ Gate(r, i, memo[i].reg)
  <2>1. /\ memo[i].reg \in RegType /\ Kept(memo[i].reg, i)
        /\ memo[i].reg = NoReg => i \in missed
      BY <1>1, <1>9 DEF Typed, MemoType, CacheInv, Held
  <2>2. \A q \in Requests : Sound(q)'
    <3>1. Voided /\ StillKept(memo[i].reg, i)
        BY <1>1, <1>3, <2>1, FloorKept, VoidedKeeps
    <3>2. QED
        BY <1>3, <1>8, <1>9, <2>1, <3>1, GateSound
  <2>3. Typed'
      BY <1>1, <1>2, <1>3, <1>4, <1>9, <2>1, GateEffect DEF Typed
  <2>4. QED
      BY <1>5, <1>6, <2>2, <2>3 DEF CacheInv
<1>10. CASE /\ req' = [req EXCEPT ![r] = [NoReq EXCEPT !.pc = "registry", !.iso = i]]
            /\ UNCHANGED load
  <2> DEFINE next == [NoReq EXCEPT !.pc = "registry", !.iso = i]
  <2>1. /\ next \in ReqType /\ next.pc = "registry" /\ next.iso = i
        /\ next.reg = NoReg /\ next.feed = None
      BY Constants DEF NoReq, ReqType
  <2> HIDE DEF next
  <2>2. /\ req' \in [Requests -> ReqType] /\ req'[r] = next
        /\ \A q \in Requests \ {r} : req'[q] = req[q]
      BY <1>1, <1>10, <2>1 DEF Typed, next
  <2>3. Typed'
      BY <1>1, <1>2, <1>3, <1>4, <1>10, <2>2 DEF Typed
  <2>4. Sound(r)'
      BY <1>1, <1>3, <1>8, <1>10, <2>1, <2>2 DEF Sound, Kept, NotBefore
  <2>5. ASSUME NEW q \in Requests \ {r}
        PROVE  Sound(q)'
      BY <1>1, <1>3, <1>10, <2>2, <2>5, SoundFrame
  <2>6. QED
      BY <1>5, <1>6, <2>3, <2>4, <2>5 DEF CacheInv
<1>11. QED
    BY <1>7, <1>9, <1>10

LEMMA ReadRegistryKeeps ==
    ASSUME CacheInv, NEW r \in Requests, ReadRegistry(r) PROVE CacheInv'
<1> DEFINE i == req[r].iso
<1>1. Typed /\ (\A q \in Requests : Sound(q)) /\ Copies /\ Undisturbed
    BY DEF CacheInv
<1>2. UNCHANGED <<now, design, kvReg, kvMeta, oldReg, oldMeta, clear, clears>>
    BY DEF ReadRegistry, kv
<1>3. req[r].pc = "registry" /\ i \in Isolates
    BY <1>1 DEF ReadRegistry, Sound
<1>4. PICK g \in {kvReg, NoReg} \union oldReg :
         /\ Cached(kvReg, oldReg, NoReg, g)
         /\ floor' = IF g \in {kvReg, NoReg} THEN floor ELSE [floor EXCEPT ![i] = 0]
         /\ \/ g # NoReg /\ Settle(r, g) /\ UNCHANGED missed
            \/ /\ req' = [req EXCEPT ![r].pc = "build", ![r].reg = g]
               /\ load' = [load EXCEPT ![r]["build"] = Started]
               /\ missed' = IF g = NoReg THEN missed \union {i} ELSE missed
               /\ UNCHANGED memo
    BY DEF ReadRegistry
<1>5. g \in RegType /\ faults' \in Nat /\ Voided /\ StillKept(g, i)
  <2>1. g \in RegType /\ faults' \in Nat
      BY <1>1, <1>4, Constants DEF Typed, RegType, Cached, Fault
  <2>2. CASE g \in {kvReg, NoReg}
    <3>1. floor' = floor
        BY <1>4, <2>2
    <3>2. Kept(g, i)
        BY <1>1, <1>3, <2>2 DEF Copies, Kept
    <3>3. QED
        BY <1>1, <1>3, <2>1, <3>1, <3>2, FloorKept, VoidedKeeps
  <2>3. CASE g \notin {kvReg, NoReg}
    <3>1. floor' = [floor EXCEPT ![i] = 0]
        BY <1>4, <2>3
    <3>2. floor \in [Isolates -> Versions] /\ 0 \in Versions
        BY <1>1, ConstantsAssumption DEF Typed, Versions
    <3>3. Voided /\ floor'[i] = 0
        BY <1>3, <3>1, <3>2 DEF Voided
    <3>4. QED
        BY <1>1, <1>3, <2>1, <3>3, VoidedIsKept
  <2>4. QED
      BY <2>2, <2>3
<1>6. Copies' /\ floor' \in [Isolates -> Versions]
    BY <1>1, <1>2, <1>5, CopiesVoided DEF Voided
<1>7. CASE g # NoReg /\ Settle(r, g) /\ UNCHANGED missed
  <2>1. /\ memo' \in [Isolates -> MemoType]
        /\ \A j \in Isolates : memo'[j].reg # NoReg => memo'[j].attempted
        /\ req' \in [Requests -> ReqType]
        /\ load' \in [Requests -> [Purposes -> LoadType]]
        /\ \A q \in Requests : Sound(q)'
        /\ \A j \in Isolates : Held(j)'
        /\ Undisturbed'
      BY <1>2, <1>3, <1>5, <1>7, SettleKeeps
  <2>2. Typed'
      BY <1>1, <1>2, <1>5, <1>6, <1>7, <2>1 DEF Typed
  <2>3. QED
      BY <1>6, <2>1, <2>2 DEF CacheInv
<1>8. CASE /\ req' = [req EXCEPT ![r].pc = "build", ![r].reg = g]
           /\ load' = [load EXCEPT ![r]["build"] = Started]
           /\ missed' = IF g = NoReg THEN missed \union {i} ELSE missed
           /\ UNCHANGED memo
  <2>1. "build" \in Purposes /\ "query" \in Purposes /\ Purposes = {"build", "query"}
      BY DEF Purposes
  <2>2. /\ req' \in [Requests -> ReqType]
        /\ req'[r] = [req[r] EXCEPT !.pc = "build", !.reg = g]
        /\ \A q \in Requests \ {r} : req'[q] = req[q]
    <3>1. req \in [Requests -> ReqType] /\ req[r] \in ReqType
        BY <1>1 DEF Typed
    <3>2. [req[r] EXCEPT !.pc = "build", !.reg = g] \in ReqType
        BY <1>5, <3>1 DEF ReqType
    <3>3. QED
        BY <1>8, <3>1, <3>2
  <2>3. req'[r].pc = "build" /\ req'[r].reg = g /\ req'[r].iso = i /\ req'[r].feed = req[r].feed
      BY <1>1, <2>2 DEF Typed, ReqType
  <2>4. load[r] \in [Purposes -> LoadType] /\ [load[r] EXCEPT !["build"] = Started] \in [Purposes -> LoadType]
      BY <1>1, Constants DEF Typed
  <2>5. /\ load' \in [Requests -> [Purposes -> LoadType]]
        /\ load'[r] = [load[r] EXCEPT !["build"] = Started]
        /\ \A q \in Requests \ {r} : load'[q] = load[q]
      BY <1>1, <1>8, <2>4 DEF Typed
  <2>6. load'[r]["build"] = Started /\ load'[r]["query"] = load[r]["query"]
      BY <2>1, <2>4, <2>5
  <2>7. missed \subseteq missed' /\ missed' \subseteq Isolates /\ (g = NoReg => i \in missed')
      BY <1>1, <1>3, <1>8 DEF Typed
  <2>8. Typed'
      BY <1>1, <1>2, <1>5, <1>6, <1>8, <2>2, <2>5, <2>7 DEF Typed
  <2>9. Sound(r)'
    <3>1. Started.pc = "read" /\ Started.meta = None
        BY DEF Started
    <3>2. \A o \in Purposes : load'[r][o].pc \in {"off", "read", "fetch"} => load'[r][o].meta = None
        BY <1>1, <2>1, <2>6, <3>1 DEF Sound
    <3>3. load'[r]["query"].pc = "off"
      <4>1. load[r]["query"].pc = "off"
          BY <1>1, <1>3 DEF Sound
      <4>2. QED
          BY <2>6, <4>1
    <3>4. load'[r]["build"].meta = None /\ load'[r]["query"].meta = None
        BY <2>1, <2>6, <3>1, <3>2, <3>3
    <3>5. Kept(req[r].reg, req[r].iso)'
        BY <1>5, <2>3 DEF Kept, NotBefore, StillKept, StillNotBefore
    <3>6. \A j \in Isolates : NotBefore(req[r].feed, j)'
      <4>1. req[r].feed \in MetaType
          BY <1>1 DEF Typed, ReqType
      <4>2. QED
          BY <1>1, <1>5, <2>3, <4>1, VoidedKeeps DEF Sound, NotBefore, StillNotBefore
    <3>7. \A j \in Isolates : /\ NotBefore(load[r]["build"].meta, j)'
                               /\ NotBefore(load[r]["query"].meta, j)'
        BY <3>4 DEF NotBefore
    <3>8. QED
        BY <1>3, <2>3, <2>6, <2>7, <3>1, <3>2, <3>3, <3>5, <3>6, <3>7 DEF Sound
  <2>10. ASSUME NEW q \in Requests \ {r}
         PROVE  Sound(q)'
      BY <1>1, <1>5, <2>2, <2>5, <2>7, <2>10, SoundVoided
  <2>11. \A j \in Isolates : Held(j)'
      BY <1>1, <1>2, <1>5, <1>8, <2>7, HeldVoided DEF CacheInv
  <2>12. Undisturbed'
      BY <1>1, <1>2, <1>3, Busy, UndisturbedFrame
  <2>13. QED
      BY <1>6, <2>8, <2>9, <2>10, <2>11, <2>12 DEF CacheInv
<1>9. QED
    BY <1>4, <1>7, <1>8

LEMMA FetchFeedsKeeps ==
    ASSUME CacheInv, NEW r \in Requests, FetchFeeds(r) PROVE CacheInv'
<1>1. Typed /\ (\A q \in Requests : Sound(q)) /\ Copies /\ Undisturbed
    BY DEF CacheInv
<1>2. /\ UNCHANGED <<now, design, memo, kvReg, kvMeta, oldReg, oldMeta, load, clear, clears, faults, missed, floor>>
      /\ req[r].pc = "build" /\ req' = [req EXCEPT ![r].feed = design]
    BY DEF FetchFeeds, caches, kv, hist
<1>3. /\ req' \in [Requests -> ReqType]
      /\ req'[r] = [req[r] EXCEPT !.feed = design]
      /\ \A q \in Requests \ {r} : req'[q] = req[q]
    BY <1>1, <1>2, DesignIsVersion DEF Typed, ReqType
<1>4. /\ req'[r].pc = "build" /\ req'[r].reg = req[r].reg
      /\ req'[r].iso = req[r].iso /\ req'[r].feed = design
    BY <1>1, <1>2, <1>3 DEF Typed, ReqType
<1>5. \A j \in Isolates : floor[j] <= design /\ floor[j] \in Int /\ design \in Int
    BY DEF CacheInv, Held, Typed, Versions
<1>6. Sound(r)'
    BY <1>1, <1>2, <1>4, <1>5 DEF Sound, Kept, NotBefore
<1>7. ASSUME NEW q \in Requests \ {r}
      PROVE  Sound(q)'
    BY <1>1, <1>2, <1>3, <1>7, SoundFrame
<1>8. Typed'
    BY <1>1, <1>2, <1>3 DEF Typed
<1>9. (\A i \in Isolates : Held(i)') /\ Copies' /\ Undisturbed'
    BY <1>1, <1>2, HeldUntouched, CopiesUntouched, Busy, UndisturbedFrame
<1>10. QED
    BY <1>6, <1>7, <1>8, <1>9 DEF CacheInv

LEMMA BuildFailsKeeps ==
    ASSUME CacheInv, NEW r \in Requests, BuildFails(r) PROVE CacheInv'
<1>1. Typed /\ Sound(r) /\ Copies
    BY DEF CacheInv
<1>2. /\ UNCHANGED <<now, design, kvReg, kvMeta, oldReg, oldMeta, clear, clears, faults, missed, floor>>
      /\ req[r].pc = "build" /\ Settle(r, req[r].reg)
    BY DEF BuildFails, kv, hist
<1>3. /\ req[r].reg \in RegType /\ Kept(req[r].reg, req[r].iso)
      /\ req[r].reg = NoReg => req[r].iso \in missed
    BY <1>1, <1>2 DEF Typed, ReqType, Sound
<1>4. Voided /\ StillKept(req[r].reg, req[r].iso)
    BY <1>1, <1>2, <1>3, FloorKept, VoidedKeeps DEF Sound
<1>5. /\ memo' \in [Isolates -> MemoType]
      /\ \A j \in Isolates : memo'[j].reg # NoReg => memo'[j].attempted
      /\ req' \in [Requests -> ReqType]
      /\ load' \in [Requests -> [Purposes -> LoadType]]
      /\ \A q \in Requests : Sound(q)'
      /\ \A j \in Isolates : Held(j)'
      /\ Undisturbed'
    BY <1>2, <1>3, <1>4, SettleKeeps
<1>6. Typed'
    BY <1>1, <1>2, <1>5 DEF Typed
<1>7. QED
    BY <1>1, <1>2, <1>5, <1>6, CopiesUntouched DEF CacheInv

LEMMA BuildSucceedsKeeps ==
    ASSUME CacheInv, NEW r \in Requests, BuildSucceeds(r) PROVE CacheInv'
<1> DEFINE built == [feed |-> req[r].feed, meta |-> load[r]["build"].meta, built |-> now]
<1>1. Typed /\ Sound(r) /\ Copies
    BY DEF CacheInv
<1>2. /\ UNCHANGED <<now, design, kvMeta, oldMeta, clear, clears, missed, floor>>
      /\ req[r].pc = "build" /\ req[r].feed # None
      /\ PutReg(built) /\ Settle(r, built)
    BY DEF BuildSucceeds, hist
<1>3. "build" \in Purposes /\ req[r].iso \in Isolates
    BY <1>1, <1>2 DEF Purposes, Sound
<1>4. req[r].feed \in Versions /\ load[r]["build"].meta \in MetaType /\ now \in Nat
    BY <1>1, <1>2, <1>3 DEF Typed, ReqType, LoadType, MetaType
<1>5. built \in Registry
    BY <1>4 DEF Registry, MetaType
<1>6. built \in RegType /\ built # NoReg
    BY <1>5, Constants DEF RegType
<1>7. \A j \in Isolates : Kept(built, j)
    BY <1>1, <1>2, <1>3 DEF Sound, Kept, NotBefore
<1>8. kvReg' \in {built, kvReg} /\ oldReg' \subseteq Registry /\ faults' \in Nat
    BY <1>1, <1>2 DEF PutReg, OlderReg, Replaced, RegType, Fault, Typed
<1> HIDE DEF built
<1>9. /\ memo' \in [Isolates -> MemoType]
      /\ \A j \in Isolates : memo'[j].reg # NoReg => memo'[j].attempted
      /\ req' \in [Requests -> ReqType]
      /\ load' \in [Requests -> [Purposes -> LoadType]]
      /\ \A q \in Requests : Sound(q)'
      /\ \A j \in Isolates : Held(j)'
      /\ Undisturbed'
  <2>1. Voided /\ StillKept(built, req[r].iso)
      BY <1>1, <1>2, <1>3, <1>6, <1>7, FloorKept, VoidedKeeps
  <2>2. QED
      BY <1>2, <1>3, <1>6, <2>1, SettleKeeps
<1>10. Typed'
    BY <1>1, <1>2, <1>6, <1>8, <1>9 DEF Typed
<1>11. Copies'
    BY <1>1, <1>2, <1>7, <1>8 DEF Copies, Kept, NotBefore
<1>12. QED
    BY <1>9, <1>10, <1>11 DEF CacheInv

-----------------------------------------------------------------------------
(* $metadata.                                                              *)

LEMMA PutMetaEffect ==
    ASSUME Typed, NEW u \in Users, NEW v \in MetaType, PutMeta(u, v)
    PROVE  /\ kvMeta' \in [Users -> MetaType] /\ faults' \in Nat
           /\ oldMeta' \in [Users -> SUBSET Versions]
           /\ \A w \in Users : kvMeta'[w] \in {v, kvMeta[w]}
<1>1. OlderMeta(u) \in SUBSET Versions
    BY DEF Typed, OlderMeta, MetaType
<1>2. faults' \in Nat
    BY DEF Typed, PutMeta, Replaced, Fault
<1>3. /\ oldMeta' \in [Users -> SUBSET Versions]
      /\ kvMeta' \in [Users -> MetaType]
      /\ \A w \in Users : kvMeta'[w] \in {v, kvMeta[w]}
    BY <1>1 DEF Typed, PutMeta
<1>4. QED
    BY <1>2, <1>3

LEMMA ReadMetaKeeps ==
    ASSUME CacheInv, NEW r \in Requests, NEW p \in Purposes, ReadMeta(r, p) PROVE CacheInv'
<1>1. Typed /\ Copies /\ Undisturbed /\ UserOf[r] \in Users
    BY ConstantsAssumption DEF CacheInv
<1>2. /\ load[r][p].pc = "read"
      /\ UNCHANGED <<now, design, memo, kvReg, kvMeta, oldReg, oldMeta, req, clear, clears, missed>>
    BY DEF ReadMeta, caches, kv
<1> DEFINE current == kvMeta[UserOf[r]]
           voids(v, i) == v \notin {current, None} /\ (p = "build" \/ i = req[r].iso)
<1>3. PICK v \in MetaType :
         /\ Cached(current, oldMeta[UserOf[r]], None, v)
         /\ floor' = [i \in Isolates |-> IF voids(v, i) THEN 0 ELSE floor[i]]
         /\ LoadIs(r, p, IF v # None THEN Loaded(v) ELSE [pc |-> "fetch", meta |-> None])
    BY DEF ReadMeta, MetaType
<1> DEFINE l == IF v # None THEN Loaded(v) ELSE [pc |-> "fetch", meta |-> None]
<1>4. /\ l \in LoadType /\ l.pc \in {"fetch", "done"} /\ l.meta = v
      /\ l.pc = "fetch" => l.meta = None
    BY Constants DEF Loaded, LoadType
<1>5. Voided
    BY <1>1, <1>3, ConstantsAssumption DEF Typed, Versions, Voided
<1>6. ASSUME NEW i \in Isolates, p = "build" \/ l.pc # "done" \/ i = req[r].iso
      PROVE  StillNotBefore(l.meta, i)
  <2>1. CASE v \in {current, None}
    <3>1. NotBefore(v, i)
        BY <1>1, <2>1 DEF Copies, NotBefore
    <3>2. QED
        BY <1>1, <1>4, <1>5, <3>1, VoidedKeeps
  <2>2. CASE v \notin {current, None}
    <3>1. l.pc = "done"
        BY <2>2 DEF Loaded
    <3>2. floor'[i] = 0
        BY <1>3, <1>6, <2>2, <3>1
    <3>3. QED
        BY <1>1, <1>4, <3>2, VoidedIsKept
  <2>3. QED
      BY <2>1, <2>2
<1>7. LoadIs(r, p, l) /\ faults' \in Nat
    BY <1>1, <1>3 DEF Cached, Fault, Typed
<1> HIDE DEF l
<1>8. \A q \in Requests : Sound(q)'
    BY <1>2, <1>4, <1>5, <1>6, <1>7, LoadSound
<1>9. floor' \in [Isolates -> Versions] /\ load' \in [Requests -> [Purposes -> LoadType]]
    BY <1>1, <1>4, <1>5, <1>7, LoadIsEffect DEF Voided
<1>10. Typed'
    BY <1>1, <1>2, <1>7, <1>9 DEF Typed
<1>11. r \in Active
    BY <1>2, Busy DEF Loading
<1>12. \A i \in Isolates : Held(i)'
    BY <1>1, <1>2, <1>5, HeldVoided DEF CacheInv
<1>13. Copies' /\ Undisturbed'
    BY <1>1, <1>2, <1>5, <1>11, CopiesVoided, UndisturbedFrame
<1>14. QED
    BY <1>8, <1>10, <1>12, <1>13 DEF CacheInv

LEMMA FetchMetaKeeps ==
    ASSUME CacheInv, NEW r \in Requests, NEW p \in Purposes, FetchMeta(r, p) PROVE CacheInv'
<1>1. Typed /\ Copies /\ Undisturbed
    BY DEF CacheInv
<1>2. /\ load[r][p].pc = "fetch"
      /\ UNCHANGED <<now, design, memo, kvReg, kvMeta, oldReg, oldMeta, req, clear, clears, faults, missed, floor>>
    BY DEF FetchMeta, caches, kv, hist
<1>3. PICK l \in {[pc |-> "put", meta |-> design], Loaded(None)} : LoadIs(r, p, l)
    BY DEF FetchMeta
<1>4. /\ l \in LoadType /\ l.pc \in {"put", "done"} /\ l.meta \in {design, None}
    BY <1>1, <1>3, Constants, DesignIsVersion DEF Loaded, LoadType
<1>5. Voided /\ \A i \in Isolates : StillNotBefore(l.meta, i)
  <2>1. \A i \in Isolates : floor[i] <= design /\ floor[i] \in Int /\ design \in Int
      BY DEF CacheInv, Held, Typed, Versions
  <2>2. QED
      BY <1>1, <1>2, <1>4, <2>1, FloorKept DEF StillNotBefore
<1>6. \A q \in Requests : Sound(q)'
    BY <1>2, <1>3, <1>4, <1>5, LoadSound
<1>7. Typed'
    BY <1>1, <1>2, <1>3, <1>4, LoadIsEffect DEF Typed
<1>8. r \in Active
    BY <1>2, Busy DEF Loading
<1>9. (\A i \in Isolates : Held(i)') /\ Copies' /\ Undisturbed'
    BY <1>1, <1>2, <1>8, HeldUntouched, CopiesUntouched, UndisturbedFrame
<1>10. QED
    BY <1>6, <1>7, <1>9 DEF CacheInv

LEMMA StoreMetaKeeps ==
    ASSUME CacheInv, NEW r \in Requests, NEW p \in Purposes, StoreMeta(r, p) PROVE CacheInv'
<1> DEFINE v == load[r][p].meta
<1>1. Typed /\ Sound(r) /\ Copies /\ Undisturbed /\ UserOf[r] \in Users
    BY ConstantsAssumption DEF CacheInv
<1>2. /\ load[r][p].pc = "put" /\ PutMeta(UserOf[r], v) /\ LoadIs(r, p, Loaded(v))
      /\ UNCHANGED <<now, design, memo, kvReg, oldReg, req, clear, clears, missed, floor>>
    BY DEF StoreMeta, hist
<1>3. v \in MetaType /\ \A i \in Isolates : NotBefore(v, i)
    BY <1>1, <1>2 DEF Typed, LoadType, Sound, Purposes
<1> HIDE DEF v
<1>4. Loaded(v) \in LoadType /\ Loaded(v).pc = "done" /\ Loaded(v).meta = v
    BY <1>3, Constants DEF Loaded
<1>5. \A q \in Requests : Sound(q)'
  <2>1. Voided /\ \A i \in Isolates : StillNotBefore(v, i)
      BY <1>1, <1>2, <1>3, FloorKept, VoidedKeeps
  <2>2. QED
      BY <1>2, <1>3, <1>4, <2>1, LoadSound
<1>6. /\ kvMeta' \in [Users -> MetaType] /\ faults' \in Nat
      /\ oldMeta' \in [Users -> SUBSET Versions]
      /\ \A w \in Users : kvMeta'[w] \in {v, kvMeta[w]}
    BY <1>1, <1>2, <1>3, PutMetaEffect
<1>7. load' \in [Requests -> [Purposes -> LoadType]]
    BY <1>1, <1>2, <1>4, LoadIsEffect
<1>8. Typed'
    BY <1>1, <1>2, <1>6, <1>7 DEF Typed
<1>9. Copies'
    BY <1>1, <1>2, <1>3, <1>6 DEF Copies, Kept, NotBefore
<1>10. r \in Active
    BY <1>2, Busy DEF Loading
<1>11. (\A i \in Isolates : Held(i)') /\ Undisturbed'
    BY <1>1, <1>2, <1>10, HeldUntouched, UndisturbedFrame
<1>12. QED
    BY <1>5, <1>8, <1>9, <1>11 DEF CacheInv

-----------------------------------------------------------------------------
(* The query.                                                              *)

LEMMA AnsweredKeeps ==
    ASSUME CacheInv, NEW r \in Requests, req[r].pc # "build", Answered(r),
           missed' = missed, floor' = floor
    PROVE  /\ req' \in [Requests -> ReqType]
           /\ load' \in [Requests -> [Purposes -> LoadType]]
           /\ \A q \in Requests : Sound(q)'
<1>1. Typed /\ \A q \in Requests : Sound(q)
    BY DEF CacheInv
<1>2. "build" \in Purposes /\ "query" \in Purposes /\ Purposes = {"build", "query"}
    BY DEF Purposes
<1>3. /\ req' \in [Requests -> ReqType] /\ req'[r] = NoReq
      /\ \A q \in Requests \ {r} : req'[q] = req[q]
    BY <1>1, Constants DEF Answered, Typed
<1>4. load[r] \in [Purposes -> LoadType] /\ [load[r] EXCEPT !["query"] = NoLoad] \in [Purposes -> LoadType]
    BY <1>1, Constants DEF Typed
<1>5. /\ load' \in [Requests -> [Purposes -> LoadType]]
      /\ load'[r] = [load[r] EXCEPT !["query"] = NoLoad]
      /\ \A q \in Requests \ {r} : load'[q] = load[q]
    BY <1>1, <1>4 DEF Answered, Typed
<1>6. load'[r]["query"] = NoLoad /\ load'[r]["build"] = load[r]["build"]
    BY <1>2, <1>4, <1>5
<1>7. Sound(r)'
  <2>1. NoLoad.pc = "off" /\ NoLoad.meta = None
      BY DEF NoLoad
  <2>2. NoReq.pc = "idle" /\ NoReq.reg = NoReg /\ NoReq.feed = None
      BY DEF NoReq
  <2>3. \A o \in Purposes : load'[r][o].pc \in {"off", "read", "fetch"} => load'[r][o].meta = None
      BY <1>1, <1>2, <1>6, <2>1 DEF Sound
  <2>4. \A j \in Isolates : /\ NotBefore(load[r]["build"].meta, j)'
                             /\ NotBefore(load[r]["query"].meta, j)'
      BY <1>1, <1>6, <2>1 DEF Sound, NotBefore
  <2>5. load'[r]["build"].pc # "done"
      BY <1>1, <1>6 DEF Sound
  <2>6. QED
      BY <1>3, <1>6, <2>1, <2>2, <2>3, <2>4, <2>5 DEF Sound, Kept, NotBefore
<1>8. ASSUME NEW q \in Requests \ {r}
      PROVE  Sound(q)'
    BY <1>1, <1>3, <1>5, <1>8, SoundFrame
<1>9. QED
    BY <1>3, <1>5, <1>7, <1>8

LEMMA RefuseQueryKeeps ==
    ASSUME CacheInv, NEW r \in Requests, RefuseQuery(r) PROVE CacheInv'
<1>1. Typed /\ Copies /\ Undisturbed
    BY DEF CacheInv
<1>2. /\ req[r].pc = "query" /\ Answered(r)
      /\ UNCHANGED <<now, design, memo, kvReg, kvMeta, oldReg, oldMeta, clear, clears, faults, missed, floor>>
    BY DEF RefuseQuery, caches, kv, hist
<1>3. /\ req' \in [Requests -> ReqType]
      /\ load' \in [Requests -> [Purposes -> LoadType]]
      /\ \A q \in Requests : Sound(q)'
    BY <1>2, AnsweredKeeps
<1>4. Typed'
    BY <1>1, <1>2, <1>3 DEF Typed
<1>5. (\A i \in Isolates : Held(i)') /\ Copies' /\ Undisturbed'
    BY <1>1, <1>2, HeldUntouched, CopiesUntouched, Busy, UndisturbedFrame
<1>6. QED
    BY <1>3, <1>4, <1>5 DEF CacheInv

LEMMA SendQueryKeeps ==
    ASSUME CacheInv, NEW r \in Requests, SendQuery(r) PROVE CacheInv'
<1>1. Typed /\ (\A q \in Requests : Sound(q)) /\ Copies /\ Undisturbed
    BY DEF CacheInv
<1>2. /\ req[r].pc = "query" /\ load[r]["query"].pc = "done"
      /\ load[r]["query"].meta # None
      /\ req' = [req EXCEPT ![r].pc = "get"]
      /\ UNCHANGED <<now, design, memo, kvReg, kvMeta, oldReg, oldMeta, load, clear, clears, faults, missed, floor>>
    BY DEF SendQuery, Route, caches, kv, hist
<1>3. /\ req' \in [Requests -> ReqType]
      /\ req'[r] = [req[r] EXCEPT !.pc = "get"]
      /\ \A q \in Requests \ {r} : req'[q] = req[q]
    BY <1>1, <1>2 DEF Typed, ReqType
<1>4. /\ req'[r].pc = "get" /\ req'[r].reg = req[r].reg
      /\ req'[r].iso = req[r].iso /\ req'[r].feed = req[r].feed
    BY <1>1, <1>3 DEF Typed, ReqType
<1>5. Sound(r)'
    BY <1>1, <1>2, <1>4 DEF Sound, Kept, NotBefore
<1>6. ASSUME NEW q \in Requests \ {r}
      PROVE  Sound(q)'
    BY <1>1, <1>2, <1>3, <1>6, SoundFrame
<1>7. Typed'
    BY <1>1, <1>2, <1>3 DEF Typed
<1>8. (\A i \in Isolates : Held(i)') /\ Copies' /\ Undisturbed'
    BY <1>1, <1>2, HeldUntouched, CopiesUntouched, Busy, UndisturbedFrame
<1>9. QED
    BY <1>5, <1>6, <1>7, <1>8 DEF CacheInv

LEMMA QueryAnsweredKeeps ==
    ASSUME CacheInv, NEW r \in Requests, QueryAnswered(r) PROVE CacheInv'
<1>1. Typed /\ Copies /\ Undisturbed /\ UserOf[r] \in Users
    BY ConstantsAssumption DEF CacheInv
<1>2. /\ req[r].pc = "get" /\ Answered(r)
      /\ UNCHANGED <<now, design, memo, kvReg, oldReg, clear, clears, missed, floor>>
      /\ UNCHANGED <<kvMeta, oldMeta, faults>> \/ PutMeta(UserOf[r], None)
    BY DEF QueryAnswered, hist
<1>3. /\ req' \in [Requests -> ReqType]
      /\ load' \in [Requests -> [Purposes -> LoadType]]
      /\ \A q \in Requests : Sound(q)'
    BY <1>2, AnsweredKeeps
<1>4. /\ kvMeta' \in [Users -> MetaType] /\ faults' \in Nat
      /\ oldMeta' \in [Users -> SUBSET Versions]
      /\ \A w \in Users : kvMeta'[w] \in {None, kvMeta[w]}
    BY <1>1, <1>2, Constants, PutMetaEffect DEF Typed
<1>5. Typed'
    BY <1>1, <1>2, <1>3, <1>4 DEF Typed
<1>6. Copies'
    BY <1>1, <1>2, <1>4 DEF Copies, Kept, NotBefore
<1>7. (\A i \in Isolates : Held(i)') /\ Undisturbed'
    BY <1>1, <1>2, HeldUntouched, Busy, UndisturbedFrame
<1>8. QED
    BY <1>3, <1>5, <1>6, <1>7 DEF CacheInv

-----------------------------------------------------------------------------
(* acumatica_clear_cache.                                                  *)

LEMMA ClearStartKeeps == ASSUME CacheInv, ClearStart PROVE CacheInv'
<1>1. Typed /\ (\A q \in Requests : Sound(q)) /\ (\A j \in Isolates : Held(j)) /\ Copies
    BY DEF CacheInv
<1>2. UNCHANGED <<now, design, kvReg, kvMeta, oldReg, oldMeta, req, load, faults, floor>> /\ clears' \in Nat
    BY <1>1 DEF ClearStart, kv, Typed
<1>3. PICK i \in Isolates :
         /\ ResetMemo(i)
         /\ \/ clear' = NoClear
            \/ clear' = [NoClear EXCEPT !.pc = "list", !.iso = i, !.clean = (Active = {})]
    BY DEF ClearStart
<1>4. /\ memo' \in [Isolates -> MemoType] /\ memo'[i] = NoMemo
      /\ \A j \in Isolates \ {i} : memo'[j] = memo[j]
    BY <1>1, <1>3, Constants DEF ResetMemo, Typed
<1>5. missed' \subseteq missed /\ missed \ {i} \subseteq missed'
    BY <1>3 DEF ResetMemo
<1>6. NoMemo.reg = NoReg /\ NoMemo.attempted = FALSE
    BY DEF NoMemo
<1>7. ASSUME NEW q \in Requests
      PROVE  Sound(q)'
  <2>1. req[q].pc \in {"build", "query", "get"} /\ req[q].iso \in missed => req[q].iso \in missed'
    <3>1. CASE req[q].iso = i /\ req[q].pc \in {"build", "query", "get"}
      <4>1. q \in Active
          BY <3>1, Busy
      <4>2. missed' = missed
          BY <1>3, <3>1, <4>1 DEF ResetMemo
      <4>3. QED
          BY <4>2
    <3>2. CASE req[q].iso # i
        BY <1>5, <3>2
    <3>3. QED
        BY <3>1, <3>2
  <2>2. QED
      BY <1>1, <1>2, <2>1 DEF Sound, Kept, NotBefore
<1>8. ASSUME NEW j \in Isolates
      PROVE  Held(j)'
  <2>1. CASE j = i
      BY <1>1, <1>2, <1>4, <1>6, <2>1 DEF Held, Kept
  <2>2. CASE j # i
      BY <1>1, <1>2, <1>4, <1>5, <2>2 DEF Held, Kept, NotBefore
  <2>3. QED
      BY <2>1, <2>2
<1>9. clear' \in ClearType
    BY <1>3, Constants DEF NoClear, ClearType
<1>10. \A j \in Isolates : memo'[j].reg # NoReg => memo'[j].attempted
    BY <1>1, <1>4, <1>6 DEF Typed
<1>11. Typed'
    BY <1>1, <1>2, <1>4, <1>5, <1>9, <1>10 DEF Typed
<1>12. Undisturbed'
  <2>1. CASE clear' = NoClear
      BY <2>1 DEF Undisturbed, NoClear
  <2>2. CASE clear' = [NoClear EXCEPT !.pc = "list", !.iso = i, !.clean = (Active = {})]
    <3>1. clear'.pc = "list" /\ clear'.iso = i /\ (clear'.clean => Active = {})
        BY <2>2 DEF NoClear
    <3>2. Active' = Active
        BY <1>2 DEF Active, Loading
    <3>3. QED
        BY <1>4, <3>1, <3>2 DEF Undisturbed
  <2>3. QED
      BY <1>3, <2>1, <2>2
<1>13. QED
    BY <1>1, <1>2, <1>7, <1>8, <1>11, <1>12, CopiesUntouched DEF CacheInv

LEMMA ClearListKeeps == ASSUME CacheInv, ClearList PROVE CacheInv'
<1>1. Typed /\ (\A q \in Requests : Sound(q)) /\ Copies /\ Undisturbed
    BY DEF CacheInv
<1>2. UNCHANGED <<now, design, memo, kvReg, kvMeta, oldReg, oldMeta, req, load, clears, missed, floor>>
    BY DEF ClearList, caches, kv, hist
<1>3. PICK reg \in BOOLEAN, users \in SUBSET Users :
         /\ Lists(reg, users)
         /\ clear' = [clear EXCEPT !.pc = "delete", !.reg = reg, !.users = users,
               !.clean = /\ clear.clean
                         /\ kvReg # NoReg => reg
                         /\ \A u \in Users : kvMeta[u] # None => u \in users]
  <2>1. Covers("registry") = TRUE /\ Covers("metadata") = TRUE
      BY DEF Covers
  <2>2. PICK reg \in BOOLEAN, users \in SUBSET Users :
           /\ Lists(reg, users)
           /\ clear' = [clear EXCEPT !.pc = "delete",
                 !.reg = reg /\ Covers("registry"),
                 !.users = {u \in users : Covers("metadata")},
                 !.clean = /\ clear.clean
                           /\ kvReg # NoReg => reg
                           /\ \A u \in Users : kvMeta[u] # None => u \in users]
      BY DEF ClearList
  <2>3. (reg /\ Covers("registry")) = reg
      BY <2>1
  <2>4. {u \in users : Covers("metadata")} = users
      BY <2>1
  <2>5. QED
      BY <2>2, <2>3, <2>4
<1>4. /\ clear' \in ClearType /\ clear'.pc = "delete" /\ clear'.reg = reg
      /\ clear'.users = users /\ clear'.iso = clear.iso
      /\ clear'.clean => /\ clear.clean
                         /\ kvReg # NoReg => reg
                         /\ \A u \in Users : kvMeta[u] # None => u \in users
      /\ faults' \in Nat
  <2>1. clear \in ClearType /\ faults' \in Nat
      BY <1>1, <1>3 DEF Lists, Fault, Typed
  <2>2. QED
      BY <1>3, <2>1 DEF ClearType
<1>5. Active' = Active
    BY <1>2 DEF Active, Loading
<1>6. Undisturbed'
    BY <1>1, <1>2, <1>4, <1>5 DEF Undisturbed
<1>7. \A q \in Requests : Sound(q)'
    BY <1>1, <1>2, SoundFrame
<1>8. Typed'
    BY <1>1, <1>2, <1>4 DEF Typed
<1>9. QED
    BY <1>1, <1>2, <1>6, <1>7, <1>8, HeldUntouched, CopiesUntouched DEF CacheInv

(* What every way of ending a clear leaves alone.                          *)
LEMMA DeletedEffect ==
    ASSUME Typed, NEW reg \in BOOLEAN, NEW users \in SUBSET Users, NEW late \in BOOLEAN,
           Deleted(reg, users, late)
    PROVE  /\ UNCHANGED <<now, design, memo, req, load, clears, missed>>
           /\ kvReg' = IF reg THEN NoReg ELSE kvReg
           /\ kvReg' \in RegType /\ oldReg' \subseteq Registry
           /\ kvMeta' \in [Users -> MetaType] /\ oldMeta' \in [Users -> SUBSET Versions]
           /\ \A u \in Users : kvMeta'[u] = IF u \in users THEN None ELSE kvMeta[u]
           /\ clear' \in ClearType /\ clear'.clean = FALSE
<1>1. OlderReg \subseteq Registry /\ \A u \in Users : OlderMeta(u) \in SUBSET Versions
    BY DEF Typed, OlderReg, RegType, OlderMeta, MetaType
<1>2. oldReg' \subseteq Registry
    BY <1>1 DEF Deleted, Typed
<1>3. oldMeta' \in [Users -> SUBSET Versions]
    BY <1>1 DEF Deleted, Typed
<1>4. QED
    BY <1>2, <1>3, Constants DEF Deleted, Typed, NoClear

LEMMA ClearFailsKeeps == ASSUME CacheInv, ClearFails PROVE CacheInv'
<1>1. Typed /\ (\A q \in Requests : Sound(q)) /\ Copies
    BY DEF CacheInv
<1>2. floor' = floor /\ faults' \in Nat
    BY <1>1 DEF ClearFails, Fault, Typed
<1>3. clear.reg \in BOOLEAN /\ clear.users \in SUBSET Users
    BY <1>1 DEF Typed, ClearType
<1>4. PICK reg \in BOOLEAN, users \in SUBSET Users, late \in BOOLEAN :
         Deleted(reg, users, late)
    BY <1>3 DEF ClearFails
<1>5. /\ UNCHANGED <<now, design, memo, req, load, clears, missed>>
      /\ kvReg' \in {NoReg, kvReg} /\ kvReg' \in RegType /\ oldReg' \subseteq Registry
      /\ kvMeta' \in [Users -> MetaType] /\ oldMeta' \in [Users -> SUBSET Versions]
      /\ \A u \in Users : kvMeta'[u] \in {None, kvMeta[u]}
      /\ clear' \in ClearType /\ clear'.clean = FALSE
    BY <1>1, <1>4, DeletedEffect
<1>6. Typed'
    BY <1>1, <1>2, <1>5 DEF Typed
<1>7. Copies'
    BY <1>1, <1>2, <1>5 DEF Copies, Kept, NotBefore
<1>8. \A q \in Requests : Sound(q)'
    BY <1>1, <1>2, <1>5, SoundFrame
<1>9. Undisturbed'
    BY <1>5 DEF Undisturbed
<1>10. QED
    BY <1>2, <1>5, <1>6, <1>7, <1>8, <1>9, HeldUntouched DEF CacheInv

(* A clear nobody disturbed leaves neither copies nor requests that could  *)
(* be older than it.                                                       *)
LEMMA ClearDeleteKeeps == ASSUME CacheInv, ClearDelete PROVE CacheInv'
<1>1. /\ Typed /\ Copies /\ Undisturbed
      /\ \A q \in Requests : Sound(q)
      /\ \A j \in Isolates : Held(j)
    BY DEF CacheInv
<1>2. /\ clear.pc = "delete" /\ faults' \in Nat
      /\ \E late \in BOOLEAN : Deleted(clear.reg, clear.users, late)
      /\ floor' = IF clear.clean THEN [floor EXCEPT ![clear.iso] = design] ELSE floor
  <2>1. \/ Deleted(clear.reg, clear.users, FALSE) /\ UNCHANGED faults
        \/ Deleted(clear.reg, clear.users, TRUE) /\ Fault
      BY Zenon DEF ClearDelete
  <2>2. faults' \in Nat
    <3>1. faults' = faults \/ Fault
        BY <2>1, Zenon
    <3>2. QED
        BY <1>1, <3>1 DEF Fault, Typed
  <2>3. \E late \in BOOLEAN : Deleted(clear.reg, clear.users, late)
      BY <2>1, Zenon
  <2>4. clear.pc = "delete"
      BY DEF ClearDelete
  <2>5. floor' = IF clear.clean THEN [floor EXCEPT ![clear.iso] = design] ELSE floor
      BY Zenon DEF ClearDelete
  <2>6. QED
      BY <2>2, <2>3, <2>4, <2>5
<1>3. clear.reg \in BOOLEAN /\ clear.users \in SUBSET Users
    BY <1>1 DEF Typed, ClearType
<1>4. /\ UNCHANGED <<now, design, memo, req, load, clears, missed>>
      /\ kvReg' = IF clear.reg THEN NoReg ELSE kvReg
      /\ kvReg' \in RegType /\ oldReg' \subseteq Registry
      /\ kvMeta' \in [Users -> MetaType] /\ oldMeta' \in [Users -> SUBSET Versions]
      /\ \A u \in Users : kvMeta'[u] = IF u \in clear.users THEN None ELSE kvMeta[u]
      /\ clear' \in ClearType /\ clear'.clean = FALSE
    BY <1>1, <1>2, <1>3, DeletedEffect
<1>5. floor' \in [Isolates -> Versions]
    BY <1>1, <1>2 DEF Typed
<1>6. Typed'
    BY <1>1, <1>2, <1>4, <1>5 DEF Typed
<1>7. Undisturbed'
    BY <1>4 DEF Undisturbed
<1>8. CASE ~clear.clean
  <2>1. floor' = floor
      BY <1>2, <1>8
  <2>2. Copies'
      BY <1>1, <1>4, <2>1 DEF Copies, Kept, NotBefore
  <2>3. \A q \in Requests : Sound(q)'
      BY <1>1, <1>4, <2>1, SoundFrame
  <2>4. QED
      BY <1>4, <1>6, <1>7, <2>1, <2>2, <2>3, HeldUntouched DEF CacheInv
<1>9. CASE clear.clean
  <2>1. /\ clear.iso \in Isolates /\ Active = {} /\ memo[clear.iso] = NoMemo
        /\ kvReg # NoReg => clear.reg
        /\ \A u \in Users : kvMeta[u] # None => u \in clear.users
      BY <1>1, <1>2, <1>9 DEF Undisturbed
  <2>2. kvReg' = NoReg /\ \A u \in Users : kvMeta'[u] = None
      BY <1>4, <2>1
  <2>3. Copies'
      BY <2>2 DEF Copies, Kept, NotBefore
  <2>4. ASSUME NEW q \in Requests
        PROVE  Sound(q)'
    <3>1. /\ req[q] = NoReq
          /\ \A p \in Purposes : load[q][p].pc \notin {"read", "fetch", "put"}
        BY <1>1, <2>1 DEF Active, Loading, Sound
    <3>2. NoReq.pc = "idle" /\ NoReq.reg = NoReg /\ NoReq.feed = None
        BY DEF NoReq
    <3>3. ASSUME NEW p \in Purposes
          PROVE  load[q][p].pc = "off" /\ load[q][p].meta = None
      <4>1. load[q][p].pc \in {"off", "read", "fetch", "put", "done"}
          BY <1>1 DEF Typed, LoadType
      <4>2. p \in {"build", "query"}
          BY DEF Purposes
      <4>3. load[q][p].pc = "off"
          BY <1>1, <3>1, <3>2, <4>1, <4>2 DEF Sound
      <4>4. QED
          BY <1>1, <4>3 DEF Sound
    <3>4. "build" \in Purposes /\ "query" \in Purposes
        BY DEF Purposes
    <3>5. QED
        BY <1>4, <3>1, <3>2, <3>3, <3>4 DEF Sound, Kept, NotBefore
  <2>5. ASSUME NEW j \in Isolates
        PROVE  Held(j)'
    <3>1. CASE j = clear.iso
      <4>1. floor'[j] = design /\ design \in Int
          BY <1>1, <1>2, <1>9, <2>1, <3>1 DEF Typed, Versions
      <4>2. memo'[j] = NoMemo /\ NoMemo.reg = NoReg /\ NoMemo.attempted = FALSE
          BY <1>4, <2>1, <3>1 DEF NoMemo
      <4>3. QED
          BY <1>4, <4>1, <4>2 DEF Held, Kept
    <3>2. CASE j # clear.iso
      <4>1. floor'[j] = floor[j]
          BY <1>1, <1>2, <1>9, <3>2 DEF Typed
      <4>2. QED
          BY <1>1, <1>4, <4>1 DEF Held, Kept, NotBefore
    <3>3. QED
        BY <3>1, <3>2
  <2>6. QED
      BY <1>6, <1>7, <2>3, <2>4, <2>5 DEF CacheInv
<1>10. QED
    BY <1>8, <1>9

-----------------------------------------------------------------------------
(* The environment.                                                        *)

LEMMA EditKeeps == ASSUME CacheInv, Edit PROVE CacheInv'
<1>1. /\ Typed /\ Copies /\ Undisturbed
      /\ \A q \in Requests : Sound(q)
      /\ \A j \in Isolates : Held(j)
    BY DEF CacheInv
<1>2. UNCHANGED <<now, memo, kvReg, kvMeta, oldReg, oldMeta, req, load, clear, clears, faults, missed, floor>>
    BY DEF Edit, caches, kv, hist
<1>3. design' \in Versions /\ design <= design'
    BY <1>1, ConstantsAssumption DEF Edit, Typed, Versions
<1>4. Active' = Active
    BY <1>2 DEF Active, Loading
<1>5. Typed'
    BY <1>1, <1>2, <1>3 DEF Typed
<1>6. (\A q \in Requests : Sound(q)') /\ (\A j \in Isolates : Held(j)') /\ Copies'
    BY <1>1, <1>2, <1>3, SoundFrame, HeldFrame, CopiesUntouched
<1>7. Undisturbed'
    BY <1>1, <1>2, <1>4 DEF Undisturbed
<1>8. QED
    BY <1>5, <1>6, <1>7 DEF CacheInv

LEMMA TickKeeps == ASSUME CacheInv, Tick PROVE CacheInv'
<1>1. Typed /\ Copies /\ Undisturbed /\ \A q \in Requests : Sound(q)
    BY DEF CacheInv
<1>2. /\ UNCHANGED <<design, memo, kvReg, req, load, clear, clears, faults, missed, floor>>
      /\ now' = now + 1 /\ kvMeta' = [u \in Users |-> None]
      /\ oldReg' = {} /\ oldMeta' = [u \in Users |-> {}]
    BY DEF Tick, hist
<1>3. Typed'
    BY <1>1, <1>2, Constants DEF Typed
<1>4. Copies'
    BY <1>1, <1>2 DEF Copies, Kept, NotBefore
<1>5. Active' = Active
    BY <1>2 DEF Active, Loading
<1>6. Undisturbed'
    BY <1>1, <1>2, <1>5 DEF Undisturbed
<1>7. \A q \in Requests : Sound(q)'
    BY <1>1, <1>2, SoundFrame
<1>8. QED
    BY <1>2, <1>3, <1>4, <1>6, <1>7, HeldUntouched DEF CacheInv

LEMMA IsolateDiesKeeps ==
    ASSUME CacheInv, NEW i \in Isolates, IsolateDies(i) PROVE CacheInv'
<1>1. /\ Typed /\ Copies /\ Undisturbed
      /\ \A q \in Requests : Sound(q)
      /\ \A j \in Isolates : Held(j)
    BY DEF CacheInv
<1>2. /\ UNCHANGED <<now, design, kvReg, kvMeta, oldReg, oldMeta, clears, floor>>
      /\ memo' = [memo EXCEPT ![i] = NoMemo]
      /\ req' = [r \in Requests |-> IF req[r].iso = i THEN NoReq ELSE req[r]]
      /\ load' = [r \in Requests |-> IF req[r].iso = i
                                     THEN [p \in Purposes |-> NoLoad] ELSE load[r]]
      /\ clear' = IF clear.iso = i THEN NoClear ELSE clear
      /\ missed' = missed \ {i}
    BY DEF IsolateDies, kv
<1>3. faults' \in Nat
    BY <1>1 DEF IsolateDies, Fault, Typed
<1>4. /\ memo' \in [Isolates -> MemoType] /\ memo'[i] = NoMemo
      /\ \A j \in Isolates \ {i} : memo'[j] = memo[j]
    BY <1>1, <1>2, Constants DEF Typed
<1>5. NoMemo.reg = NoReg /\ NoMemo.attempted = FALSE
    BY DEF NoMemo
<1>6. req' \in [Requests -> ReqType] /\ load' \in [Requests -> [Purposes -> LoadType]]
    BY <1>1, <1>2, Constants DEF Typed
<1>7. \A j \in Isolates : memo'[j].reg # NoReg => memo'[j].attempted
    BY <1>1, <1>4, <1>5 DEF Typed
<1>8. clear' \in ClearType
    BY <1>1, <1>2, Constants DEF Typed
<1>9. Typed'
    BY <1>1, <1>2, <1>3, <1>4, <1>6, <1>7, <1>8 DEF Typed
<1>10. ASSUME NEW q \in Requests
       PROVE  Sound(q)'
  <2>1. CASE req[q].iso = i
    <3>1. req'[q] = NoReq /\ \A p \in Purposes : load'[q][p] = NoLoad
        BY <1>2, <2>1
    <3>2. /\ NoReq.pc = "idle" /\ NoReq.reg = NoReg /\ NoReq.feed = None
          /\ NoLoad.pc = "off" /\ NoLoad.meta = None
        BY DEF NoReq, NoLoad
    <3>3. "build" \in Purposes /\ "query" \in Purposes
        BY DEF Purposes
    <3>4. QED
        BY <3>1, <3>2, <3>3 DEF Sound, Kept, NotBefore
  <2>2. CASE req[q].iso # i
    <3>1. req'[q] = req[q] /\ load'[q] = load[q]
        BY <1>2, <2>2
    <3>2. QED
        BY <1>1, <1>2, <2>2, <3>1 DEF Sound, Kept, NotBefore
  <2>3. QED
      BY <2>1, <2>2
<1>11. ASSUME NEW j \in Isolates
       PROVE  Held(j)'
  <2>1. CASE j = i
      BY <1>1, <1>2, <1>4, <1>5, <2>1 DEF Held, Kept
  <2>2. CASE j # i
      BY <1>1, <1>2, <1>4, <2>2 DEF Held, Kept, NotBefore
  <2>3. QED
      BY <2>1, <2>2
<1>12. Undisturbed'
  <2>1. CASE clear.iso = i
      BY <1>2, <2>1 DEF Undisturbed, NoClear
  <2>2. CASE clear.iso # i
    <3>1. SUFFICES ASSUME clear.clean PROVE Undisturbed'
        BY <1>2, <2>2 DEF Undisturbed
    <3>2. /\ clear' = clear /\ Active = {}
          /\ clear.iso \in Isolates /\ memo[clear.iso] = NoMemo
        BY <1>1, <1>2, <2>2, <3>1 DEF Undisturbed
    <3>3. memo'[clear.iso] = NoMemo
        BY <1>4, <2>2, <3>2
    <3>4. Active' = {}
      <4> SUFFICES ASSUME NEW q \in Requests
                   PROVE  req'[q].pc = "idle" /\ ~Loading(q)'
          BY DEF Active
      <4>1. req[q].pc = "idle" /\ ~Loading(q)
          BY <3>2 DEF Active
      <4>2. NoReq.pc = "idle" /\ NoLoad.pc = "off"
          BY DEF NoReq, NoLoad
      <4>3. QED
          BY <1>2, <4>1, <4>2 DEF Loading
    <3>5. QED
        BY <1>1, <1>2, <3>2, <3>3, <3>4 DEF Undisturbed
  <2>3. QED
      BY <2>1, <2>2
<1>13. QED
    BY <1>1, <1>2, <1>9, <1>10, <1>11, <1>12, CopiesUntouched DEF CacheInv

-----------------------------------------------------------------------------
LEMMA CacheInit == Init => CacheInv
<1> SUFFICES ASSUME Init PROVE CacheInv
    OBVIOUS
<1> USE ConstantsAssumption DEF Init
<1>1. 0 \in Versions /\ 0 \in MetaType
    BY DEF Versions, MetaType
<1>2. kvReg \in RegType /\ (kvReg # NoReg => kvReg.feed = 0 /\ kvReg.meta = 0)
    BY <1>1, Constants DEF RegType, Registry, MetaType
<1>3. /\ NoReq.pc = "idle" /\ NoReq.reg = NoReg /\ NoReq.feed = None
      /\ NoLoad.pc = "off" /\ NoLoad.meta = None
      /\ NoMemo.reg = NoReg /\ NoMemo.attempted = FALSE
    BY DEF NoReq, NoLoad, NoMemo
<1>4. Typed
    BY <1>1, <1>2, <1>3, Constants DEF Typed
<1>5. ASSUME NEW r \in Requests
      PROVE  Sound(r)
  <2>1. "build" \in Purposes /\ "query" \in Purposes
      BY DEF Purposes
  <2>2. QED
      BY <1>3, <2>1 DEF Sound, Kept, NotBefore
<1>6. \A i \in Isolates : Held(i)
    BY <1>3 DEF Held, Kept
<1>7. Copies
    BY <1>2 DEF Copies, Kept, NotBefore
<1>8. Undisturbed
    BY DEF Undisturbed, NoClear
<1>9. QED
    BY <1>4, <1>5, <1>6, <1>7, <1>8 DEF CacheInv

LEMMA CacheNext == CacheInv /\ [Next]_vars => CacheInv'
<1> SUFFICES ASSUME CacheInv, [Next]_vars PROVE CacheInv'
    OBVIOUS
<1>1. ASSUME NEW r \in Requests, RegistryStep(r) PROVE CacheInv'
    BY <1>1, ReadRegistryKeeps, FetchFeedsKeeps, BuildFailsKeeps, BuildSucceedsKeeps
       DEF RegistryStep
<1>2. ASSUME NEW r \in Requests, MetaStep(r) PROVE CacheInv'
    BY <1>2, ReadMetaKeeps, FetchMetaKeeps, StoreMetaKeeps DEF MetaStep
<1>3. ASSUME NEW r \in Requests, QueryStep(r) PROVE CacheInv'
    BY <1>3, RefuseQueryKeeps, SendQueryKeeps, QueryAnsweredKeeps DEF QueryStep
<1>4. CASE UNCHANGED vars
    BY <1>4 DEF vars, caches, kv, hist, CacheInv, Typed, Sound, Held, Copies, Undisturbed,
                Kept, NotBefore, Active, Loading
<1>5. QED
    BY <1>1, <1>2, <1>3, <1>4, EnterKeeps, ClearStartKeeps, ClearListKeeps, ClearDeleteKeeps,
       ClearFailsKeeps, EditKeeps, TickKeeps, IsolateDiesKeeps DEF Next

LEMMA CacheAlways == Spec => []CacheInv
    BY CacheInit, CacheNext, PTL DEF Spec

(* Every variable of the caches keeps its type.                            *)
THEOREM CacheTypeCorrect == Spec => []TypeOK
<1>1. CacheInv => TypeOK
    BY TypedIsTypeOK DEF CacheInv
<1>2. QED
    BY <1>1, CacheAlways, PTL

(* After an undisturbed clear in an isolate, whose listing missed no key,  *)
(* its queries are gated and routed by what Acumatica showed no earlier    *)
(* than the clear, whatever other isolates remember and store, and         *)
(* whichever accesses fail, until KV answers a read of the isolate, or of  *)
(* a build, with what the key held before its last write.                  *)
THEOREM ClearTakesEffectAlways == Spec => []ClearTakesEffect
<1>1. CacheInv => ClearTakesEffect
  <2> SUFFICES ASSUME CacheInv, NEW r \in Requests, req[r].pc = "get"
               PROVE  /\ load[r]["query"].meta >= floor[req[r].iso]
                      /\ req[r].reg # NoReg =>
                           /\ req[r].reg.feed >= floor[req[r].iso]
                           /\ req[r].reg.meta = None \/ req[r].reg.meta >= floor[req[r].iso]
      BY DEF ClearTakesEffect
  <2>1. "query" \in Purposes
      BY DEF Purposes
  <2>2. QED
      BY <2>1 DEF CacheInv, Sound, Kept, NotBefore
<1>2. QED
    BY <1>1, CacheAlways, PTL

(* A failed rebuild alone never opens the gate: a query that passes with   *)
(* no registry runs where KV was found without one.                        *)
THEOREM UngatedOnlyAfterMissAlways == Spec => []UngatedOnlyAfterMiss
<1>1. CacheInv => UngatedOnlyAfterMiss
    BY DEF CacheInv, Sound, UngatedOnlyAfterMiss
<1>2. QED
    BY <1>1, CacheAlways, PTL
=============================================================================
