--------------------------- MODULE GiRegistryCache ---------------------------
(***************************************************************************)
(* The registry of generic inquiries (GIs), built from whoever's token is  *)
(* in hand and cached in KV and in each isolate                            *)
(* (src/src/lib/gi-registry-build.ts), the cached OData $metadata          *)
(* (lib/gi-metadata.ts), acumatica_clear_cache (tools/clear-cache.ts), and *)
(* acumatica_run_inquiry, whose gate and routing read both caches          *)
(* (tools/generic-inquiries.ts).                                           *)
(*                                                                         *)
(* The GI designs in Acumatica have versions; one GI is looked at, which   *)
(* is exposed, and takes parameters, in some of them.                      *)
(***************************************************************************)
EXTENDS Integers, FiniteSets

CONSTANTS
    Requests,     \* callers of acumatica_run_inquiry, each may repeat
    Users,        \* owners of $metadata copies
    UserOf,       \* UserOf[r]: whose request r is
    Isolates,
    Exposed,      \* design versions in which the GI is exposed
    Parametric,   \* design versions in which it takes parameters
    Fresh,        \* REGISTRY_FRESH_SECONDS and the $metadata TTL, in ticks
    MaxDesign,    \* bound: edits of the designs
    MaxNow,       \* bound: ticks of the clock
    MaxClears,    \* bound: calls of acumatica_clear_cache
    MaxFaults     \* bound: failed or late KV accesses, isolates that die

ASSUME ConstantsAssumption ==
    /\ IsFiniteSet(Requests) /\ UserOf \in [Requests -> Users]
    /\ Fresh \in Nat \ {0} /\ MaxDesign \in Nat /\ MaxNow \in Nat
    /\ MaxClears \in Nat /\ MaxFaults \in Nat

VARIABLES
    now,          \* the clock
    design,       \* current version of the designs in Acumatica
    memo,         \* memo[i]: what isolate i remembers
    kvReg,        \* KV cache:gi_registry
    kvMeta,       \* kvMeta[u]: KV cache:gi_metadata:{u}
    oldReg,       \* what a late read may still return for the registry,
    oldMeta,      \* oldMeta[u]: and for the copy of u
    req,          \* req[r]: where request r stands
    load,         \* load[r][p]: its $metadata load for purpose p
    clear,        \* the acumatica_clear_cache that is running
    clears,       \* how many there have been
    faults,       \* faults injected so far
    missed,       \* history: isolates where a KV read has found no registry
    floor         \* history: design at the last undisturbed clear in isolate
                  \* i, 0 once KV has answered it with an older copy since

kv     == <<kvReg, kvMeta, oldReg, oldMeta>>
caches == <<memo, kv>>
hist   == <<missed, floor>>
vars   == <<now, design, caches, req, load, clear, clears, faults, hist>>

-----------------------------------------------------------------------------
Versions == 0..MaxDesign
None     == -1
Purposes == {"build", "query"}

(* GiRegistry: the versions its feeds and its $metadata were read at (None *)
(* if $metadata was not available), and builtAt.                           *)
Registry == [feed: Versions, meta: Versions \union {None}, built: Nat]
NoReg    == [feed |-> None, meta |-> None, built |-> None]

NoMemo  == [attempted |-> FALSE, reg |-> NoReg]
NoReq   == [pc |-> "idle", iso |-> None, reg |-> NoReg, feed |-> None]
NoLoad  == [pc |-> "off", meta |-> None]
Started == [pc |-> "read", meta |-> None]
Loaded(v) == [pc |-> "done", meta |-> v]
NoClear == [pc |-> "idle", iso |-> None, reg |-> FALSE, users |-> {},
            clean |-> FALSE]

Loading(r) == \E p \in Purposes : load[r][p].pc \in {"read", "fetch", "put"}
Active     == {r \in Requests : req[r].pc # "idle" \/ Loading(r)}

TypeOK ==
    /\ now \in Nat /\ design \in Versions
    /\ clears \in Nat /\ faults \in Nat
    /\ memo \in [Isolates -> [attempted: BOOLEAN, reg: Registry \union {NoReg}]]
    /\ \A i \in Isolates : memo[i].reg # NoReg => memo[i].attempted
    /\ kvReg \in Registry \union {NoReg}
    /\ kvMeta \in [Users -> Versions \union {None}]
    /\ oldReg \subseteq Registry /\ oldMeta \in [Users -> SUBSET Versions]
    /\ req \in [Requests ->
         [pc: {"idle", "registry", "build", "query", "get"},
          iso: Isolates \union {None}, reg: Registry \union {NoReg},
          feed: Versions \union {None}]]
    /\ load \in [Requests -> [Purposes ->
         [pc: {"off", "read", "fetch", "put", "done"},
          meta: Versions \union {None}]]]
    /\ clear \in [pc: {"idle", "list", "delete"}, iso: Isolates \union {None},
                  reg: BOOLEAN, users: SUBSET Users, clean: BOOLEAN]
    /\ missed \subseteq Isolates /\ floor \in [Isolates -> Versions]

(* A deployment whose registry may have been built before.                 *)
Init ==
    /\ now = 0 /\ design = 0 /\ clears = 0 /\ faults = 0
    /\ memo = [i \in Isolates |-> NoMemo]
    /\ kvReg \in {NoReg, [feed |-> 0, meta |-> 0, built |-> 0]}
    /\ kvMeta = [u \in Users |-> None]
    /\ oldReg = {} /\ oldMeta = [u \in Users |-> {}]
    /\ req = [r \in Requests |-> NoReq]
    /\ load = [r \in Requests |-> [p \in Purposes |-> NoLoad]]
    /\ clear = NoClear
    /\ missed = {} /\ floor = [i \in Isolates |-> 0]

-----------------------------------------------------------------------------
(* Helpers.                                                                *)

Fault == faults < MaxFaults /\ faults' = faults + 1

(* getCached: what KV holds, or what it held before a write that is late;  *)
(* a read that fails, or that does not find a new key yet, is a miss.      *)
Cached(current, old, miss, got) ==
    \/ got = current /\ UNCHANGED faults
    \/ got \in old /\ UNCHANGED faults
    \/ got = miss /\ current # miss /\ Fault

(* A put or a delete: no reader gets the older copies any more, or it is   *)
(* late, and reads may return them until the clock ticks.                  *)
Replaced(older, old) ==
    \/ old = {} /\ UNCHANGED faults
    \/ old = older /\ older # {} /\ Fault

OlderReg     == (oldReg \union {kvReg}) \ {NoReg}
OlderMeta(u) == (oldMeta[u] \union {kvMeta[u]}) \ {None}

(* setCached: a write that fails is swallowed.                             *)
PutReg(g) ==
    \/ /\ kvReg' = g
       /\ \E old \in {{}, OlderReg} : oldReg' = old /\ Replaced(OlderReg, old)
    \/ UNCHANGED <<kvReg, oldReg>> /\ Fault
PutMeta(u, v) ==
    \/ /\ kvMeta' = [kvMeta EXCEPT ![u] = v]
       /\ \E old \in {{}, OlderMeta(u)} :
            oldMeta' = [oldMeta EXCEPT ![u] = old] /\ Replaced(OlderMeta(u), old)
    \/ UNCHANGED <<kvMeta, oldMeta>> /\ Fault

IsFresh(g) == now - g.built < Fresh

(* checkGiGate, right after getGiRegistry has returned: no registry, no    *)
(* gate.  A query that passes loads $metadata; a load that a failed build  *)
(* has left behind goes on.                                                *)
Allowed(g) == g = NoReg \/ g.feed \in Exposed

Gate(r, i, g) ==
    /\ req' = [req EXCEPT ![r] =
          IF Allowed(g) THEN [pc |-> "query", iso |-> i, reg |-> g, feed |-> None]
          ELSE NoReq]
    /\ load' = [load EXCEPT
          ![r]["build"] = IF @.pc = "done" THEN NoLoad ELSE @,
          ![r]["query"] = IF Allowed(g) THEN Started ELSE NoLoad]

(* The memo is set, and getGiRegistry returns; the mutant forgets to mark  *)
(* the memo as attempted.                                                  *)
SettleUnmarked(r, g) ==
    /\ memo' = [memo EXCEPT ![req[r].iso].reg = g]
    /\ Gate(r, req[r].iso, g)

Settle(r, g) ==
    /\ memo' = [memo EXCEPT ![req[r].iso] = [attempted |-> TRUE, reg |-> g]]
    /\ Gate(r, req[r].iso, g)

Answered(r) ==
    /\ req' = [req EXCEPT ![r] = NoReq]
    /\ load' = [load EXCEPT ![r]["query"] = NoLoad]

-----------------------------------------------------------------------------
(* getGiRegistry.                                                          *)

Enter(r) ==
    /\ req[r].pc = "idle" /\ ~Loading(r)
    /\ \E i \in Isolates :
         \/ /\ memo[i].attempted
            /\ Gate(r, i, memo[i].reg)
         \/ /\ ~memo[i].attempted
            /\ req' = [req EXCEPT ![r] = [NoReq EXCEPT !.pc = "registry", !.iso = i]]
            /\ UNCHANGED load
    /\ clear' = [clear EXCEPT !.clean = FALSE]
    /\ UNCHANGED <<now, design, caches, clears, faults, hist>>

ReadRegistry(r) ==
    LET i == req[r].iso
    IN  /\ req[r].pc = "registry"
        /\ \E g \in {kvReg, NoReg} \union oldReg :
             /\ Cached(kvReg, oldReg, NoReg, g)
             /\ floor' = IF g \in {kvReg, NoReg} THEN floor ELSE [floor EXCEPT ![i] = 0]
             /\ \/ /\ g # NoReg /\ IsFresh(g)
                   /\ Settle(r, g)
                   /\ UNCHANGED missed
                \/ /\ g = NoReg \/ ~IsFresh(g)
                   /\ req' = [req EXCEPT ![r].pc = "build", ![r].reg = g]
                   /\ load' = [load EXCEPT ![r]["build"] = Started]
                   /\ missed' = IF g = NoReg THEN missed \union {i} ELSE missed
                   /\ UNCHANGED memo
        /\ UNCHANGED <<now, design, kv, clear, clears>>

(* buildRegistry: the feeds and $metadata are read in parallel.            *)
FetchFeeds(r) ==
    /\ req[r].pc = "build" /\ req[r].feed = None
    /\ req' = [req EXCEPT ![r].feed = design]
    /\ UNCHANGED <<now, design, caches, load, clear, clears, faults, hist>>

(* A feed cannot be read: the build fails at once, though its $metadata    *)
(* load goes on.  The mutant forgets the last-good registry.               *)
BuildFailsBare(r) ==
    /\ req[r].pc = "build" /\ req[r].feed = None
    /\ Settle(r, NoReg)
    /\ UNCHANGED <<now, design, kv, clear, clears, faults, hist>>

BuildFails(r) ==
    /\ req[r].pc = "build" /\ req[r].feed = None
    /\ Settle(r, req[r].reg)
    /\ UNCHANGED <<now, design, kv, clear, clears, faults, hist>>

(* The registry is assembled, stored and remembered.  The two awaits in    *)
(* between read nothing it depends on, and a clear that falls there leaves *)
(* what one does whose reset comes before this step and its delete after.  *)
BuildSucceeds(r) ==
    LET built == [feed |-> req[r].feed, meta |-> load[r]["build"].meta, built |-> now]
    IN  /\ req[r].pc = "build" /\ req[r].feed # None /\ load[r]["build"].pc = "done"
        /\ PutReg(built)
        /\ Settle(r, built)
        /\ UNCHANGED <<now, design, kvMeta, oldMeta, clear, clears, hist>>

-----------------------------------------------------------------------------
(* loadGiMetadata, for a build or for a query.                             *)

LoadIs(r, p, l) ==
    load' = [load EXCEPT ![r][p] =
               IF l.pc = "done" /\ p = "build" /\ req[r].pc # "build" THEN NoLoad ELSE l]

ReadMeta(r, p) ==
    LET current == kvMeta[UserOf[r]]
    IN  /\ load[r][p].pc = "read"
        /\ \E v \in Versions \union {None} :
             /\ Cached(current, oldMeta[UserOf[r]], None, v)
             /\ LoadIs(r, p, IF v # None THEN Loaded(v) ELSE [pc |-> "fetch", meta |-> None])
             /\ floor' = [i \in Isolates |->
                   IF v \notin {current, None} /\ (p = "build" \/ i = req[r].iso)
                   THEN 0 ELSE floor[i]]
        /\ UNCHANGED <<now, design, caches, req, clear, clears, missed>>

(* getODataMetadata answers, or fails and is taken as "not available".     *)
FetchMeta(r, p) ==
    /\ load[r][p].pc = "fetch"
    /\ LoadIs(r, p, [pc |-> "put", meta |-> design]) \/ LoadIs(r, p, Loaded(None))
    /\ UNCHANGED <<now, design, caches, req, clear, clears, faults, hist>>

StoreMeta(r, p) ==
    /\ load[r][p].pc = "put"
    /\ PutMeta(UserOf[r], load[r][p].meta)
    /\ LoadIs(r, p, Loaded(load[r][p].meta))
    /\ UNCHANGED <<now, design, memo, kvReg, oldReg, req, clear, clears, hist>>

-----------------------------------------------------------------------------
(* handleRunInquiry, after the gate.                                       *)

(* resolveGiRouting: a GI with parameters goes to its function, one that   *)
(* $metadata and the registry know without to its entity set.              *)
Takes(v) == v # None /\ v \in Parametric
Route(g, v) ==
    IF v = None THEN "refuse"
    ELSE IF Takes(v) THEN "function"
    ELSE IF Takes(g.meta) THEN "refuse"
    ELSE "plain"

(* Refused by the routing, or for its own arguments.                       *)
RefuseQuery(r) ==
    /\ req[r].pc = "query" /\ load[r]["query"].pc = "done"
    /\ Answered(r)
    /\ UNCHANGED <<now, design, caches, clear, clears, faults, hist>>

SendQuery(r) ==
    /\ req[r].pc = "query" /\ load[r]["query"].pc = "done"
    /\ Route(req[r].reg, load[r]["query"].meta) # "refuse"
    /\ req' = [req EXCEPT ![r].pc = "get"]
    /\ UNCHANGED <<now, design, caches, load, clear, clears, faults, hist>>

(* Rows or an error.  A function call that gets a 404 forgets $metadata.   *)
QueryAnswered(r) ==
    /\ req[r].pc = "get"
    /\ Answered(r)
    /\ \/ UNCHANGED <<kvMeta, oldMeta, faults>>
       \/ /\ Takes(load[r]["query"].meta) /\ load[r]["query"].meta # design
          /\ PutMeta(UserOf[r], None)
    /\ UNCHANGED <<now, design, memo, kvReg, oldReg, clear, clears, hist>>

-----------------------------------------------------------------------------
(* acumatica_clear_cache.                                                  *)

(* matchesClearTarget, of target "gi" or none; the mutant knows only the   *)
(* shared key of $metadata.                                                *)
CoversSharedMeta(key) == key = "registry"
Covers(key) == key \in {"registry", "metadata"}

(* resetGiRegistryMemo; the mutant keeps what was remembered.              *)
ResetMemoNot(i) == UNCHANGED <<memo, missed>>
ResetMemo(i) ==
    /\ memo' = [memo EXCEPT ![i] = NoMemo]
    /\ missed' = IF \E r \in Active : req[r].iso = i THEN missed ELSE missed \ {i}

(* Target "schemas" touches nothing here, and "gi" and none do the same;   *)
(* "gi_registry" is no known target: the memo is reset, nothing deleted.   *)
ClearStart ==
    /\ clear.pc = "idle" /\ clears < MaxClears
    /\ clears' = clears + 1
    /\ \E i \in Isolates, target \in {"gi", "gi_registry"} :
         /\ ResetMemo(i)
         /\ clear' = IF target = "gi_registry" THEN NoClear
                     ELSE [NoClear EXCEPT !.pc = "list", !.iso = i, !.clean = Active = {}]
    /\ UNCHANGED <<now, design, kv, req, load, faults, floor>>

(* kv.list: what KV holds; a late listing may miss a key just put, or give *)
(* one just deleted.                                                       *)
Lists(reg, users) ==
    \/ /\ reg = (kvReg # NoReg) /\ users = {u \in Users : kvMeta[u] # None}
       /\ UNCHANGED faults
    \/ /\ reg => OlderReg # {}
       /\ \A u \in users : OlderMeta(u) # {}
       /\ Fault

ClearList ==
    /\ clear.pc = "list"
    /\ \E reg \in BOOLEAN, users \in SUBSET Users :
         /\ Lists(reg, users)
         /\ clear' = [clear EXCEPT !.pc = "delete",
               !.reg = reg /\ Covers("registry"),
               !.users = {u \in users : Covers("metadata")},
               !.clean = /\ clear.clean
                         /\ kvReg # NoReg => reg
                         /\ \A u \in Users : kvMeta[u] # None => u \in users]
    /\ UNCHANGED <<now, design, caches, req, load, clears, hist>>

Deleted(reg, users, late) ==
    /\ kvReg' = IF reg THEN NoReg ELSE kvReg
    /\ oldReg' = IF ~reg THEN oldReg ELSE IF late THEN OlderReg ELSE {}
    /\ kvMeta' = [u \in Users |-> IF u \in users THEN None ELSE kvMeta[u]]
    /\ oldMeta' = [u \in Users |->
          IF u \notin users THEN oldMeta[u]
          ELSE IF late THEN OlderMeta(u) ELSE {}]
    /\ clear' = NoClear
    /\ UNCHANGED <<now, design, memo, req, load, clears, missed>>

ClearDelete ==
    /\ clear.pc = "delete"
    /\ \/ Deleted(clear.reg, clear.users, FALSE) /\ UNCHANGED faults
       \/ Deleted(clear.reg, clear.users, TRUE) /\ Fault
    /\ floor' = IF clear.clean THEN [floor EXCEPT ![clear.iso] = design] ELSE floor

(* KV fails under list or delete: the call throws, with some keys deleted. *)
ClearFails ==
    /\ clear.pc # "idle" /\ Fault
    /\ \E reg \in {FALSE, clear.reg}, users \in SUBSET clear.users, late \in BOOLEAN :
         Deleted(reg, users, late)
    /\ UNCHANGED floor

-----------------------------------------------------------------------------
(* The environment.                                                        *)

Edit ==
    /\ design < MaxDesign
    /\ design' = design + 1
    /\ UNCHANGED <<now, caches, req, load, clear, clears, faults, hist>>

(* A tick is long against a request and against what KV lags, and as long  *)
(* as a $metadata copy lives.                                              *)
Tick ==
    /\ now < MaxNow
    /\ Active = {} /\ clear.pc = "idle"
    /\ now' = now + 1
    /\ kvMeta' = [u \in Users |-> None]
    /\ oldReg' = {} /\ oldMeta' = [u \in Users |-> {}]
    /\ UNCHANGED <<design, memo, kvReg, req, load, clear, clears, faults, hist>>

(* The isolate is discarded, with the requests it runs.                    *)
IsolateDies(i) ==
    /\ Fault
    /\ \A r \in Requests : Loading(r) => req[r].pc # "idle"
    /\ memo' = [memo EXCEPT ![i] = NoMemo]
    /\ req' = [r \in Requests |-> IF req[r].iso = i THEN NoReq ELSE req[r]]
    /\ load' = [r \in Requests |-> IF req[r].iso = i
                                   THEN [p \in Purposes |-> NoLoad] ELSE load[r]]
    /\ clear' = IF clear.iso = i THEN NoClear ELSE clear
    /\ missed' = missed \ {i}
    /\ UNCHANGED <<now, design, kv, clears, floor>>

-----------------------------------------------------------------------------
RegistryStep(r) == ReadRegistry(r) \/ FetchFeeds(r) \/ BuildFails(r) \/ BuildSucceeds(r)
MetaStep(r)     == \E p \in Purposes : ReadMeta(r, p) \/ FetchMeta(r, p) \/ StoreMeta(r, p)
QueryStep(r)    == RefuseQuery(r) \/ SendQuery(r) \/ QueryAnswered(r)

Next ==
    \/ \E r \in Requests : Enter(r) \/ RegistryStep(r) \/ MetaStep(r) \/ QueryStep(r)
    \/ ClearStart \/ ClearList \/ ClearDelete \/ ClearFails
    \/ Edit \/ Tick
    \/ \E i \in Isolates : IsolateDies(i)

Spec == Init /\ [][Next]_vars
-----------------------------------------------------------------------------
(* After a clear that no request disturbed, and whose listing gave every   *)
(* key that KV held, the queries of its isolate are gated by feeds, and    *)
(* routed by $metadata, that are no older than it: whoever built the       *)
(* registry, in whichever isolate, and whichever reads and writes failed.  *)
(* It holds until KV answers a read of the isolate, or of a build, with    *)
(* what it held before the key's last write.  The code breaks more: after  *)
(* such a read, or a listing that misses a key, the clear is without       *)
(* effect for as long as the isolate remembers what it read.               *)
ClearTakesEffect ==
    \A r \in Requests : req[r].pc = "get" =>
        LET reg   == req[r].reg
            since == floor[req[r].iso]
        IN  /\ load[r]["query"].meta >= since
            /\ reg # NoReg =>
                 /\ reg.feed >= since
                 /\ reg.meta = None \/ reg.meta >= since

(* A query passes ungated only in an isolate that has found no registry in *)
(* KV: a failed rebuild alone does not open the gate.                      *)
UngatedOnlyAfterMiss ==
    \A r \in Requests : req[r].pc = "get" /\ req[r].reg = NoReg => req[r].iso \in missed

-----------------------------------------------------------------------------
(* gi-registry.ts:20: "A failed rebuild keeps serving the last-good        *)
(* registry rather than flapping the gate."                                *)
NoFlap ==
    [][\A i \in Isolates :
         memo[i].reg # NoReg /\ memo'[i].attempted => memo'[i].reg # NoReg]_vars
=============================================================================
