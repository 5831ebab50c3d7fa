---------------------------- MODULE TokenManager ----------------------------
(***************************************************************************)
(* The per-user TokenManager Durable Object (src/src/token-manager.ts),    *)
(* together with what it interacts with: the tool calls that ask it for an *)
(* access token and revoke the user's MCP grants when it answers "reauth"  *)
(* (index.ts), the OAuth callback that seeds it after a fresh login        *)
(* (auth/acumatica-auth-handler.ts), the KV backup, and IdentityServer,    *)
(* which rotates a refresh token every time it is redeemed.                *)
(*                                                                         *)
(* One user.  A resolve (the promise held in `inflight') is named after    *)
(* the caller that started it.  Input gates make each storage operation of *)
(* a Durable Object atomic with the code around it; everything awaited     *)
(* elsewhere (KV, IdentityServer, the reply) is a separate step.           *)
(***************************************************************************)
EXTENDS Naturals, FiniteSets

CONSTANTS
    Callers,      \* tool calls of the user's sessions, each may be repeated
    Logins,       \* OAuth logins, each happens at most once
    Life,         \* lifetime of an access token (expires_in), in ticks
    Margin,       \* the 60 s safety margin of resolve, in ticks
    ConsentTTL,   \* how long a consent screen stays valid, in ticks
    MaxTokens,    \* bound: refresh tokens IdentityServer issues
    MaxNow,       \* bound: ticks of the clock
    MaxFaults     \* bound: crashes, lost answers and failed puts

ASSUME ConstantsAssumption ==
    /\ Life \in Nat /\ Margin \in Nat /\ ConsentTTL \in Nat
    /\ MaxTokens \in Nat /\ MaxNow \in Nat /\ MaxFaults \in Nat
    /\ Life > Margin    \* an hour against a minute

VARIABLES
    now,          \* Date.now(), in ticks
    issued, live, \* IdentityServer: tokens issued, refresh tokens it honours
    do,           \* DO storage "token": the authoritative StoredToken
    kv, kvSeen,   \* KV user_token: last value put, values a read may return
    era,          \* which COOKIE_ENCRYPTION_KEY is deployed
    inflight,     \* the coalescing promise: the set of its (at most one) owner
    resolve,      \* resolve[c]: the resolve that caller c started
    call,         \* call[c]: where tool call c stands
    login,        \* login[l]: where the OAuth login l stands
    grants,       \* MCP grants of the user, named after their login
    faults,       \* faults injected so far
    dropped,      \* history: resolves that setToken dropped, still running
    raced         \* history: has setToken ever dropped a resolve

env  == <<now, issued, live, era, faults>>
hist == <<dropped, raced>>
vars == <<now, issued, live, do, kv, kvSeen, era, inflight, resolve, call,
          login, grants, faults, dropped, raced>>

-----------------------------------------------------------------------------
(* StoredToken.  rt names the refresh token (and the access token issued   *)
(* with it); exp is expires_at; real is when the access token truly        *)
(* expires; era is the key its refresh token is encrypted under.           *)

Token   == [rt: Nat, exp: Nat, real: Nat, era: Nat]
NoToken == [rt |-> 0, exp |-> 0, real |-> 0, era |-> 0]

Usable(t) == t.rt \in live /\ t.era = era

IdleResolve == [pc |-> "idle", tok |-> NoToken]
IdleCall    == [pc |-> "idle", on |-> {}, until |-> 0, saw |-> {}]
FreshLogin  == [pc |-> "out", tok |-> NoToken, at |-> 0]
EndedLogin  == [pc |-> "done", tok |-> NoToken, at |-> 0]
Running     == {c \in Callers : resolve[c].pc # "idle"}

ResolveType == [pc: {"idle", "kv", "post", "answer", "put"}, tok: Token]
CallType    == [pc: {"idle", "wait", "ok", "reauth", "revoke"},
                on: SUBSET Callers, until: Nat, saw: SUBSET Logins]
LoginType   == [pc: {"out", "consent", "seed", "grant", "done"}, tok: Token, at: Nat]

Typed ==
    /\ now \in Nat /\ issued \in Nat /\ era \in Nat /\ faults \in Nat
    /\ live \subseteq 1..issued
    /\ do \in Token /\ kv \in Token /\ kvSeen \subseteq Token
    /\ inflight \subseteq Callers
    /\ resolve \in [Callers -> ResolveType]
    /\ call \in [Callers -> CallType]
    /\ login \in [Logins -> LoginType]
    /\ grants \subseteq Logins
    /\ dropped \subseteq Callers /\ raced \in BOOLEAN

(* The types of the state; and `inflight' (token-manager.ts:40-45) is a    *)
(* promise of getAccessToken that has not settled, or nothing.             *)
TypeOK == Typed /\ inflight \subseteq Running

(* A new user, or one connected before the DO existed, whose token is in   *)
(* KV only.                                                                *)
Init ==
    /\ now = 0 /\ era = 0 /\ faults = 0
    /\ \/ grants = {} /\ issued = 0 /\ live = {} /\ kv = NoToken
       \/ /\ \E l \in Logins : grants = {l}
          /\ issued = 1 /\ live = {1}
          /\ kv = [rt |-> 1, exp |-> Life, real |-> Life, era |-> 0]
    /\ do = NoToken /\ kvSeen = {kv}
    /\ inflight = {} /\ dropped = {} /\ raced = FALSE
    /\ resolve = [c \in Callers |-> IdleResolve]
    /\ call = [c \in Callers |-> IdleCall]
    /\ login = [l \in Logins |-> IF l \in grants THEN EndedLogin ELSE FreshLogin]

-----------------------------------------------------------------------------
(* Helpers of the Durable Object.                                          *)

(* Mutants: clearing inflight without the "still this promise" check;      *)
(* answering only the caller that started the resolve.                     *)
SettleAlwaysClears(c, status, until) ==
    /\ resolve' = [resolve EXCEPT ![c] = IdleResolve]
    /\ inflight' = {}
    /\ dropped' = dropped \ {c} /\ UNCHANGED raced
    /\ call' = [d \in Callers |->
                  IF call[d].pc = "wait" /\ c \in call[d].on
                  THEN [IdleCall EXCEPT !.pc = status, !.until = until]
                  ELSE call[d]]

SettleStarterOnly(c, status, until) ==
    /\ resolve' = [resolve EXCEPT ![c] = IdleResolve]
    /\ inflight' = inflight \ {c}
    /\ dropped' = dropped \ {c} /\ UNCHANGED raced
    /\ call' = [call EXCEPT ![c] = [IdleCall EXCEPT !.pc = status, !.until = until]]

(* A promise settles: every caller awaiting it gets the same TokenResult,  *)
(* and `finally' clears inflight if it is still this promise.              *)
Settle(c, status, until) ==
    /\ resolve' = [resolve EXCEPT ![c] = IdleResolve]
    /\ inflight' = inflight \ {c}
    /\ dropped' = dropped \ {c} /\ UNCHANGED raced
    /\ call' = [d \in Callers |->
                  IF call[d].pc = "wait" /\ c \in call[d].on
                  THEN [IdleCall EXCEPT !.pc = status, !.until = until]
                  ELSE call[d]]

KvPut(t) == kv' = t /\ kvSeen' = kvSeen \union {t}

(* Whether readToken may prefer the KV record: it does if that expires     *)
(* later, and of two records stamped in one tick (the code compares        *)
(* milliseconds) either may be the later.                                  *)
MayAdopt(fromDo, fromKv) ==
    /\ fromKv.rt # 0
    /\ fromDo.rt = 0 \/ (fromKv.exp >= fromDo.exp /\ fromKv # fromDo)
MayKeep(fromDo, fromKv) ==
    fromKv.rt = 0 \/ (fromDo.rt # 0 /\ fromDo.exp >= fromKv.exp)

Fault == faults < MaxFaults /\ faults' = faults + 1

-----------------------------------------------------------------------------
(* Tool calls and the resolve they share.                                  *)

(* getAccessToken: join the resolve in flight, or start one, which reads   *)
(* DO storage first.  Only a client that holds a grant gets this far.      *)
Join(c) ==
    /\ inflight # {}
    /\ call' = [call EXCEPT ![c] = [IdleCall EXCEPT !.pc = "wait", !.on = inflight]]
    /\ UNCHANGED <<inflight, resolve>>

StartResolve(c) ==
    /\ inflight = {}
    /\ call' = [call EXCEPT ![c] = [IdleCall EXCEPT !.pc = "wait", !.on = {c}]]
    /\ inflight' = {c}
    /\ resolve' = [resolve EXCEPT ![c] = [pc |-> "kv", tok |-> do]]

(* Mutant: no coalescing, every caller resolves for itself.                *)
GetAccessTokenUnshared(c) ==
    /\ grants # {}
    /\ call[c].pc \in {"idle", "ok"}
    /\ call' = [call EXCEPT ![c] = [IdleCall EXCEPT !.pc = "wait", !.on = {c}]]
    /\ inflight' = {c}
    /\ resolve' = [resolve EXCEPT ![c] = [pc |-> "kv", tok |-> do]]
    /\ UNCHANGED <<env, do, kv, kvSeen, login, grants, hist>>

GetAccessToken(c) ==
    /\ grants # {}
    /\ call[c].pc \in {"idle", "ok"}
    /\ Join(c) \/ StartResolve(c)
    /\ UNCHANGED <<env, do, kv, kvSeen, login, grants, hist>>

(* The rest of readToken and the checks of resolve, up to the POST.  The   *)
(* KV read may be stale; a KV record that wins is adopted into storage.    *)
Adopt(fromKv) == do' = fromKv

(* Mutant: a token is used until the moment it expires.                    *)
ResolveStoredNoMargin(c, stored) ==
    \/ /\ stored.rt = 0
       /\ Settle(c, "reauth", 0)
    \/ /\ stored.rt # 0 /\ stored.exp > now
       /\ Settle(c, "ok", stored.real)
    \/ /\ stored.rt # 0 /\ stored.exp <= now /\ stored.era = era
       /\ resolve' = [resolve EXCEPT ![c] = [pc |-> "post", tok |-> stored]]
       /\ UNCHANGED <<inflight, call, hist>>

ResolveStored(c, stored) ==
    \/ /\ stored.rt = 0
       /\ Settle(c, "reauth", 0)
    \/ /\ stored.rt # 0 /\ stored.exp > now + Margin
       /\ Settle(c, "ok", stored.real)
    \/ /\ stored.rt # 0 /\ stored.exp <= now + Margin /\ stored.era # era
       /\ Settle(c, "reauth", 0)
    \/ /\ stored.rt # 0 /\ stored.exp <= now + Margin /\ stored.era = era
       /\ resolve' = [resolve EXCEPT ![c] = [pc |-> "post", tok |-> stored]]
       /\ UNCHANGED <<inflight, call, hist>>

ReadToken(c) ==
    /\ resolve[c].pc = "kv"
    /\ \E fromKv \in kvSeen :
         LET fromDo == resolve[c].tok
         IN  \/ /\ MayAdopt(fromDo, fromKv)
                /\ Adopt(fromKv)
                /\ ResolveStored(c, fromKv)
             \/ /\ MayKeep(fromDo, fromKv)
                /\ ResolveStored(c, fromDo)
                /\ UNCHANGED do
    /\ UNCHANGED <<env, kv, kvSeen, login, grants>>

(* The KV read fails: storage_read_error, a transient answer.              *)
ReadFails(c) ==
    /\ resolve[c].pc = "kv"
    /\ Fault
    /\ Settle(c, "idle", 0)
    /\ UNCHANGED <<now, issued, live, era, do, kv, kvSeen, login, grants>>

(* Mutant: the rotated token goes to KV only.                              *)
WriteStorageSkipped(c) ==
    /\ resolve[c].pc = "answer" /\ resolve[c].tok.rt # 0
    /\ resolve' = [resolve EXCEPT ![c] =
                     [pc |-> "put", tok |-> [resolve[c].tok EXCEPT !.exp = now + Life]]]
    /\ UNCHANGED <<env, do, kv, kvSeen, inflight, call, login, grants, hist>>

(* refreshAcumaticaToken on success: storage first, then KV.               *)
WriteStorage(c) ==
    /\ resolve[c].pc = "answer" /\ resolve[c].tok.rt # 0
    /\ do' = [resolve[c].tok EXCEPT !.exp = now + Life]
    /\ resolve' = [resolve EXCEPT ![c] =
                     [pc |-> "put", tok |-> [resolve[c].tok EXCEPT !.exp = now + Life]]]
    /\ UNCHANGED <<env, kv, kvSeen, inflight, call, login, grants, hist>>

WriteKv(c) ==
    /\ resolve[c].pc = "put"
    /\ KvPut(resolve[c].tok)
    /\ Settle(c, "ok", resolve[c].tok.real)
    /\ UNCHANGED <<env, do, login, grants>>

(* Mutant: `then' for `finally', so that a rejected promise is kept.       *)
WriteKvFailsKept(c) ==
    /\ resolve[c].pc = "put"
    /\ Fault
    /\ resolve' = [resolve EXCEPT ![c] = IdleResolve]
    /\ call' = [d \in Callers |->
                  IF call[d].pc = "wait" /\ c \in call[d].on THEN IdleCall ELSE call[d]]
    /\ dropped' = dropped \ {c}
    /\ UNCHANGED <<now, issued, live, era, do, kv, kvSeen, inflight, login, grants, raced>>

(* The KV put throws: resolve rejects, the callers see a plain Error.      *)
WriteKvFails(c) ==
    /\ resolve[c].pc = "put"
    /\ Fault
    /\ Settle(c, "idle", 0)
    /\ UNCHANGED <<now, issued, live, era, do, kv, kvSeen, login, grants>>

(* Any 4xx from IdentityServer means the refresh token is dead.            *)
Refused(c) ==
    /\ resolve[c].pc = "answer" /\ resolve[c].tok.rt = 0
    /\ Settle(c, "reauth", 0)
    /\ UNCHANGED <<env, do, kv, kvSeen, login, grants>>

(* callTool on a reauth answer: list the user's grants, then revoke them.  *)
ListUserGrants(c) ==
    /\ call[c].pc = "reauth"
    /\ call' = [call EXCEPT ![c].pc = "revoke", ![c].saw = grants]
    /\ UNCHANGED <<env, do, kv, kvSeen, inflight, resolve, login, grants, hist>>

RevokeGrants(c) ==
    /\ call[c].pc = "revoke"
    /\ grants' = grants \ call[c].saw
    /\ call' = [call EXCEPT ![c] = IdleCall]
    /\ UNCHANGED <<env, do, kv, kvSeen, inflight, resolve, login, hist>>

-----------------------------------------------------------------------------
(* IdentityServer and the network (external).                              *)

(* The refresh token is redeemed: rotated if honoured, a 4xx otherwise.    *)
Redeem(c) ==
    /\ resolve[c].pc = "post"
    /\ LET rt == resolve[c].tok.rt
           new == [rt |-> issued + 1, exp |-> 0, real |-> now + Life, era |-> era]
       IN  \/ /\ rt \in live /\ issued < MaxTokens
              /\ issued' = issued + 1
              /\ live' = (live \ {rt}) \union {issued + 1}
              /\ resolve' = [resolve EXCEPT ![c] = [pc |-> "answer", tok |-> new]]
           \/ /\ rt \notin live
              /\ resolve' = [resolve EXCEPT ![c] = [pc |-> "answer", tok |-> NoToken]]
              /\ UNCHANGED <<issued, live>>
    /\ UNCHANGED <<now, era, faults, do, kv, kvSeen, inflight, call, login, grants, hist>>

(* 5xx, 429 or a network error before the token was redeemed, or the       *)
(* answer is lost after it was: transient either way.                      *)
Unanswered(c) ==
    /\ resolve[c].pc \in {"post", "answer"}
    /\ \/ Fault
       \/ resolve[c].pc = "post" /\ issued = MaxTokens /\ UNCHANGED faults
    /\ Settle(c, "idle", 0)
    /\ UNCHANGED <<now, issued, live, era, do, kv, kvSeen, login, grants>>

-----------------------------------------------------------------------------
(* The OAuth login.                                                        *)

(* /callback: the code is exchanged; the tokens wait for the user's        *)
(* consent in KV under consent:{id}.                                       *)
Exchange(l) ==
    /\ login[l].pc = "out" /\ issued < MaxTokens
    /\ issued' = issued + 1
    /\ live' = live \union {issued + 1}
    /\ login' = [login EXCEPT ![l] =
          [pc |-> "consent", at |-> now,
           tok |-> [rt |-> issued + 1, exp |-> 0, real |-> now + Life, era |-> era]]]
    /\ UNCHANGED <<now, era, faults, do, kv, kvSeen, inflight, resolve, call, grants, hist>>

(* POST /consent within the TTL: expires_at is computed only now, and the  *)
(* record goes to KV.                                                      *)
AcceptConsent(l) ==
    /\ login[l].pc = "consent"
    /\ now <= login[l].at + ConsentTTL
    /\ LET stored == [login[l].tok EXCEPT !.exp = now + Life, !.era = era]
       IN  /\ KvPut(stored)
           /\ login' = [login EXCEPT ![l].pc = "seed", ![l].tok = stored]
    /\ UNCHANGED <<env, do, inflight, resolve, call, grants, hist>>

(* setToken: the DO takes the record and forgets its resolve in flight.    *)
SetToken(l) ==
    /\ login[l].pc = "seed"
    /\ do' = login[l].tok
    /\ inflight' = {}
    /\ dropped' = dropped \union inflight
    /\ raced' = (raced \/ inflight # {})
    /\ login' = [login EXCEPT ![l].pc = "grant"]
    /\ UNCHANGED <<env, kv, kvSeen, resolve, call, grants>>

(* The seed is best-effort: a failed RPC leaves the login to KV alone.     *)
SeedFails(l) ==
    /\ login[l].pc = "seed"
    /\ Fault
    /\ login' = [login EXCEPT ![l].pc = "grant"]
    /\ UNCHANGED <<now, issued, live, era, do, kv, kvSeen, inflight, resolve, call, grants, hist>>

CompleteAuthorization(l) ==
    /\ login[l].pc = "grant"
    /\ grants' = grants \union {l}
    /\ login' = [login EXCEPT ![l] = EndedLogin]
    /\ UNCHANGED <<env, do, kv, kvSeen, inflight, resolve, call, hist>>

(* The consent is denied, abandoned until it expires, or the Worker dies.  *)
LoginEnds(l) ==
    /\ login[l].pc = "consent"
    /\ login' = [login EXCEPT ![l] = EndedLogin]
    /\ UNCHANGED <<env, do, kv, kvSeen, inflight, resolve, call, grants, hist>>

-----------------------------------------------------------------------------
(* The environment.                                                        *)

(* The DO is evicted or redeployed, possibly with a new encryption key:    *)
(* memory is gone, callers see a failed RPC, and requests already sent to  *)
(* IdentityServer may still be redeemed there.                             *)
Restart ==
    /\ Fault
    /\ era' \in {era, era + 1}
    /\ \E arrived \in SUBSET {c \in Running : resolve[c].pc = "post"} :
         live' = live \ {resolve[c].tok.rt : c \in arrived}
    /\ inflight' = {} /\ dropped' = {} /\ UNCHANGED raced
    /\ resolve' = [c \in Callers |-> IdleResolve]
    /\ call' = [c \in Callers |-> IF call[c].pc = "wait"
                                  THEN IdleCall ELSE call[c]]
    /\ UNCHANGED <<now, issued, do, kv, kvSeen, login, grants>>

(* KV becomes consistent: reads return the last value put.                 *)
KvSettles ==
    /\ kvSeen # {kv}
    /\ \A c \in Callers : resolve[c].pc # "kv"
    /\ kvSeen' = {kv}
    /\ UNCHANGED <<env, do, kv, inflight, resolve, call, login, grants, hist>>

(* A tick is long against a request: none is open across it.               *)
Tick ==
    /\ now < MaxNow
    /\ Running = {}
    /\ \A l \in Logins : login[l].pc \notin {"seed", "grant"}
    /\ now' = now + 1
    /\ UNCHANGED <<issued, live, do, kv, kvSeen, era, inflight, resolve,
                   call, login, grants, faults, hist>>

-----------------------------------------------------------------------------
ResolveStep(c) ==
    \/ ReadToken(c) \/ WriteStorage(c) \/ WriteKv(c) \/ Refused(c) \/ Redeem(c)
    \/ ReadFails(c) \/ WriteKvFails(c) \/ Unanswered(c)

CallStep(c) == GetAccessToken(c) \/ ListUserGrants(c) \/ RevokeGrants(c)

LoginStep(l) ==
    \/ Exchange(l) \/ AcceptConsent(l) \/ SetToken(l) \/ SeedFails(l)
    \/ CompleteAuthorization(l) \/ LoginEnds(l)

Next ==
    \/ \E c \in Callers : ResolveStep(c) \/ CallStep(c)
    \/ \E l \in Logins : LoginStep(l)
    \/ Restart \/ KvSettles \/ Tick

(* What runs is carried to its end: the runtime resumes every continuation *)
(* whose awaited I/O is done, and I/O ends.  Nothing forces a user to call *)
(* or to log in, time to pass, KV to settle or a fault to happen.          *)
Fairness == \A c \in Callers : WF_vars(ResolveStep(c))

Spec     == Init /\ [][Next]_vars
FairSpec == Spec /\ Fairness
-----------------------------------------------------------------------------
(* What the object promises.                                               *)

(* The serialisation TokenManager exists for: of the resolves running at   *)
(* any time, at most one has not been dropped by a setToken, whatever      *)
(* order they start, settle and are dropped in.                            *)
OneOwner == \A c, d \in Running \ dropped : c = d

(* Every caller that waits, waits for a resolve that still runs -- also    *)
(* when setToken has dropped that resolve, or it has failed, meanwhile.    *)
NoOrphanedCaller ==
    \A c \in Callers : call[c].pc = "wait" =>
        \E d \in Running : call[c].on = {d}

(* Neither a fault nor a login that overtook a resolve has happened yet.   *)
Serialised == faults = 0 /\ ~raced

(* Rotation loses no token: what storage holds can be redeemed, or its     *)
(* successor is on its way from IdentityServer to storage.                 *)
StoredTokenLive ==
    (Serialised /\ do.rt # 0) =>
        \/ do.rt \in live
        \/ \E c \in Running : resolve[c].pc = "answer" /\ resolve[c].tok.rt \in live

(* Concurrent sessions do not evict each other: as long as refreshes are   *)
(* serialised, nobody is told to log in again, however stale KV is.        *)
NoSpuriousReauth ==
    [][\A c \in Callers : call'[c].pc = "reauth" /\ call[c].pc = "wait"
                            => ~Serialised]_vars

(* An access token handed out outlives the safety margin, but for the time *)
(* its consent screen was open: POST /consent stamps expires_at late.      *)
ServedLife ==
    [][\A c \in Callers : call'[c].pc = "ok" /\ call[c].pc = "wait"
                            => call'[c].until + ConsentTTL > now + Margin]_vars

(* Every tool call that asks for a token is answered.                      *)
EveryCallAnswered ==
    \A c \in Callers : call[c].pc = "wait" ~> call[c].pc # "wait"

-----------------------------------------------------------------------------
(* What a comment claims, and a login that overtakes a resolve breaks.     *)

(* index.ts:643: "if it's dead it's dead for every client, so revoking all *)
(* of them is correct" -- grants go only while the user's token is dead.   *)
RevokeOnlyWhenDead ==
    [][\A c \in Callers : RevokeGrants(c) /\ grants' # grants => ~Usable(do)]_vars
=============================================================================
