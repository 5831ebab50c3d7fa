------------------------- MODULE TokenManagerProofs -------------------------
(***************************************************************************)
(* Proofs about TokenManager, for any sets of callers and logins and any   *)
(* lifetimes.  The inductive invariants are Typed, Coherent (promises,     *)
(* the callers awaiting them and `inflight' agree), Stamped (expires_at    *)
(* overstates the true expiry by at most the consent window) and, for the  *)
(* rotation of refresh tokens, Rotation.                                   *)
(***************************************************************************)
EXTENDS TokenManager, TLAPS

(* Which steps end a resolve, and with what outcome does not matter here.  *)
Settles(c) ==
    \E status \in {"idle", "ok", "reauth"}, until \in Nat : Settle(c, status, until)

(* Promises and waiters agree: `inflight' is at most one running resolve,  *)
(* the other running ones were dropped, each is awaited by its starter,    *)
(* and nobody awaits one that has ended.                                   *)
Coherent ==
    /\ \A c, d \in inflight : c = d
    /\ inflight \subseteq Running
    /\ Running \subseteq inflight \union dropped
    /\ \A d \in Running : call[d].pc = "wait" /\ call[d].on = {d}
    /\ NoOrphanedCaller

-----------------------------------------------------------------------------

LEMMA TokenTyped ==
    NoToken \in Token
    BY DEF NoToken, Token

LEMMA TypeInit == Init => Typed
<1> SUFFICES ASSUME Init PROVE Typed
    OBVIOUS
<1> USE ConstantsAssumption DEF Init, NoToken, Token, IdleResolve, IdleCall,
        FreshLogin, EndedLogin,
        ResolveType, CallType, LoginType
<1>1. issued \in Nat /\ live \subseteq 1..issued /\ kv \in Token /\ grants \subseteq Logins
    OBVIOUS
<1>2. now \in Nat /\ era \in Nat /\ faults \in Nat /\ do \in Token /\ kvSeen \subseteq Token
    BY <1>1
<1>3. inflight \subseteq Callers /\ dropped \subseteq Callers /\ raced \in BOOLEAN
    OBVIOUS
<1>4. /\ resolve \in [Callers -> ResolveType]
      /\ call \in [Callers -> CallType]
      /\ login \in [Logins -> LoginType]
    OBVIOUS
<1>5. QED
    BY <1>1, <1>2, <1>3, <1>4 DEF Typed

(* The promise-related half of the type invariant.                         *)
PromisesTyped ==
    /\ inflight \subseteq Callers
    /\ resolve \in [Callers -> ResolveType]
    /\ call \in [Callers -> CallType]
    /\ dropped \subseteq Callers /\ raced \in BOOLEAN

LEMMA SettleTyped ==
    ASSUME Typed, NEW c \in Callers, Settles(c)
    PROVE  PromisesTyped'
<1> USE DEF ResolveType, CallType
<1>1. PICK status \in {"idle", "ok", "reauth"}, until \in Nat : Settle(c, status, until)
    BY DEF Settles
<1>2. IdleResolve \in ResolveType
    BY TokenTyped DEF IdleResolve, ResolveType
<1>3. [IdleCall EXCEPT !.pc = status, !.until = until] \in CallType
    BY DEF IdleCall, CallType
<1>4. QED
    BY <1>1, <1>2, <1>3 DEF Typed, PromisesTyped, Settle

(* ResolveStored settles, or sends the POST.                               *)
LEMMA ResolveStoredCases ==
    ASSUME Typed, NEW c \in Callers, NEW stored \in Token, ResolveStored(c, stored)
    PROVE  \/ Settles(c)
           \/ /\ resolve' = [resolve EXCEPT ![c] = [pc |-> "post", tok |-> stored]]
              /\ UNCHANGED <<inflight, call, dropped, raced>>
<1>1. stored.real \in Nat
    BY DEF Token
<1>2. QED
    BY <1>1 DEF ResolveStored, Settles, hist

LEMMA ResolveStoredTyped ==
    ASSUME Typed, NEW c \in Callers, NEW stored \in Token, ResolveStored(c, stored)
    PROVE  PromisesTyped'
<1> USE DEF ResolveType
<1>1. CASE Settles(c)
    BY <1>1, SettleTyped
<1>2. CASE /\ resolve' = [resolve EXCEPT ![c] = [pc |-> "post", tok |-> stored]]
           /\ UNCHANGED <<inflight, call, dropped, raced>>
    BY <1>2 DEF Typed, PromisesTyped
<1>3. QED
    BY <1>1, <1>2, ResolveStoredCases

(* The steps of a resolve that only settle it.                             *)
LEMMA SettlingSteps ==
    ASSUME Typed, NEW c \in Callers,
           WriteKv(c) \/ Refused(c) \/ ReadFails(c) \/ WriteKvFails(c) \/ Unanswered(c)
    PROVE  c \in Running /\ Settles(c)
<1> USE DEF ResolveType
<1>1. resolve[c].tok.real \in Nat
    BY DEF Typed, Token
<1>2. QED
    BY <1>1 DEF WriteKv, Refused, ReadFails, WriteKvFails, Unanswered, Settles, Running

LEMMA TypeNext == Typed /\ [Next]_vars => Typed'
<1> SUFFICES ASSUME Typed, [Next]_vars PROVE Typed'
    OBVIOUS
<1> USE TokenTyped
<1>0. /\ IdleResolve \in ResolveType /\ IdleCall \in CallType /\ EndedLogin \in LoginType
      /\ \A on \in SUBSET Callers :
            [IdleCall EXCEPT !.pc = "wait", !.on = on] \in CallType
      /\ \A pc \in {"kv", "post", "answer", "put"}, t \in Token :
            [pc |-> pc, tok |-> t] \in ResolveType
    BY DEF IdleResolve, IdleCall, EndedLogin, ResolveType, CallType, LoginType
<1>1. ASSUME NEW c \in Callers, GetAccessToken(c)
      PROVE  Typed'
  <2>1. CASE Join(c)
      BY <1>0, <1>1, <2>1 DEF Typed, GetAccessToken, Join, env, hist
  <2>2. CASE StartResolve(c)
      BY <1>0, <1>1, <2>2 DEF Typed, GetAccessToken, StartResolve, env, hist
  <2>3. QED
      BY <1>1, <2>1, <2>2 DEF GetAccessToken
<1>2. ASSUME NEW c \in Callers, ReadToken(c)
      PROVE  Typed'
  <2>1. resolve[c].tok \in Token
      BY DEF Typed, ResolveType
  <2>2. PICK fromKv \in kvSeen :
            \/ Adopt(fromKv) /\ ResolveStored(c, fromKv)
            \/ ResolveStored(c, resolve[c].tok) /\ UNCHANGED do
      BY <1>2 DEF ReadToken
  <2>3. fromKv \in Token
      BY <2>2 DEF Typed
  <2>4. PromisesTyped' /\ do' \in Token
      BY <2>1, <2>2, <2>3, ResolveStoredTyped DEF Adopt, Typed
  <2>5. QED
      BY <1>2, <2>4 DEF Typed, PromisesTyped, ReadToken, env
<1>3. ASSUME NEW c \in Callers,
             WriteKv(c) \/ Refused(c) \/ ReadFails(c) \/ WriteKvFails(c) \/ Unanswered(c)
      PROVE  Typed'
  <2>1. PromisesTyped'
      BY <1>3, SettlingSteps, SettleTyped
  <2>2. resolve[c].tok \in Token
      BY DEF Typed, ResolveType
  <2>3. kv' \in Token /\ kvSeen' \subseteq Token /\ faults' \in Nat
      BY <1>3, <2>2 DEF Typed, WriteKv, Refused, ReadFails, WriteKvFails, Unanswered,
                        KvPut, Fault, env
  <2>4. QED
      BY <1>3, <2>1, <2>3 DEF Typed, PromisesTyped, WriteKv, Refused, ReadFails,
                              WriteKvFails, Unanswered, env
<1>4. ASSUME NEW c \in Callers, WriteStorage(c)
      PROVE  Typed'
  <2>1. [resolve[c].tok EXCEPT !.exp = now + Life] \in Token
      BY ConstantsAssumption DEF Typed, ResolveType, Token
  <2>2. QED
      BY <1>0, <1>4, <2>1 DEF Typed, WriteStorage, env, hist
<1>5. ASSUME NEW c \in Callers, ListUserGrants(c) \/ RevokeGrants(c)
      PROVE  Typed'
  <2>1. [call[c] EXCEPT !.pc = "revoke", !.saw = grants] \in CallType
    <3>1. \A r \in CallType, g \in SUBSET Logins :
              [r EXCEPT !.pc = "revoke", !.saw = g] \in CallType
        BY DEF CallType
    <3>2. call[c] \in CallType /\ grants \in SUBSET Logins
        BY DEF Typed
    <3>3. QED
        BY <3>1, <3>2
  <2>2. CASE ListUserGrants(c)
    <3>1. call' = [call EXCEPT ![c] = [call[c] EXCEPT !.pc = "revoke", !.saw = grants]]
        BY <2>2 DEF ListUserGrants, Typed
    <3>2. QED
        BY <2>1, <2>2, <3>1 DEF Typed, ListUserGrants, env, hist
  <2>3. CASE RevokeGrants(c)
      BY <1>0, <2>3 DEF Typed, RevokeGrants, env, hist
  <2>4. QED
      BY <1>5, <2>2, <2>3
<1>6. ASSUME NEW c \in Callers, Redeem(c)
      PROVE  Typed'
  <2>1. [rt |-> issued + 1, exp |-> 0, real |-> now + Life, era |-> era] \in Token
      BY ConstantsAssumption DEF Typed, Token
  <2>2. resolve' \in [Callers -> ResolveType]
      BY <1>0, <1>6, <2>1 DEF Typed, Redeem
  <2>3. issued' \in Nat /\ live' \subseteq 1..issued'
    <3>1. issued \in Nat /\ live \subseteq 1..issued
        BY DEF Typed
    <3>2. \/ issued' = issued /\ live' = live
          \/ issued' = issued + 1 /\ live' \subseteq live \union {issued + 1}
        BY <1>6 DEF Redeem
    <3>3. (1..issued) \union {issued + 1} \subseteq 1..(issued + 1)
        BY <3>1
    <3>4. CASE issued' = issued /\ live' = live
        BY <3>1, <3>4
    <3>5. CASE issued' = issued + 1 /\ live' \subseteq live \union {issued + 1}
      <4>1. issued' \in Nat
          BY <3>1, <3>5
      <4>2. live' \subseteq 1..(issued + 1)
          BY <3>1, <3>3, <3>5
      <4>3. QED
          BY <3>5, <4>1, <4>2
    <3>6. QED
        BY <3>2, <3>4, <3>5
  <2>4. UNCHANGED <<now, era, faults, do, kv, kvSeen, inflight, call, login, grants,
                    dropped, raced>>
      BY <1>6 DEF Redeem, hist
  <2>5. QED
      BY <2>2, <2>3, <2>4 DEF Typed
<1>7. ASSUME NEW l \in Logins, LoginStep(l)
      PROVE  Typed'
  <2>1. /\ [rt |-> issued + 1, exp |-> 0, real |-> now + Life, era |-> era] \in Token
        /\ login[l].tok \in Token
      BY ConstantsAssumption DEF Typed, Token, LoginType
  <2>2. [login[l].tok EXCEPT !.exp = now + Life, !.era = era] \in Token
      BY <2>1, ConstantsAssumption DEF Typed, Token
  <2>3. login' \in [Logins -> LoginType]
    <3> USE DEF Typed
    <3>1. CASE Exchange(l)
        BY <3>1, <2>1 DEF Exchange, LoginType
    <3>2. CASE AcceptConsent(l)
      <4>1. \A r \in LoginType, t \in Token :
                [r EXCEPT !.pc = "seed", !.tok = t] \in LoginType
          BY DEF LoginType
      <4>2. login' = [login EXCEPT ![l] = [login[l] EXCEPT !.pc = "seed",
                !.tok = [login[l].tok EXCEPT !.exp = now + Life, !.era = era]]]
          BY <3>2 DEF AcceptConsent
      <4>3. QED
          BY <2>2, <4>1, <4>2
    <3>3. CASE SetToken(l) \/ SeedFails(l)
        BY <3>3 DEF SetToken, SeedFails, LoginType
    <3>4. CASE CompleteAuthorization(l) \/ LoginEnds(l)
        BY <1>0, <3>4 DEF CompleteAuthorization, LoginEnds
    <3>5. QED
        BY <1>7, <3>1, <3>2, <3>3, <3>4 DEF LoginStep
  <2>4. issued' \in Nat /\ live' \subseteq 1..issued' /\ faults' \in Nat
      BY <1>7 DEF Typed, LoginStep, Exchange, AcceptConsent, SetToken,
             SeedFails, CompleteAuthorization, LoginEnds, env, Fault
  <2>5. do' \in Token /\ kv' \in Token /\ kvSeen' \subseteq Token
      BY <1>7, <2>1, <2>2 DEF Typed, LoginStep, Exchange, AcceptConsent, SetToken,
             SeedFails, CompleteAuthorization, LoginEnds, KvPut
  <2>6. inflight' \subseteq Callers /\ dropped' \subseteq Callers /\ raced' \in BOOLEAN
      BY <1>7 DEF Typed, LoginStep, Exchange, AcceptConsent, SetToken,
             SeedFails, CompleteAuthorization, LoginEnds, hist
  <2>7. QED
      BY <1>7, <2>3, <2>4, <2>5, <2>6 DEF Typed, LoginStep, Exchange, AcceptConsent,
             SetToken, SeedFails, CompleteAuthorization, LoginEnds, env
<1>8. CASE Restart
  <2>1. call' \in [Callers -> CallType] /\ resolve' \in [Callers -> ResolveType]
      BY <1>0, <1>8 DEF Typed, Restart
  <2>2. live' \subseteq live
      BY <1>8 DEF Restart
  <2>3. era' \in Nat /\ faults' \in Nat
      BY <1>8 DEF Typed, Restart, Fault
  <2>4. QED
      BY <1>8, <2>1, <2>2, <2>3 DEF Typed, Restart
<1>9. CASE KvSettles
    BY <1>9 DEF Typed, KvSettles, env, hist
<1>10. CASE Tick
    BY <1>10 DEF Typed, Tick, hist
<1>11. CASE UNCHANGED vars
    BY <1>11 DEF Typed, vars
<1>12. QED
    BY <1>1, <1>2, <1>3, <1>4, <1>5, <1>6, <1>7, <1>8, <1>9, <1>10, <1>11
       DEF Next, ResolveStep, CallStep

-----------------------------------------------------------------------------
(* Promises and the callers awaiting them.                                 *)

LEMMA CoherentInit == Init => Coherent
    BY DEF Init, Coherent, NoOrphanedCaller, Running, IdleResolve, IdleCall

(* When a running resolve settles, those awaiting it are answered, and     *)
(* those awaiting another one still have it.                               *)
LEMMA SettleCoherent ==
    ASSUME Typed, Coherent, NEW c \in Running, Settles(c)
    PROVE  Coherent'
<1>1. PICK status \in {"idle", "ok", "reauth"}, until \in Nat : Settle(c, status, until)
    BY DEF Settles
<1>2. c \in Callers /\ inflight' = inflight \ {c} /\ dropped' = dropped \ {c}
    BY <1>1 DEF Settle, Running
<1>3. Running' = Running \ {c}
    BY <1>1, <1>2 DEF Settle, Running, IdleResolve, Typed
<1>4. ASSUME NEW d \in Callers, call'[d].pc = "wait"
      PROVE  call'[d] = call[d] /\ c \notin call[d].on
  <2>1. status # "wait"
      BY <1>1
  <2>2. [IdleCall EXCEPT !.pc = status, !.until = until].pc = status
      BY DEF IdleCall
  <2>3. QED
      BY <1>1, <1>4, <2>1, <2>2 DEF Settle
<1>5. ASSUME NEW d \in Callers, call[d].pc = "wait", c \notin call[d].on
      PROVE  call'[d] = call[d]
    BY <1>1, <1>5 DEF Settle
<1>6. NoOrphanedCaller'
    BY <1>3, <1>4 DEF Coherent, NoOrphanedCaller
<1>7. \A d \in Running' : call'[d].pc = "wait" /\ call'[d].on = {d}
    BY <1>2, <1>3, <1>5 DEF Coherent, Running
<1>8. QED
    BY <1>2, <1>3, <1>6, <1>7 DEF Coherent

(* A step that leaves promises and waiters alone.                          *)
LEMMA PromisesKept ==
    ASSUME Coherent, UNCHANGED <<inflight, call, dropped>>,
           \A c \in Callers : resolve'[c].pc = "idle" <=> resolve[c].pc = "idle"
    PROVE  Coherent'
    BY DEF Coherent, NoOrphanedCaller, Running

LEMMA CoherentNext == Typed /\ Coherent /\ [Next]_vars => Coherent'
<1> SUFFICES ASSUME Typed, Coherent, [Next]_vars PROVE Coherent'
    OBVIOUS
<1>1. ASSUME NEW c \in Callers, GetAccessToken(c)
      PROVE  Coherent'
  <2>1. c \notin Running
      BY <1>1 DEF GetAccessToken, Coherent
  <2>2. CASE Join(c)
    <3>1. PICK d \in Running : inflight = {d}
        BY <2>2 DEF Join, Coherent
    <3>2. /\ call' = [call EXCEPT ![c] = [IdleCall EXCEPT !.pc = "wait", !.on = {d}]]
          /\ UNCHANGED <<inflight, resolve, dropped>>
        BY <1>1, <2>2, <3>1 DEF Join, GetAccessToken, hist
    <3>3. Running' = Running
        BY <3>2 DEF Running
    <3>4. call'[c].on = {d} /\ \A e \in Callers : e # c => call'[e] = call[e]
        BY <3>2 DEF Typed, IdleCall
    <3>5. NoOrphanedCaller'
        BY <3>3, <3>4 DEF Coherent, NoOrphanedCaller
    <3>6. \A e \in Running' : call'[e].pc = "wait" /\ call'[e].on = {e}
        BY <2>1, <3>3, <3>4 DEF Coherent, Running
    <3>7. QED
        BY <3>2, <3>3, <3>5, <3>6 DEF Coherent
  <2>3. CASE StartResolve(c)
    <3>1. /\ call' = [call EXCEPT ![c] = [IdleCall EXCEPT !.pc = "wait", !.on = {c}]]
          /\ resolve' = [resolve EXCEPT ![c] = [pc |-> "kv", tok |-> do]]
          /\ inflight = {} /\ inflight' = {c} /\ dropped' = dropped
        BY <1>1, <2>3 DEF StartResolve, GetAccessToken, hist
    <3>2. Running' = Running \union {c}
        BY <3>1 DEF Running, Typed
    <3>3. call'[c].pc = "wait" /\ call'[c].on = {c}
        BY <3>1 DEF Typed, IdleCall
    <3>4. \A e \in Callers : e # c => call'[e] = call[e]
        BY <3>1 DEF Typed
    <3>5. NoOrphanedCaller'
        BY <3>2, <3>3, <3>4 DEF Coherent, NoOrphanedCaller
    <3>6. \A e \in Running' : call'[e].pc = "wait" /\ call'[e].on = {e}
        BY <3>2, <3>3, <3>4 DEF Coherent, Running
    <3>7. QED
        BY <3>1, <3>2, <3>5, <3>6 DEF Coherent
  <2>4. QED
      BY <1>1, <2>2, <2>3 DEF GetAccessToken
<1>2. ASSUME NEW c \in Callers, ReadToken(c)
      PROVE  Coherent'
  <2>1. c \in Running /\ resolve[c].tok \in Token
      BY <1>2 DEF ReadToken, Running, Typed, ResolveType
  <2>2. PICK stored \in Token : ResolveStored(c, stored)
      BY <1>2, <2>1 DEF ReadToken, Typed
  <2>3. CASE Settles(c)
      BY <2>1, <2>3, SettleCoherent
  <2>4. CASE /\ resolve' = [resolve EXCEPT ![c] = [pc |-> "post", tok |-> stored]]
             /\ UNCHANGED <<inflight, call, dropped, raced>>
      BY <2>1, <2>4, PromisesKept DEF Running, Typed
  <2>5. QED
      BY <2>2, <2>3, <2>4, ResolveStoredCases
<1>3. ASSUME NEW c \in Callers,
             WriteKv(c) \/ Refused(c) \/ ReadFails(c) \/ WriteKvFails(c) \/ Unanswered(c)
      PROVE  Coherent'
    BY <1>3, SettlingSteps, SettleCoherent
<1>4. ASSUME NEW c \in Callers, WriteStorage(c)
      PROVE  Coherent'
    BY <1>4, PromisesKept DEF WriteStorage, hist, Typed
<1>5. ASSUME NEW c \in Callers, Redeem(c)
      PROVE  Coherent'
    BY <1>5, PromisesKept DEF Redeem, hist, Typed
<1>6. ASSUME NEW c \in Callers, ListUserGrants(c) \/ RevokeGrants(c)
      PROVE  Coherent'
  <2>1. call[c].pc # "wait" /\ call'[c].pc # "wait"
      BY <1>6 DEF ListUserGrants, RevokeGrants, Typed, CallType, IdleCall
  <2>2. \A d \in Callers : d # c => call'[d] = call[d]
      BY <1>6 DEF ListUserGrants, RevokeGrants, Typed
  <2>3. UNCHANGED <<inflight, resolve, dropped>>
      BY <1>6 DEF ListUserGrants, RevokeGrants, hist
  <2>4. QED
      BY <2>1, <2>2, <2>3 DEF Coherent, NoOrphanedCaller, Running
<1>7. ASSUME NEW l \in Logins, SetToken(l)
      PROVE  Coherent'
    BY <1>7 DEF SetToken, Coherent, NoOrphanedCaller, Running
<1>8. ASSUME NEW l \in Logins,
             \/ Exchange(l) \/ AcceptConsent(l) \/ SeedFails(l)
             \/ CompleteAuthorization(l) \/ LoginEnds(l)
      PROVE  Coherent'
    BY <1>8, PromisesKept DEF Exchange, AcceptConsent, SeedFails,
       CompleteAuthorization, LoginEnds, hist
<1>9. CASE Restart
  <2>1. Running' = {} /\ inflight' = {}
      BY <1>9 DEF Restart, Running, IdleResolve
  <2>2. \A d \in Callers : call'[d].pc # "wait"
      BY <1>9 DEF Restart, IdleCall
  <2>3. QED
      BY <2>1, <2>2 DEF Coherent, NoOrphanedCaller
<1>10. CASE KvSettles \/ Tick
    BY <1>10, PromisesKept DEF KvSettles, Tick, hist
<1>11. CASE UNCHANGED vars
    BY <1>11, PromisesKept DEF vars
<1>12. QED
    BY <1>1, <1>2, <1>3, <1>4, <1>5, <1>6, <1>7, <1>8, <1>9, <1>10, <1>11
       DEF Next, ResolveStep, CallStep, LoginStep

(* The token manager's `inflight', its running resolves and the callers    *)
(* awaiting them (token-manager.ts:36-60) stay in step.                    *)
THEOREM PromisesCoherent == Spec => [](Typed /\ Coherent)
<1>1. Init => Typed /\ Coherent
    BY TypeInit, CoherentInit
<1>2. (Typed /\ Coherent) /\ [Next]_vars => (Typed /\ Coherent)'
    BY TypeNext, CoherentNext
<1>3. QED
    BY <1>1, <1>2, PTL DEF Spec

(* Type correctness of the token manager and of its environment, and       *)
(* `inflight' never keeps a promise that has settled                       *)
(* (token-manager.ts:40-45).                                               *)
THEOREM TypeCorrect == Spec => []TypeOK
<1>1. Typed /\ Coherent => TypeOK
    BY DEF Coherent, TypeOK
<1>2. QED
    BY <1>1, PromisesCoherent, PTL

(* At most one resolve that no login has dropped runs at a time.           *)
THEOREM OneOwnerAlways == Spec => []OneOwner
<1>1. Coherent => OneOwner
    BY DEF Coherent, OneOwner
<1>2. QED
    BY <1>1, PromisesCoherent, PTL

(* No waiting caller is ever left behind by a settled or dropped resolve.  *)
THEOREM NoOrphanedCallerAlways == Spec => []NoOrphanedCaller
<1>1. Coherent => NoOrphanedCaller
    BY DEF Coherent
<1>2. QED
    BY <1>1, PromisesCoherent, PTL

-----------------------------------------------------------------------------
(* How much life a token that is handed out still has.                     *)

(* expires_at overstates the true expiry by the consent window at most.    *)
Late(t) == t.exp <= t.real + ConsentTTL

(* Every record held anywhere is Late; a freshly rotated one is exact, no  *)
(* tick passing while its resolve runs; a token awaiting consent has been  *)
(* issued when the consent screen opened.                                  *)
Stamped ==
    /\ Late(do) /\ Late(kv) /\ \A t \in kvSeen : Late(t)
    /\ \A c \in Callers :
          /\ Late(resolve[c].tok)
          /\ (resolve[c].pc = "answer" /\ resolve[c].tok.rt # 0) \/ resolve[c].pc = "put"
                => resolve[c].tok.real = now + Life
    /\ \A l \in Logins :
          /\ Late(login[l].tok)
          /\ login[l].pc = "consent" => login[l].tok.real = login[l].at + Life

LEMMA NoTokenLate == Late(NoToken)
    BY ConstantsAssumption DEF Late, NoToken

LEMMA StampedInit == Init => Stamped
<1> SUFFICES ASSUME Init PROVE Stamped
    OBVIOUS
<1>1. Late(kv)
    BY NoTokenLate, ConstantsAssumption DEF Init, Late
<1>2. Late(do) /\ \A t \in kvSeen : Late(t)
    BY <1>1, NoTokenLate DEF Init
<1>3. \A c \in Callers : resolve[c] = IdleResolve
    BY DEF Init
<1>4. \A l \in Logins : login[l] \in {FreshLogin, EndedLogin}
    BY DEF Init
<1>5. QED
    BY <1>1, <1>2, <1>3, <1>4, NoTokenLate
       DEF Stamped, IdleResolve, FreshLogin, EndedLogin

(* The records a resolve step leaves untouched stay as they were.          *)
LEMMA SettleStamped ==
    ASSUME Typed, Stamped, NEW c \in Callers, Settles(c), UNCHANGED <<now, login>>,
           Late(do'), Late(kv'), \A t \in kvSeen' : Late(t)
    PROVE  Stamped'
<1>1. resolve' = [resolve EXCEPT ![c] = IdleResolve]
    BY DEF Settles, Settle
<1>2. \A d \in Callers : resolve'[d] = resolve[d] \/ resolve'[d] = IdleResolve
    BY <1>1 DEF Typed
<1>3. QED
    BY <1>2, NoTokenLate DEF Stamped, Late, IdleResolve

(* A step that gives one resolve a new state, all else about records kept. *)
LEMMA ResolveStamped ==
    ASSUME Typed, Stamped, NEW c \in Callers, UNCHANGED <<now, login>>,
           NEW r, resolve' = [resolve EXCEPT ![c] = r],
           Late(r.tok),
           (r.pc = "answer" /\ r.tok.rt # 0) \/ r.pc = "put" => r.tok.real = now + Life,
           Late(do'), Late(kv'), \A t \in kvSeen' : Late(t)
    PROVE  Stamped'
<1>1. \A d \in Callers : resolve'[d] = resolve[d] \/ resolve'[d] = r
    BY DEF Typed
<1>2. QED
    BY <1>1 DEF Stamped, Late

LEMMA StampedNext == Typed /\ Stamped /\ [Next]_vars => Stamped'
<1> SUFFICES ASSUME Typed, Stamped, [Next]_vars PROVE Stamped'
    OBVIOUS
<1>1. ASSUME NEW c \in Callers, GetAccessToken(c)
      PROVE  Stamped'
  <2>1. CASE Join(c)
      BY <1>1, <2>1 DEF Stamped, Late, GetAccessToken, Join, env
  <2>2. CASE StartResolve(c)
      BY <1>1, <2>2 DEF Stamped, Late, GetAccessToken, StartResolve, env, Typed
  <2>3. QED
      BY <1>1, <2>1, <2>2 DEF GetAccessToken
<1>2. ASSUME NEW c \in Callers, ReadToken(c)
      PROVE  Stamped'
  <2>1. resolve[c].tok \in Token /\ kvSeen \subseteq Token
      BY DEF Typed, ResolveType
  <2>2. PICK stored \in Token : ResolveStored(c, stored) /\ Late(stored) /\ Late(do')
      BY <1>2, <2>1 DEF ReadToken, Adopt, Stamped, Late
  <2>3. /\ UNCHANGED <<now, login>>
        /\ Late(kv') /\ \A t \in kvSeen' : Late(t)
      BY <1>2 DEF ReadToken, env, Stamped, Late
  <2>4. CASE Settles(c)
      BY <2>2, <2>3, <2>4, SettleStamped
  <2>5. CASE resolve' = [resolve EXCEPT ![c] = [pc |-> "post", tok |-> stored]]
    <3>1. \A d \in Callers : \/ resolve'[d] = resolve[d]
                             \/ resolve'[d] = [pc |-> "post", tok |-> stored]
        BY <2>5 DEF Typed
    <3>2. QED
        BY <2>2, <2>3, <3>1 DEF Stamped, Late
  <2>6. QED
      BY <2>2, <2>4, <2>5, ResolveStoredCases
<1>3. ASSUME NEW c \in Callers,
             WriteKv(c) \/ Refused(c) \/ ReadFails(c) \/ WriteKvFails(c) \/ Unanswered(c)
      PROVE  Stamped'
  <2>1. UNCHANGED <<now, login, do>>
      BY <1>3 DEF WriteKv, Refused, ReadFails, WriteKvFails, Unanswered, env
  <2>2. Late(kv') /\ \A t \in kvSeen' : Late(t)
      BY <1>3 DEF WriteKv, Refused, ReadFails, WriteKvFails, Unanswered, KvPut,
                  Stamped, Late
  <2>3. QED
      BY <1>3, <2>1, <2>2, SettlingSteps, SettleStamped DEF Stamped, Late
<1>4. ASSUME NEW c \in Callers, WriteStorage(c)
      PROVE  Stamped'
  <2> DEFINE new == [resolve[c].tok EXCEPT !.exp = now + Life]
  <2>1. resolve[c].tok \in Token /\ resolve[c].tok.real = now + Life
      BY <1>4 DEF WriteStorage, Stamped, Typed, ResolveType
  <2>2. new.real = now + Life /\ Late(new)
      BY <2>1, ConstantsAssumption DEF Late, Token, Typed
  <2>3. /\ UNCHANGED <<now, login, kv, kvSeen>> /\ do' = new
        /\ \A d \in Callers : \/ resolve'[d] = resolve[d]
                              \/ resolve'[d] = [pc |-> "put", tok |-> new]
      BY <1>4 DEF WriteStorage, env, Typed
  <2> HIDE DEF new
  <2>4. QED
      BY <2>2, <2>3 DEF Stamped, Late
<1>5. ASSUME NEW c \in Callers, Redeem(c)
      PROVE  Stamped'
  <2> DEFINE new == [rt |-> issued + 1, exp |-> 0, real |-> now + Life, era |-> era]
  <2>1. Late(new) /\ new.real = now + Life
      BY ConstantsAssumption DEF Late, Typed
  <2>2. UNCHANGED <<now, login, do, kv, kvSeen>>
      BY <1>5 DEF Redeem
  <2>3. \A d \in Callers : \/ resolve'[d] = resolve[d]
                           \/ resolve'[d] = [pc |-> "answer", tok |-> new]
                           \/ resolve'[d] = [pc |-> "answer", tok |-> NoToken]
      BY <1>5 DEF Redeem, Typed
  <2>4. NoToken.rt = 0
      BY DEF NoToken
  <2> HIDE DEF new
  <2>5. QED
      BY <2>1, <2>2, <2>3, <2>4, NoTokenLate DEF Stamped, Late
<1>6. ASSUME NEW c \in Callers, ListUserGrants(c) \/ RevokeGrants(c)
      PROVE  Stamped'
    BY <1>6 DEF Stamped, Late, ListUserGrants, RevokeGrants, env
<1>7. ASSUME NEW l \in Logins, Exchange(l)
      PROVE  Stamped'
  <2> DEFINE new == [rt |-> issued + 1, exp |-> 0, real |-> now + Life, era |-> era]
  <2>1. Late(new) /\ new.real = now + Life
      BY ConstantsAssumption DEF Late, Typed
  <2>2. /\ UNCHANGED <<now, resolve, do, kv, kvSeen>>
        /\ \A k \in Logins : \/ login'[k] = login[k]
                             \/ login'[k] = [pc |-> "consent", at |-> now, tok |-> new]
      BY <1>7 DEF Exchange, Typed
  <2> HIDE DEF new
  <2>3. QED
      BY <2>1, <2>2 DEF Stamped, Late
<1>8. ASSUME NEW l \in Logins, AcceptConsent(l)
      PROVE  Stamped'
  <2> DEFINE new == [login[l].tok EXCEPT !.exp = now + Life, !.era = era]
  <2>1. login[l].tok \in Token /\ login[l].at \in Nat
      BY DEF Typed, LoginType
  <2>2. now <= login[l].at + ConsentTTL /\ login[l].tok.real = login[l].at + Life
      BY <1>8 DEF AcceptConsent, Stamped
  <2>3. new.exp = now + Life /\ new.real = login[l].tok.real
      BY <2>1 DEF Token
  <2>4. Late(new)
      BY <2>1, <2>2, <2>3, ConstantsAssumption DEF Late, Typed
  <2>5. UNCHANGED <<now, resolve, do>> /\ kv' = new /\ kvSeen' = kvSeen \union {new}
      BY <1>8 DEF AcceptConsent, KvPut, env
  <2>6. \A k \in Logins : \/ login'[k] = login[k]
                          \/ login'[k].pc = "seed" /\ login'[k].tok = new
      BY <1>8 DEF AcceptConsent, Typed, LoginType
  <2> HIDE DEF new
  <2>7. QED
      BY <2>4, <2>5, <2>6 DEF Stamped, Late
<1>9. ASSUME NEW l \in Logins, SetToken(l) \/ SeedFails(l)
      PROVE  Stamped'
  <2>1. /\ UNCHANGED <<now, resolve, kv, kvSeen>>
        /\ do' = do \/ do' = login[l].tok
      BY <1>9 DEF SetToken, SeedFails, env
  <2>2. \A k \in Logins : \/ login'[k] = login[k]
                          \/ login'[k].pc = "grant" /\ login'[k].tok = login[k].tok
      BY <1>9 DEF SetToken, SeedFails, Typed, LoginType
  <2>3. QED
      BY <2>1, <2>2 DEF Stamped, Late
<1>10. ASSUME NEW l \in Logins, CompleteAuthorization(l) \/ LoginEnds(l)
       PROVE  Stamped'
  <2>1. UNCHANGED <<now, resolve, do, kv, kvSeen>>
      BY <1>10 DEF CompleteAuthorization, LoginEnds, env
  <2>2. \A k \in Logins : login'[k] = login[k] \/ login'[k] = EndedLogin
      BY <1>10 DEF CompleteAuthorization, LoginEnds, Typed
  <2>3. QED
      BY <2>1, <2>2, NoTokenLate DEF Stamped, Late, EndedLogin
<1>11. CASE Restart
  <2>1. UNCHANGED <<now, login, do, kv, kvSeen>> /\ \A c \in Callers : resolve'[c] = IdleResolve
      BY <1>11 DEF Restart
  <2>2. QED
      BY <2>1, NoTokenLate DEF Stamped, Late, IdleResolve
<1>12. CASE KvSettles
    BY <1>12 DEF KvSettles, Stamped, Late, env
<1>13. CASE Tick
  <2>1. /\ UNCHANGED <<login, do, kv, kvSeen, resolve>>
        /\ \A c \in Callers : resolve[c].pc = "idle"
      BY <1>13 DEF Tick, Running
  <2>2. QED
      BY <2>1 DEF Stamped, Late
<1>14. CASE UNCHANGED vars
    BY <1>14 DEF Stamped, Late, vars
<1>15. QED
    BY <1>1, <1>2, <1>3, <1>4, <1>5, <1>6, <1>7, <1>8, <1>9, <1>10, <1>11, <1>12,
       <1>13, <1>14 DEF Next, ResolveStep, CallStep, LoginStep

(* Along every behaviour the stamps stay as Stamped says: expires_at never *)
(* overstates the true expiry by more than the consent window.             *)
THEOREM StampedAlways == Spec => [](Typed /\ Stamped)
<1>1. Init => Typed /\ Stamped
    BY TypeInit, StampedInit
<1>2. (Typed /\ Stamped) /\ [Next]_vars => (Typed /\ Stamped)'
    BY TypeNext, StampedNext
<1>3. QED
    BY <1>1, <1>2, PTL DEF Spec

Outlives(until) == until + ConsentTTL > now + Margin

(* What ServedLife says of one step.                                       *)
ServesLong ==
    \A c \in Callers : call'[c].pc = "ok" /\ call[c].pc = "wait"
                            => Outlives(call'[c].until)

LEMMA SettleServes ==
    ASSUME Typed, NEW c \in Callers, NEW status, NEW until,
           Settle(c, status, until), status = "ok" => Outlives(until)
    PROVE  ServesLong
<1>1. \A d \in Callers :
        \/ call'[d] = call[d]
        \/ call'[d].pc = status /\ call'[d].until = until
    BY DEF Settle, IdleCall, Typed, CallType
<1>2. QED
    BY <1>1 DEF ServesLong

LEMMA ResolveServes ==
    ASSUME Typed, NEW c \in Callers, NEW stored \in Token, Late(stored),
           ResolveStored(c, stored)
    PROVE  ServesLong
<1>1. CASE Settle(c, "reauth", 0)
    BY <1>1, SettleServes, "reauth" # "ok"
<1>2. CASE stored.exp > now + Margin /\ Settle(c, "ok", stored.real)
  <2>1. Outlives(stored.real)
      BY <1>2, ConstantsAssumption DEF Late, Outlives, Typed, Token
  <2>2. QED
      BY <1>2, <2>1, SettleServes
<1>3. CASE UNCHANGED call
    BY <1>3 DEF ServesLong
<1>4. QED
    BY <1>1, <1>2, <1>3 DEF ResolveStored

LEMMA StepServes == Typed /\ Stamped /\ [Next]_vars => ServesLong
<1> SUFFICES ASSUME Typed, Stamped, [Next]_vars PROVE ServesLong
    OBVIOUS
<1>1. ASSUME NEW c \in Callers, ReadToken(c)
      PROVE  ServesLong
  <2>1. PICK stored \in Token : Late(stored) /\ ResolveStored(c, stored)
      BY <1>1 DEF ReadToken, Stamped, Typed, ResolveType
  <2>2. QED
      BY <2>1, ResolveServes
<1>2. ASSUME NEW c \in Callers, WriteKv(c)
      PROVE  ServesLong
  <2>1. Outlives(resolve[c].tok.real)
      BY <1>2, ConstantsAssumption DEF WriteKv, Stamped, Outlives, Typed
  <2>2. Settle(c, "ok", resolve[c].tok.real)
      BY <1>2 DEF WriteKv
  <2>3. QED
      BY <2>1, <2>2, SettleServes
<1>3. ASSUME NEW c \in Callers,
             Refused(c) \/ ReadFails(c) \/ WriteKvFails(c) \/ Unanswered(c)
      PROVE  ServesLong
  <2>1. PICK status \in {"idle", "reauth"} : Settle(c, status, 0)
      BY <1>3 DEF Refused, ReadFails, WriteKvFails, Unanswered
  <2>2. status # "ok"
      OBVIOUS
  <2>3. QED
      BY <2>1, <2>2, SettleServes
<1>4. ASSUME NEW c \in Callers,
             GetAccessToken(c) \/ ListUserGrants(c) \/ RevokeGrants(c)
      PROVE  ServesLong
  <2>1. \A d \in Callers : call'[d] = call[d] \/ call'[d].pc # "ok" \/ call[d].pc # "wait"
      BY <1>4 DEF GetAccessToken, Join, StartResolve, ListUserGrants, RevokeGrants,
         IdleCall, Typed, CallType
  <2>2. QED
      BY <2>1 DEF ServesLong
<1>5. CASE UNCHANGED call
    BY <1>5 DEF ServesLong
<1>6. CASE Restart
    BY <1>6 DEF Restart, ServesLong, IdleCall
<1>7. ASSUME NEW c \in Callers, WriteStorage(c) \/ Redeem(c)
      PROVE  UNCHANGED call
    BY <1>7 DEF WriteStorage, Redeem
<1>8. ASSUME NEW l \in Logins, LoginStep(l)
      PROVE  UNCHANGED call
    BY <1>8 DEF LoginStep, Exchange, AcceptConsent, SetToken, SeedFails,
       CompleteAuthorization, LoginEnds
<1>9. ASSUME KvSettles \/ Tick \/ UNCHANGED vars
      PROVE  UNCHANGED call
    BY <1>9 DEF KvSettles, Tick, vars
<1>10. QED
    BY <1>1, <1>2, <1>3, <1>4, <1>5, <1>6, <1>7, <1>8, <1>9
       DEF Next, ResolveStep, CallStep

(* An access token handed to a tool call outlives the 60 s margin, but for *)
(* the time its consent screen was open.                                   *)
THEOREM ServedLifeAlways == Spec => ServedLife
<1>1. Typed /\ Stamped /\ [Next]_vars
        => [\A c \in Callers : call'[c].pc = "ok" /\ call[c].pc = "wait"
                               => call'[c].until + ConsentTTL > now + Margin]_vars
    BY StepServes DEF ServesLong, Outlives
<1>2. QED
    BY <1>1, StampedAlways, PTL DEF Spec, ServedLife

-----------------------------------------------------------------------------
(* Rotation: as long as no fault has happened and no login has overtaken a *)
(* resolve, the stored refresh token can be redeemed, and nobody is told   *)
(* to log in again, whatever a stale KV read returns.                      *)

(* The records a resolve can come to use.                                  *)
Records == kvSeen \union {do}

Pending(l) == login[l].pc \in {"consent", "seed"}

(* A stamped record belongs to the deployed key and to a token that was    *)
(* issued, and one refresh token is stamped once.                          *)
Stamps ==
    /\ \A t \in Records : t.rt # 0 => t.era = era /\ t.rt <= issued /\ t.exp <= now + Life
    /\ \A s, t \in Records : s.rt = t.rt /\ s.rt # 0 => s.exp = t.exp

(* Tokens of logins under way have not been redeemed: those that wait for  *)
(* consent are nobody's yet, those just accepted are not due.              *)
Entries ==
    /\ \A l \in Logins : Pending(l) => login[l].tok.rt \in live
    /\ \A l \in Logins, t \in Records : login[l].pc = "consent" => t.rt # login[l].tok.rt
    /\ \A l \in Logins : login[l].pc = "seed" =>
         /\ login[l].tok.exp = now + Life /\ login[l].tok.era = era
         /\ \A t \in Records : t.rt = login[l].tok.rt => t.exp = login[l].tok.exp
    /\ \A k, l \in Logins : Pending(k) /\ Pending(l) /\ k # l =>
         login[k].tok.rt # login[l].tok.rt

(* An answer that is not yet stored carries a live token that is nobody    *)
(* else's, and once stored it will outlast every record that is dead.      *)
Answers ==
    \A c \in Callers : resolve[c].pc = "answer" =>
        /\ resolve[c].tok.rt \in live /\ resolve[c].tok.era = era
        /\ \A t \in Records :
             /\ t.rt # resolve[c].tok.rt
             /\ t.rt # 0 => t.rt \in live \/ t.exp < now + Life
        /\ \A l \in Logins : Pending(l) => login[l].tok.rt # resolve[c].tok.rt

(* Otherwise what is stored is live, and beats every dead record in KV.    *)
Ahead ==
    (\A c \in Callers : resolve[c].pc # "answer") =>
        /\ do.rt # 0 => do.rt \in live
        /\ \A t \in kvSeen : t.rt # 0 =>
             t.rt \in live \/ (do.rt # 0 /\ t.exp < do.exp)

(* A resolve works on what is stored, and posts it only when it is due.    *)
Current ==
    /\ \A c \in Callers : resolve[c].pc \in {"kv", "post", "put"} => resolve[c].tok = do
    /\ \A c \in Callers : resolve[c].pc = "post" => do.exp <= now + Margin
    /\ \A c \in Callers : resolve[c].pc \in {"post", "put"} => do.rt # 0

(* Whoever may ask has a token, and nobody was sent to log in again.       *)
Connected ==
    /\ grants # {} \/ Running # {} => do.rt # 0 \/ \A t \in kvSeen : t.rt # 0
    /\ \A l \in Logins : login[l].pc = "grant" => do.rt # 0
    /\ \A c \in Callers : call[c].pc \notin {"reauth", "revoke"}
    /\ kv \in kvSeen /\ dropped = {}

Chain == Stamps /\ Entries /\ Answers /\ Ahead /\ Current /\ Connected

Rotation == Serialised => Chain

-----------------------------------------------------------------------------
LEMMA RecordsTyped == Typed => Records \subseteq Token
    BY DEF Typed, Records

(* Where nothing was dropped, one resolve runs.                            *)
LEMMA Alone ==
    ASSUME Coherent, Chain, NEW c \in Running, NEW d \in Running
    PROVE  c = d
    BY DEF Coherent, Chain, Connected

(* A step that stamps and issues nothing, answers nobody and lets a login  *)
(* at most end, keeps what is known of records, logins and answers.        *)
LEMMA NothingNew ==
    ASSUME Chain, UNCHANGED <<now, issued, live, era>>,
           Records' \subseteq Records,
           \A l \in Logins : login'[l] = login[l] \/ login'[l].pc \in {"grant", "done"},
           \A c \in Callers : resolve'[c] = resolve[c] \/ resolve'[c].pc # "answer"
    PROVE  Stamps' /\ Entries' /\ Answers'
<1>1. \A l \in Logins : Pending(l)' => login'[l] = login[l] /\ Pending(l)
    BY DEF Pending
<1>2. Stamps'
    BY DEF Chain, Stamps
<1>3. Entries'
  <2>1. \A l \in Logins : Pending(l)' => login'[l].tok.rt \in live'
      BY <1>1 DEF Chain, Entries
  <2>2. \A l \in Logins, t \in Records' : login'[l].pc = "consent" => t.rt # login'[l].tok.rt
      BY DEF Chain, Entries
  <2>3. \A l \in Logins : login'[l].pc = "seed" =>
          /\ login'[l].tok.exp = now' + Life /\ login'[l].tok.era = era'
          /\ \A t \in Records' : t.rt = login'[l].tok.rt => t.exp = login'[l].tok.exp
      BY DEF Chain, Entries
  <2>4. \A k, l \in Logins : Pending(k)' /\ Pending(l)' /\ k # l =>
          login'[k].tok.rt # login'[l].tok.rt
      BY <1>1 DEF Chain, Entries
  <2>5. QED
      BY <2>1, <2>2, <2>3, <2>4 DEF Entries
<1>4. Answers'
    BY <1>1 DEF Chain, Answers
<1>5. QED
    BY <1>2, <1>3, <1>4

(* A resolve ends, and with it the only one that runs.                     *)
LEMMA SettleEffect ==
    ASSUME Typed, Coherent, Chain, NEW c \in Running, NEW status, NEW until,
           Settle(c, status, until)
    PROVE  /\ \A d \in Callers : resolve'[d].pc = "idle"
           /\ Running' = {} /\ dropped' = {} /\ raced' = raced
           /\ \A d \in Callers : call'[d].pc \in {call[d].pc, status}
<1>1. c \in Callers /\ \A d \in Callers \ {c} : resolve[d].pc = "idle"
    BY Alone DEF Running
<1>2. resolve' = [resolve EXCEPT ![c] = IdleResolve] /\ resolve \in [Callers -> ResolveType]
    BY DEF Settle, Typed
<1>3. \A d \in Callers : resolve'[d].pc = "idle"
    BY <1>1, <1>2 DEF IdleResolve
<1>4. Running' = {}
    BY <1>3 DEF Running
<1>5. dropped' = {} /\ raced' = raced
    BY DEF Settle, Chain, Connected
<1>6. \A d \in Callers : call'[d].pc \in {call[d].pc, status}
    BY DEF Settle, IdleCall
<1>7. QED
    BY <1>3, <1>4, <1>5, <1>6

(* What a settled resolve leaves in place.                                 *)
LEMMA SettledChain ==
    ASSUME Typed, Coherent, Chain, NEW c \in Running, NEW status \in {"idle", "ok"}, NEW until,
           Settle(c, status, until),
           UNCHANGED <<env, login, grants>>,
           Records' \subseteq Records, kv' \in kvSeen',
           do'.rt # 0 => do'.rt \in live,
           \A t \in kvSeen' : t.rt # 0 => t.rt \in live \/ (do'.rt # 0 /\ t.exp < do'.exp),
           do.rt # 0 => do'.rt # 0,
           do'.rt = 0 => kvSeen' = kvSeen
    PROVE  Chain'
<1>1. /\ \A d \in Callers : resolve'[d].pc = "idle"
      /\ Running' = {} /\ dropped' = {}
      /\ \A d \in Callers : call'[d].pc \in {call[d].pc, status}
    BY SettleEffect
<1>2. UNCHANGED <<now, issued, live, era>>
    BY DEF env
<1>3. Stamps' /\ Entries' /\ Answers'
    BY <1>1, <1>2, NothingNew
<1>4. Ahead' /\ Current'
    BY <1>1, <1>2 DEF Ahead, Current
<1>5. do'.rt # 0 \/ \A t \in kvSeen' : t.rt # 0
    BY DEF Chain, Connected
<1>6. Connected'
    BY <1>1, <1>5 DEF Connected, Chain
<1>7. QED
    BY <1>3, <1>4, <1>6 DEF Chain

-----------------------------------------------------------------------------
(* Calls and the resolve they share.                                       *)

LEMMA GetAccessTokenRotates ==
    ASSUME Typed, Coherent, Chain, NEW c \in Callers, GetAccessToken(c)
    PROVE  Chain'
<1>1. /\ UNCHANGED <<now, issued, live, era, do, kv, kvSeen, login, grants, dropped, raced>>
      /\ grants # {}
    BY DEF GetAccessToken, env, hist
<1>2. \/ UNCHANGED resolve
      \/ resolve' = [resolve EXCEPT ![c] = [pc |-> "kv", tok |-> do]]
    BY DEF GetAccessToken, Join, StartResolve
<1>3. \A d \in Callers : call'[d].pc \in {call[d].pc, "wait"}
    BY DEF GetAccessToken, Join, StartResolve, IdleCall, Typed
<1>4. \A d \in Callers : \/ resolve'[d] = resolve[d]
                         \/ d = c /\ resolve'[d] = [pc |-> "kv", tok |-> do]
    BY <1>2 DEF Typed
<1>5. Stamps' /\ Entries' /\ Answers'
    BY <1>1, <1>4, NothingNew DEF Records
<1>6. Current'
    BY <1>1, <1>4 DEF Chain, Current
<1>7. Connected'
    BY <1>1, <1>3 DEF Chain, Connected
<1>8. Ahead'
  <2> SUFFICES ASSUME \A d \in Callers : resolve'[d].pc # "answer"
               PROVE  /\ do'.rt # 0 => do'.rt \in live'
                      /\ \A t \in kvSeen' : t.rt # 0 =>
                           t.rt \in live' \/ (do'.rt # 0 /\ t.exp < do'.exp)
      BY DEF Ahead
  <2>1. CASE UNCHANGED resolve
      BY <1>1, <2>1 DEF Chain, Ahead
  <2>2. CASE StartResolve(c)
    <3>1. \A d \in Callers : resolve[d].pc # "answer"
      <4>1. inflight = {} /\ dropped = {}
          BY <2>2 DEF StartResolve, Chain, Connected
      <4>2. QED
          BY <4>1 DEF Coherent, Running
    <3>2. QED
        BY <1>1, <3>1 DEF Chain, Ahead
  <2>3. QED
      BY <2>1, <2>2 DEF GetAccessToken, Join
<1>9. QED
    BY <1>5, <1>6, <1>7, <1>8 DEF Chain

(* A stored record that can be redeemed is served or posted.               *)
LEMMA LiveResolves ==
    ASSUME NEW c \in Callers, NEW stored \in Token, ResolveStored(c, stored),
           stored.rt # 0, stored.era = era
    PROVE  \/ Settle(c, "ok", stored.real)
           \/ /\ resolve' = [resolve EXCEPT ![c] = [pc |-> "post", tok |-> stored]]
              /\ stored.exp <= now + Margin
              /\ UNCHANGED <<inflight, call, dropped, raced>>
    BY DEF ResolveStored, hist

(* Whichever record readToken prefers, it is live: a KV record that is     *)
(* dead expires before the one in storage.                                 *)
LEMMA PreferredIsLive ==
    ASSUME Typed, Coherent, Chain, NEW c \in Callers, resolve[c].pc = "kv",
           NEW fromKv \in kvSeen
    PROVE  /\ resolve[c].tok = do
           /\ MayAdopt(do, fromKv) =>
                /\ fromKv.rt # 0 /\ fromKv.rt \in live
                /\ do.rt # 0 => fromKv.exp >= do.exp
           /\ MayKeep(do, fromKv) => do.rt # 0
           /\ do.rt # 0 => do.rt \in live
           /\ \A t \in kvSeen : t.rt # 0 => t.rt \in live \/ (do.rt # 0 /\ t.exp < do.exp)
<1>1. c \in Running
    BY DEF Running
<1>2. \A d \in Callers : resolve[d].pc # "answer"
    BY <1>1, Alone DEF Running
<1>3. /\ do.rt # 0 => do.rt \in live
      /\ \A t \in kvSeen : t.rt # 0 => t.rt \in live \/ (do.rt # 0 /\ t.exp < do.exp)
    BY <1>2 DEF Chain, Ahead
<1>4. do.exp \in Nat /\ fromKv.exp \in Nat
    BY DEF Typed, Token
<1>5. do.rt # 0 \/ \A t \in kvSeen : t.rt # 0
    BY <1>1 DEF Chain, Connected
<1>6. QED
    BY <1>3, <1>4, <1>5 DEF MayAdopt, MayKeep, Chain, Current

LEMMA ReadTokenRotates ==
    ASSUME Typed, Coherent, Chain, NEW c \in Callers, ReadToken(c)
    PROVE  Chain' /\ \A d \in Callers : call'[d].pc = "reauth" => call[d].pc = "reauth"
<1>1. resolve[c].pc = "kv" /\ c \in Running
      /\ UNCHANGED <<env, kv, kvSeen, login, grants>>
    BY DEF ReadToken, Running
<1>2. PICK fromKv \in kvSeen :
         \/ MayAdopt(resolve[c].tok, fromKv) /\ do' = fromKv /\ ResolveStored(c, fromKv)
         \/ MayKeep(resolve[c].tok, fromKv) /\ do' = do /\ ResolveStored(c, resolve[c].tok)
    BY DEF ReadToken, Adopt
<1>3. /\ resolve[c].tok = do
      /\ MayAdopt(do, fromKv) =>
           /\ fromKv.rt # 0 /\ fromKv.rt \in live
           /\ do.rt # 0 => fromKv.exp >= do.exp
      /\ MayKeep(do, fromKv) => do.rt # 0
      /\ do.rt # 0 => do.rt \in live
      /\ \A t \in kvSeen : t.rt # 0 => t.rt \in live \/ (do.rt # 0 /\ t.exp < do.exp)
    BY <1>1, PreferredIsLive
<1>4. /\ do' \in Records /\ do'.rt # 0 /\ do'.rt \in live /\ ResolveStored(c, do')
      /\ do.rt # 0 => do'.exp >= do.exp
  <2>1. CASE MayAdopt(do, fromKv) /\ do' = fromKv /\ ResolveStored(c, fromKv)
      BY <1>3, <2>1 DEF Records
  <2>2. CASE MayKeep(do, fromKv) /\ do' = do /\ ResolveStored(c, do)
    <3>1. do.exp \in Nat
        BY DEF Typed, Token
    <3>2. QED
        BY <1>3, <2>2, <3>1 DEF Records
  <2>3. QED
      BY <1>2, <1>3, <2>1, <2>2
<1>5. do' \in Token /\ do'.era = era
    BY <1>4, RecordsTyped DEF Chain, Stamps
<1>6. Records' \subseteq Records
    BY <1>1, <1>4 DEF Records
<1>7. \A t \in kvSeen : t.rt # 0 => t.rt \in live \/ (do'.rt # 0 /\ t.exp < do'.exp)
  <2>1. \A t \in kvSeen : t.exp \in Nat
      BY DEF Typed, Token
  <2>2. do.exp \in Nat /\ do'.exp \in Nat
      BY <1>5 DEF Typed, Token
  <2>3. QED
      BY <1>3, <1>4, <2>1, <2>2
<1>8. CASE Settle(c, "ok", do'.real)
  <2>1. kv \in kvSeen
      BY DEF Chain, Connected
  <2>2. Chain'
      BY <1>1, <1>4, <1>6, <1>7, <1>8, <2>1, SettledChain
  <2>3. \A d \in Callers : call'[d].pc \in {call[d].pc, "ok"}
      BY <1>1, <1>8, SettleEffect
  <2>4. QED
      BY <2>2, <2>3
<1>9. CASE /\ resolve' = [resolve EXCEPT ![c] = [pc |-> "post", tok |-> do']]
           /\ do'.exp <= now + Margin
           /\ UNCHANGED <<inflight, call, dropped, raced>>
  <2>1. /\ resolve'[c] = [pc |-> "post", tok |-> do']
        /\ \A d \in Callers \ {c} : resolve'[d] = resolve[d] /\ resolve'[d].pc = "idle"
      BY <1>1, <1>9, Alone DEF Typed, Running
  <2>2. UNCHANGED <<now, issued, live, era>>
      BY <1>1 DEF env
  <2>3. Stamps' /\ Entries' /\ Answers'
      BY <1>1, <1>6, <2>1, <2>2, NothingNew
  <2>4. Ahead'
      BY <1>1, <1>4, <1>7, <2>2 DEF Ahead
  <2>5. Current'
      BY <1>4, <1>9, <2>1, <2>2 DEF Current
  <2>6. Connected'
      BY <1>1, <1>4, <1>9 DEF Chain, Connected
  <2>7. QED
      BY <1>9, <2>3, <2>4, <2>5, <2>6 DEF Chain
<1>10. QED
    BY <1>4, <1>5, <1>8, <1>9, LiveResolves

LEMMA WriteStorageRotates ==
    ASSUME Typed, Coherent, Chain, NEW c \in Callers, WriteStorage(c)
    PROVE  Chain'
<1> DEFINE new == [resolve[c].tok EXCEPT !.exp = now + Life]
<1>1. /\ resolve[c].pc = "answer" /\ c \in Running
      /\ do' = new /\ resolve' = [resolve EXCEPT ![c] = [pc |-> "put", tok |-> new]]
      /\ UNCHANGED <<now, issued, live, era, kv, kvSeen, inflight, call, login, grants, dropped, raced>>
    BY DEF WriteStorage, Running, env, hist
<1>2. resolve[c].tok \in Token
    BY DEF Typed, ResolveType
<1>3. new.rt = resolve[c].tok.rt /\ new.era = resolve[c].tok.era /\ new.exp = now + Life
    BY <1>2 DEF Token
<1> HIDE DEF new
<1>4. /\ resolve'[c] = [pc |-> "put", tok |-> new]
      /\ \A d \in Callers \ {c} : resolve'[d] = resolve[d] /\ resolve'[d].pc = "idle"
    BY <1>1, Alone DEF Typed, Running
<1>5. /\ new.rt \in live /\ new.era = era /\ new.rt # 0 /\ new.rt <= issued
      /\ \A t \in Records : t.rt # new.rt /\ (t.rt # 0 => t.rt \in live \/ t.exp < now + Life)
      /\ \A l \in Logins : Pending(l) => login[l].tok.rt # new.rt
  <2>1. new.rt \in live
      BY <1>1, <1>3 DEF Chain, Answers
  <2>2. new.rt # 0 /\ new.rt <= issued
    <3>1. live \subseteq 1..issued /\ issued \in Nat
        BY DEF Typed
    <3>2. new.rt \in 1..issued
        BY <2>1, <3>1
    <3>3. QED
        BY <3>1, <3>2
  <2>3. QED
      BY <1>1, <1>3, <2>1, <2>2 DEF Chain, Answers
<1>6. Records' \subseteq Records \union {new}
    BY <1>1 DEF Records
<1>7. Stamps'
  <2>1. now + Life <= now + Life
      BY ConstantsAssumption DEF Typed
  <2>2. QED
      BY <1>1, <1>3, <1>5, <1>6, <2>1 DEF Chain, Stamps
<1>8. Entries'
  <2>1. \A l \in Logins : Pending(l)' <=> Pending(l)
      BY <1>1 DEF Pending
  <2>2. \A l \in Logins : login[l].pc \in {"consent", "seed"} => login[l].tok.rt # new.rt
      BY <1>5 DEF Pending
  <2>3. QED
      BY <1>1, <1>6, <2>1, <2>2 DEF Chain, Entries
<1>9. Answers'
    BY <1>4 DEF Answers
<1>10. Ahead'
    BY <1>1, <1>3, <1>5 DEF Ahead, Records
<1>11. Current'
    BY <1>1, <1>4, <1>5 DEF Current
<1>12. Connected'
    BY <1>1, <1>5 DEF Chain, Connected
<1>13. QED
    BY <1>7, <1>8, <1>9, <1>10, <1>11, <1>12 DEF Chain

LEMMA WriteKvRotates ==
    ASSUME Typed, Coherent, Chain, NEW c \in Callers, WriteKv(c)
    PROVE  Chain' /\ \A d \in Callers : call'[d].pc = "reauth" => call[d].pc = "reauth"
<1>1. /\ resolve[c].pc = "put" /\ c \in Running /\ resolve[c].tok = do /\ do.rt # 0
      /\ KvPut(do) /\ Settle(c, "ok", do.real) /\ UNCHANGED <<env, do, login, grants>>
    BY DEF WriteKv, Running, Chain, Current
<1>2. \A d \in Callers : resolve[d].pc # "answer"
    BY <1>1, Alone DEF Running
<1>3. /\ do.rt \in live
      /\ \A t \in kvSeen : t.rt # 0 => t.rt \in live \/ (do.rt # 0 /\ t.exp < do.exp)
    BY <1>1, <1>2 DEF Chain, Ahead
<1>4. kv' = do /\ kvSeen' = kvSeen \union {do} /\ Records' = Records
    BY <1>1 DEF KvPut, Records
<1>5. Chain'
    BY <1>1, <1>3, <1>4, SettledChain
<1>6. \A d \in Callers : call'[d].pc \in {call[d].pc, "ok"}
    BY <1>1, SettleEffect
<1>7. QED
    BY <1>5, <1>6

(* IdentityServer accepts what is posted, and the record of the token it   *)
(* retires is due, so that its successor will outlast it.                  *)
LEMMA RedeemRotates ==
    ASSUME Typed, Coherent, Chain, NEW c \in Callers, Redeem(c)
    PROVE  Chain'
<1> DEFINE new == [rt |-> issued + 1, exp |-> 0, real |-> now + Life, era |-> era]
<1>1. /\ resolve[c].pc = "post" /\ c \in Running /\ resolve[c].tok = do
      /\ do.rt # 0 /\ do.exp <= now + Margin
    BY DEF Redeem, Running, Chain, Current
<1>2. /\ do.rt \in live
      /\ \A t \in kvSeen : t.rt # 0 => t.rt \in live \/ (do.rt # 0 /\ t.exp < do.exp)
    BY <1>1, Alone DEF Chain, Ahead, Running
<1>3. /\ issued' = issued + 1 /\ live' = (live \ {do.rt}) \union {issued + 1}
      /\ resolve' = [resolve EXCEPT ![c] = [pc |-> "answer", tok |-> new]]
      /\ UNCHANGED <<now, era, do, kv, kvSeen, inflight, call, login, grants, dropped, raced>>
    BY <1>1, <1>2 DEF Redeem, hist
<1>4. new.rt = issued + 1 /\ new.era = era
    OBVIOUS
<1>5. /\ resolve'[c].pc = "answer" /\ resolve'[c].tok.rt = issued + 1
      /\ resolve'[c].tok.era = era
      /\ \A d \in Callers \ {c} : resolve'[d] = resolve[d] /\ resolve'[d].pc = "idle"
    BY <1>1, <1>3, Alone DEF Typed, Running
<1> HIDE DEF new
<1>6. /\ issued \in Nat /\ live \subseteq 1..issued /\ now \in Nat
      /\ Life \in Nat /\ Margin \in Nat /\ Life > Margin
    BY ConstantsAssumption DEF Typed
<1>7. Records' = Records /\ \A t \in Records : t.rt \in Nat /\ t.exp \in Nat
    BY <1>3, RecordsTyped DEF Records, Token
<1>8. \A t \in Records : t.rt # issued + 1 /\ (t.rt # 0 => t.rt <= issued + 1)
    BY <1>6, <1>7 DEF Chain, Stamps
<1>9. \A l \in Logins : Pending(l) =>
         login[l].tok.rt \in live /\ login[l].tok.rt # do.rt /\ login[l].tok.rt # issued + 1
  <2> SUFFICES ASSUME NEW l \in Logins, Pending(l)
               PROVE  /\ login[l].tok.rt \in live /\ login[l].tok.rt # do.rt
                      /\ login[l].tok.rt # issued + 1
      OBVIOUS
  <2>1. do \in Records
      BY DEF Records
  <2>2. login[l].tok.rt \in live
      BY DEF Chain, Entries
  <2>3. CASE login[l].pc = "consent"
      BY <1>6, <2>1, <2>2, <2>3 DEF Chain, Entries
  <2>4. CASE login[l].pc = "seed"
    <3>1. do.rt = login[l].tok.rt => do.exp = now + Life
        BY <2>1, <2>4 DEF Chain, Entries
    <3>2. do.exp \in Nat
        BY <1>7, <2>1
    <3>3. QED
        BY <1>1, <1>6, <2>2, <3>1, <3>2
  <2>5. QED
      BY <2>3, <2>4 DEF Pending
<1>10. Stamps'
    BY <1>3, <1>7, <1>8 DEF Chain, Stamps
<1>11. Entries'
  <2>1. \A l \in Logins : Pending(l)' <=> Pending(l)
      BY <1>3 DEF Pending
  <2>2. QED
      BY <1>3, <1>7, <1>9, <2>1 DEF Chain, Entries
<1>12. Answers'
  <2>1. issued + 1 \in live'
      BY <1>3
  <2>2. ASSUME NEW t \in Records, t.rt # 0
        PROVE  t.rt \in live' \/ t.exp < now + Life
    <3>1. do \in Records /\ do.exp \in Nat /\ t.exp \in Nat
        BY <1>7 DEF Records
    <3>2. CASE t.rt = do.rt
      <4>1. t.exp = do.exp
          BY <2>2, <3>1, <3>2 DEF Chain, Stamps
      <4>2. QED
          BY <1>1, <1>6, <3>1, <4>1
    <3>3. CASE t.rt # do.rt
      <4>1. t.rt \in live \/ t.exp < do.exp
          BY <1>2, <2>2, <3>3 DEF Records
      <4>2. CASE t.rt \in live
          BY <1>3, <3>3, <4>2
      <4>3. CASE t.exp < do.exp
          BY <1>1, <1>6, <3>1, <4>3
      <4>4. QED
          BY <4>1, <4>2, <4>3
    <3>4. QED
        BY <3>2, <3>3
  <2>3. \A l \in Logins : Pending(l)' => login'[l].tok.rt # issued + 1
      BY <1>3, <1>9 DEF Pending
  <2>4. QED
      BY <1>3, <1>5, <1>7, <1>8, <2>1, <2>2, <2>3 DEF Answers
<1>13. Ahead'
    BY <1>5 DEF Ahead
<1>14. Current'
    BY <1>5 DEF Current
<1>15. Connected'
    BY <1>1, <1>3 DEF Chain, Connected
<1>16. QED
    BY <1>10, <1>11, <1>12, <1>13, <1>14, <1>15 DEF Chain

(* The bound on tokens, not a fault, leaves a POST unanswered.             *)
LEMMA UnansweredRotates ==
    ASSUME Typed, Coherent, Chain, NEW c \in Callers,
           resolve[c].pc = "post", Settle(c, "idle", 0),
           UNCHANGED <<env, do, kv, kvSeen, login, grants>>
    PROVE  Chain'
<1>1. c \in Running /\ do.rt # 0
    BY DEF Running, Chain, Current
<1>2. /\ do.rt \in live
      /\ \A t \in kvSeen : t.rt # 0 => t.rt \in live \/ (do.rt # 0 /\ t.exp < do.exp)
    BY <1>1, Alone DEF Chain, Ahead, Running
<1>3. Records' \subseteq Records /\ kv \in kvSeen
    BY DEF Records, Chain, Connected
<1>4. QED
    BY <1>1, <1>2, <1>3, SettledChain

-----------------------------------------------------------------------------
(* Logins.                                                                 *)

LEMMA ExchangeRotates ==
    ASSUME Typed, Chain, NEW l \in Logins, Exchange(l)
    PROVE  Chain'
<1>1. /\ login[l].pc = "out" /\ issued' = issued + 1
      /\ live' = live \union {issued + 1}
      /\ UNCHANGED <<now, era, do, kv, kvSeen, inflight, resolve, call, grants, dropped, raced>>
    BY DEF Exchange, hist
<1>2. /\ login'[l].pc = "consent" /\ login'[l].tok.rt = issued + 1
      /\ \A k \in Logins \ {l} : login'[k] = login[k]
    BY DEF Exchange, Typed
<1>3. issued \in Nat /\ live \subseteq 1..issued
    BY DEF Typed
<1>4. Records' = Records /\ \A t \in Records : t.rt \in Nat
    BY <1>1, RecordsTyped DEF Records, Token
<1>5. \A t \in Records : t.rt # issued + 1 /\ (t.rt # 0 => t.rt <= issued + 1)
    BY <1>3, <1>4 DEF Chain, Stamps
<1>6. \A k \in Logins : Pending(k) => login[k].tok.rt \in live /\ login[k].tok.rt # issued + 1
    BY <1>3 DEF Chain, Entries
<1>7. \A k \in Logins \ {l} : Pending(k)' <=> Pending(k)
    BY <1>2 DEF Pending
<1>8. Stamps'
    BY <1>1, <1>4, <1>5 DEF Chain, Stamps
<1>9. Entries'
  <2>1. \A k \in Logins : Pending(k)' => login'[k].tok.rt \in live'
      BY <1>1, <1>2, <1>6, <1>7
  <2>2. \A k \in Logins, t \in Records' : login'[k].pc = "consent" => t.rt # login'[k].tok.rt
      BY <1>2, <1>4, <1>5 DEF Chain, Entries
  <2>3. \A k \in Logins : login'[k].pc = "seed" =>
          /\ login'[k].tok.exp = now' + Life /\ login'[k].tok.era = era'
          /\ \A t \in Records' : t.rt = login'[k].tok.rt => t.exp = login'[k].tok.exp
      BY <1>1, <1>2, <1>4 DEF Chain, Entries
  <2>4. \A j, k \in Logins : Pending(j)' /\ Pending(k)' /\ j # k =>
          login'[j].tok.rt # login'[k].tok.rt
      BY <1>2, <1>6, <1>7 DEF Chain, Entries
  <2>5. QED
      BY <2>1, <2>2, <2>3, <2>4 DEF Entries
<1>10. Answers'
  <2> SUFFICES ASSUME NEW c \in Callers, resolve[c].pc = "answer"
               PROVE  /\ resolve[c].tok.rt \in live' /\ resolve[c].tok.era = era
                      /\ \A t \in Records :
                           /\ t.rt # resolve[c].tok.rt
                           /\ t.rt # 0 => t.rt \in live' \/ t.exp < now + Life
                      /\ \A k \in Logins : Pending(k)' => login'[k].tok.rt # resolve[c].tok.rt
      BY <1>1, <1>4 DEF Answers
  <2>1. /\ resolve[c].tok.rt \in live /\ resolve[c].tok.era = era
        /\ \A t \in Records :
             /\ t.rt # resolve[c].tok.rt
             /\ t.rt # 0 => t.rt \in live \/ t.exp < now + Life
        /\ \A k \in Logins : Pending(k) => login[k].tok.rt # resolve[c].tok.rt
      BY DEF Chain, Answers
  <2>2. resolve[c].tok.rt # issued + 1
      BY <1>3, <2>1
  <2>3. QED
      BY <1>1, <1>2, <1>7, <2>1, <2>2
<1>11. Ahead' /\ Current'
    BY <1>1 DEF Chain, Ahead, Current
<1>12. Connected'
    BY <1>1, <1>2 DEF Chain, Connected, Running
<1>13. QED
    BY <1>8, <1>9, <1>10, <1>11, <1>12 DEF Chain

LEMMA AcceptConsentRotates ==
    ASSUME Typed, Chain, NEW l \in Logins, AcceptConsent(l)
    PROVE  Chain'
<1> DEFINE stored == [login[l].tok EXCEPT !.exp = now + Life, !.era = era]
<1>1. /\ login[l].pc = "consent" /\ KvPut(stored)
      /\ login' = [login EXCEPT ![l].pc = "seed", ![l].tok = stored]
      /\ UNCHANGED <<now, issued, live, era, do, inflight, resolve, call, grants, dropped, raced>>
    BY DEF AcceptConsent, env, hist
<1>2. login[l].tok \in Token
    BY DEF Typed, LoginType
<1>3. stored.rt = login[l].tok.rt /\ stored.exp = now + Life /\ stored.era = era
    BY <1>2 DEF Token
<1> HIDE DEF stored
<1>4. /\ login'[l].pc = "seed" /\ login'[l].tok = stored
      /\ \A k \in Logins \ {l} : login'[k] = login[k]
    BY <1>1 DEF Typed, LoginType
<1>5. kv' = stored /\ kvSeen' = kvSeen \union {stored} /\ Records' = Records \union {stored}
    BY <1>1 DEF KvPut, Records
<1>6. Pending(l) /\ \A k \in Logins : Pending(k)' <=> Pending(k)
    BY <1>1, <1>4 DEF Pending
<1>7. /\ stored.rt \in live
      /\ \A t \in Records : t.rt # stored.rt
      /\ \A k \in Logins \ {l} : Pending(k) => login[k].tok.rt # stored.rt
      /\ \A c \in Callers : resolve[c].pc = "answer" => resolve[c].tok.rt # stored.rt
    BY <1>1, <1>3, <1>6 DEF Chain, Entries, Answers
<1>8. stored.rt # 0 /\ stored.rt <= issued
  <2>1. live \subseteq 1..issued /\ issued \in Nat
      BY DEF Typed
  <2>2. stored.rt \in 1..issued
      BY <1>7, <2>1
  <2>3. QED
      BY <2>1, <2>2
<1>9. Stamps'
  <2>1. now + Life <= now + Life
      BY ConstantsAssumption DEF Typed
  <2>2. QED
      BY <1>1, <1>3, <1>5, <1>7, <1>8, <2>1 DEF Chain, Stamps
<1>10. Entries'
  <2>1. ASSUME NEW k \in Logins, Pending(k)'
        PROVE  login'[k].tok.rt \in live'
    <3>1. CASE k = l
        BY <1>1, <1>4, <1>7, <3>1
    <3>2. CASE k # l
      <4>1. login'[k] = login[k] /\ Pending(k)
          BY <1>4, <1>6, <2>1, <3>2
      <4>2. login[k].tok.rt \in live
          BY <4>1 DEF Chain, Entries
      <4>3. live' = live
          BY <1>1
      <4>4. QED
          BY <4>1, <4>2, <4>3
    <3>3. QED
        BY <3>1, <3>2
  <2>2. \A k \in Logins, t \in Records' : login'[k].pc = "consent" => t.rt # login'[k].tok.rt
    <3> SUFFICES ASSUME NEW k \in Logins, NEW t \in Records', login'[k].pc = "consent"
                 PROVE  t.rt # login'[k].tok.rt
        OBVIOUS
    <3>1. k # l /\ login'[k] = login[k] /\ Pending(k)
        BY <1>4, <1>6 DEF Pending
    <3>2. QED
        BY <1>5, <1>7, <3>1 DEF Chain, Entries
  <2>3. ASSUME NEW k \in Logins, login'[k].pc = "seed"
        PROVE  /\ login'[k].tok.exp = now' + Life /\ login'[k].tok.era = era'
               /\ \A t \in Records' : t.rt = login'[k].tok.rt => t.exp = login'[k].tok.exp
    <3>1. CASE k = l
        BY <1>1, <1>3, <1>4, <1>5, <1>7, <3>1
    <3>2. CASE k # l
      <4>1. login'[k] = login[k] /\ Pending(k)
          BY <1>4, <2>3, <3>2 DEF Pending
      <4>2. QED
          BY <1>1, <1>5, <1>7, <2>3, <3>2, <4>1 DEF Chain, Entries
    <3>3. QED
        BY <3>1, <3>2
  <2>4. \A j, k \in Logins : Pending(j)' /\ Pending(k)' /\ j # k =>
          login'[j].tok.rt # login'[k].tok.rt
      BY <1>3, <1>4, <1>6, <1>7 DEF Chain, Entries
  <2>5. QED
      BY <2>1, <2>2, <2>3, <2>4 DEF Entries
<1>11. Answers'
  <2> SUFFICES ASSUME NEW c \in Callers, resolve[c].pc = "answer"
               PROVE  /\ resolve[c].tok.rt \in live /\ resolve[c].tok.era = era
                      /\ \A t \in Records \union {stored} :
                           /\ t.rt # resolve[c].tok.rt
                           /\ t.rt # 0 => t.rt \in live \/ t.exp < now + Life
                      /\ \A k \in Logins : Pending(k)' => login'[k].tok.rt # resolve[c].tok.rt
      BY <1>1, <1>5 DEF Answers
  <2>1. /\ resolve[c].tok.rt \in live /\ resolve[c].tok.era = era
        /\ \A t \in Records :
             /\ t.rt # resolve[c].tok.rt
             /\ t.rt # 0 => t.rt \in live \/ t.exp < now + Life
        /\ \A k \in Logins : Pending(k) => login[k].tok.rt # resolve[c].tok.rt
      BY DEF Chain, Answers
  <2>2. \A t \in Records \union {stored} :
           /\ t.rt # resolve[c].tok.rt
           /\ t.rt # 0 => t.rt \in live \/ t.exp < now + Life
      BY <1>7, <2>1
  <2>3. ASSUME NEW k \in Logins, Pending(k)'
        PROVE  login'[k].tok.rt # resolve[c].tok.rt
    <3>1. CASE k = l
        BY <1>4, <1>7, <3>1
    <3>2. CASE k # l
        BY <1>4, <1>6, <2>1, <2>3, <3>2
    <3>3. QED
        BY <3>1, <3>2
  <2>4. QED
      BY <2>1, <2>2, <2>3
<1>12. Ahead' /\ Current'
    BY <1>1, <1>5, <1>7 DEF Chain, Ahead, Current
<1>13. Connected'
    BY <1>1, <1>4, <1>5, <1>8 DEF Chain, Connected, Running
<1>14. QED
    BY <1>9, <1>10, <1>11, <1>12, <1>13 DEF Chain

(* The login's token takes the place of an older one; nothing was running. *)
LEMMA SetTokenRotates ==
    ASSUME Typed, Coherent, Chain, NEW l \in Logins, SetToken(l), ~raced'
    PROVE  Chain'
<1> DEFINE new == login[l].tok
<1>1. /\ login[l].pc = "seed" /\ inflight = {} /\ do' = new
      /\ inflight' = {} /\ dropped' = dropped \union inflight
      /\ login' = [login EXCEPT ![l].pc = "grant"]
      /\ UNCHANGED <<now, issued, live, era, kv, kvSeen, resolve, call, grants>>
    BY DEF SetToken, env
<1>2. /\ login'[l].pc = "grant"
      /\ \A k \in Logins \ {l} : login'[k] = login[k]
    BY <1>1 DEF Typed, LoginType
<1>3. dropped = {} /\ Running = {}
    BY <1>1 DEF Chain, Connected, Coherent
<1>4. \A c \in Callers : resolve'[c].pc = "idle"
    BY <1>1, <1>3 DEF Running
<1>5. /\ Pending(l) /\ new.rt \in live
      /\ new.exp = now + Life /\ new.era = era
      /\ \A t \in Records : t.rt = new.rt => t.exp = new.exp
      /\ \A k \in Logins \ {l} : Pending(k) => login[k].tok.rt # new.rt
    BY <1>1 DEF Chain, Entries, Pending
<1>6. new.rt # 0 /\ new.rt <= issued
  <2>1. live \subseteq 1..issued /\ issued \in Nat
      BY DEF Typed
  <2>2. new.rt \in 1..issued
      BY <1>5, <2>1
  <2>3. QED
      BY <2>1, <2>2
<1> HIDE DEF new
<1>7. Records' \subseteq Records \union {new} /\ do \in Records
    BY <1>1 DEF Records
<1>8. \A k \in Logins : Pending(k)' => k # l /\ Pending(k) /\ login'[k] = login[k]
    BY <1>2 DEF Pending
<1>9. Stamps'
  <2>1. now + Life <= now + Life
      BY ConstantsAssumption DEF Typed
  <2>2. QED
      BY <1>1, <1>5, <1>6, <1>7, <2>1 DEF Chain, Stamps
<1>10. Entries'
  <2>1. \A k \in Logins : Pending(k)' => login'[k].tok.rt \in live'
      BY <1>1, <1>8 DEF Chain, Entries
  <2>2. ASSUME NEW k \in Logins, NEW t \in Records', login'[k].pc = "consent"
        PROVE  t.rt # login'[k].tok.rt
    <3>1. k # l /\ Pending(k) /\ login'[k] = login[k]
        BY <1>8, <2>2 DEF Pending
    <3>2. QED
        BY <1>5, <1>7, <2>2, <3>1 DEF Chain, Entries
  <2>3. ASSUME NEW k \in Logins, login'[k].pc = "seed"
        PROVE  /\ login'[k].tok.exp = now' + Life /\ login'[k].tok.era = era'
               /\ \A t \in Records' : t.rt = login'[k].tok.rt => t.exp = login'[k].tok.exp
    <3>1. k # l /\ Pending(k) /\ login'[k] = login[k]
        BY <1>8, <2>3 DEF Pending
    <3>2. QED
        BY <1>1, <1>5, <1>7, <2>3, <3>1 DEF Chain, Entries
  <2>4. \A j, k \in Logins : Pending(j)' /\ Pending(k)' /\ j # k =>
          login'[j].tok.rt # login'[k].tok.rt
      BY <1>8 DEF Chain, Entries
  <2>5. QED
      BY <2>1, <2>2, <2>3, <2>4 DEF Entries
<1>11. Answers' /\ Current'
    BY <1>4 DEF Answers, Current
<1>12. Ahead'
  <2>1. \A t \in kvSeen : t.rt # 0 => t.rt \in live \/ (do.rt # 0 /\ t.exp < do.exp)
      BY <1>3 DEF Chain, Ahead, Running
  <2>2. do.rt # 0 => do.exp <= now + Life
      BY <1>7 DEF Chain, Stamps
  <2>3. /\ do.exp \in Nat /\ now + Life \in Nat /\ \A t \in kvSeen : t.exp \in Nat
      BY ConstantsAssumption DEF Typed, Token
  <2>4. \A t \in kvSeen : t.rt # 0 => t.rt \in live \/ t.exp < new.exp
      BY <1>5, <2>1, <2>2, <2>3
  <2>5. QED
      BY <1>1, <1>5, <1>6, <2>4 DEF Ahead
<1>13. Connected'
  <2>1. \A k \in Logins : login'[k].pc = "grant" => do'.rt # 0
      BY <1>1, <1>6
  <2>2. QED
      BY <1>1, <1>3, <1>6, <2>1 DEF Chain, Connected
<1>14. QED
    BY <1>9, <1>10, <1>11, <1>12, <1>13 DEF Chain

LEMMA LoginEndsRotates ==
    ASSUME Typed, Chain, NEW l \in Logins, CompleteAuthorization(l) \/ LoginEnds(l)
    PROVE  Chain'
<1>1. /\ UNCHANGED <<now, issued, live, era, do, kv, kvSeen, inflight, resolve, call,
                     dropped, raced>>
      /\ login' = [login EXCEPT ![l] = EndedLogin]
      /\ UNCHANGED grants \/ do.rt # 0
    BY DEF CompleteAuthorization, LoginEnds, env, hist, Chain, Connected
<1>2. \A k \in Logins : login'[k] = login[k] \/ login'[k].pc = "done"
    BY <1>1 DEF Typed, EndedLogin
<1>3. Stamps' /\ Entries' /\ Answers'
    BY <1>1, <1>2, NothingNew DEF Records
<1>4. Ahead' /\ Current'
    BY <1>1 DEF Chain, Ahead, Current
<1>5. Connected'
    BY <1>1, <1>2 DEF Chain, Connected, Running
<1>6. QED
    BY <1>3, <1>4, <1>5 DEF Chain

-----------------------------------------------------------------------------
(* The environment.                                                        *)

LEMMA KvSettlesRotates == ASSUME Typed, Chain, KvSettles PROVE Chain'
<1>1. /\ UNCHANGED <<now, issued, live, era, do, kv, inflight, resolve, call, login, grants,
                     dropped, raced>>
      /\ kvSeen' = {kv} /\ kv \in kvSeen
    BY DEF KvSettles, env, hist, Chain, Connected
<1>2. Stamps' /\ Entries' /\ Answers'
    BY <1>1, NothingNew DEF Records
<1>3. Ahead' /\ Current'
    BY <1>1 DEF Chain, Ahead, Current
<1>4. Connected'
    BY <1>1 DEF Chain, Connected, Running
<1>5. QED
    BY <1>2, <1>3, <1>4 DEF Chain

LEMMA TickRotates == ASSUME Typed, Chain, Tick PROVE Chain'
<1>1. /\ UNCHANGED <<issued, live, era, do, kv, kvSeen, inflight, resolve, call, login, grants,
                     dropped, raced>>
      /\ now' = now + 1 /\ Running = {}
      /\ \A l \in Logins : login[l].pc \notin {"seed", "grant"}
    BY DEF Tick, hist
<1>2. \A c \in Callers : resolve[c].pc = "idle"
    BY <1>1 DEF Running
<1>3. Records' = Records /\ now \in Nat /\ Life \in Nat
      /\ \A t \in Records : t.exp \in Nat
    BY <1>1, RecordsTyped, ConstantsAssumption DEF Records, Typed, Token
<1>4. Stamps'
  <2>1. \A t \in Records : t.exp <= now + Life => t.exp <= now' + Life
      BY <1>1, <1>3
  <2>2. QED
      BY <1>1, <1>3, <2>1 DEF Chain, Stamps
<1>5. Entries'
    BY <1>1, <1>3 DEF Chain, Entries, Pending
<1>6. Answers' /\ Current'
    BY <1>1, <1>2 DEF Answers, Current
<1>7. Ahead' /\ Connected'
    BY <1>1 DEF Chain, Ahead, Connected, Running
<1>8. QED
    BY <1>4, <1>5, <1>6, <1>7 DEF Chain

-----------------------------------------------------------------------------
LEMMA FaultsEnd == ASSUME Typed, Fault PROVE faults' # 0
    BY DEF Typed, Fault

LEMMA StaysSerialised == Typed /\ [Next]_vars /\ Serialised' => Serialised
<1> SUFFICES ASSUME Typed, [Next]_vars, faults' = 0, ~raced' PROVE faults = 0 /\ ~raced
    BY DEF Serialised
<1> USE FaultsEnd
<1>1. ASSUME NEW c \in Callers, GetAccessToken(c) \/ ListUserGrants(c) \/ RevokeGrants(c)
      PROVE  faults = 0 /\ ~raced
    BY <1>1 DEF GetAccessToken, ListUserGrants, RevokeGrants, env, hist
<1>2. ASSUME NEW c \in Callers, ReadToken(c)
      PROVE  faults = 0 /\ ~raced
    BY <1>2 DEF ReadToken, ResolveStored, Settle, env, hist
<1>3. ASSUME NEW c \in Callers, WriteStorage(c) \/ WriteKv(c) \/ Refused(c) \/ Redeem(c)
      PROVE  faults = 0 /\ ~raced
    BY <1>3 DEF WriteStorage, WriteKv, Refused, Redeem, Settle, env, hist
<1>4. ASSUME NEW c \in Callers, ReadFails(c) \/ WriteKvFails(c) \/ Unanswered(c)
      PROVE  faults = 0 /\ ~raced
    BY <1>4 DEF ReadFails, WriteKvFails, Unanswered, Settle
<1>5. ASSUME NEW l \in Logins, LoginStep(l)
      PROVE  faults = 0 /\ ~raced
  <2>1. CASE SetToken(l)
      BY <2>1 DEF SetToken, env
  <2>2. CASE Exchange(l) \/ AcceptConsent(l) \/ CompleteAuthorization(l) \/ LoginEnds(l)
      BY <2>2 DEF Exchange, AcceptConsent, CompleteAuthorization, LoginEnds, env, hist
  <2>3. QED
      BY <1>5, <2>1, <2>2 DEF LoginStep, SeedFails
<1>6. CASE Restart \/ KvSettles \/ Tick
    BY <1>6 DEF Restart, KvSettles, Tick, env, hist
<1>7. CASE UNCHANGED vars
    BY <1>7 DEF vars
<1>8. QED
    BY <1>1, <1>2, <1>3, <1>4, <1>5, <1>6, <1>7 DEF Next, ResolveStep, CallStep

LEMMA RotationNext ==
    Typed /\ Coherent /\ Rotation /\ [Next]_vars => Rotation'
<1> SUFFICES ASSUME Typed, Coherent, Chain, [Next]_vars, faults' = 0, ~raced'
             PROVE  Chain'
    BY StaysSerialised DEF Rotation, Serialised
<1>f. ~Fault
    BY FaultsEnd
<1>1. ASSUME NEW c \in Callers, ResolveStep(c)
      PROVE  Chain'
  <2>1. CASE ReadToken(c) \/ WriteStorage(c) \/ WriteKv(c) \/ Redeem(c)
      BY <2>1, ReadTokenRotates, WriteStorageRotates, WriteKvRotates, RedeemRotates
  <2>2. CASE Refused(c)
    <3>1. resolve[c].tok.rt \in live /\ resolve[c].tok.rt = 0
        BY <2>2 DEF Refused, Chain, Answers
    <3>2. 0 \notin live
        BY DEF Typed
    <3>3. QED
        BY <3>1, <3>2
  <2>3. CASE Unanswered(c)
      BY <1>f, <2>3, UnansweredRotates DEF Unanswered, env
  <2>4. QED
      BY <1>1, <1>f, <2>1, <2>2, <2>3 DEF ResolveStep, ReadFails, WriteKvFails
<1>2. ASSUME NEW c \in Callers, CallStep(c)
      PROVE  Chain'
    BY <1>2, GetAccessTokenRotates DEF CallStep, ListUserGrants, RevokeGrants, Chain, Connected
<1>3. ASSUME NEW l \in Logins, LoginStep(l)
      PROVE  Chain'
    BY <1>3, <1>f, ExchangeRotates, AcceptConsentRotates, SetTokenRotates, LoginEndsRotates
       DEF LoginStep, SeedFails
<1>4. CASE UNCHANGED vars
    BY <1>4 DEF vars, Chain, Stamps, Entries, Answers, Ahead, Current, Connected, Records,
                Pending, Running
<1>5. QED
    BY <1>1, <1>2, <1>3, <1>4, <1>f, KvSettlesRotates, TickRotates DEF Next, Restart

LEMMA RotationInit == Init => Rotation
<1> SUFFICES ASSUME Init PROVE Chain
    BY DEF Rotation
<1> USE ConstantsAssumption DEF Init
<1>1. /\ \A c \in Callers : resolve[c].pc = "idle" /\ call[c].pc = "idle"
      /\ \A l \in Logins : login[l].pc \in {"out", "done"}
    BY DEF IdleResolve, IdleCall, FreshLogin, EndedLogin
<1>2. Records = {kv, NoToken} /\ do.rt = 0
    BY DEF Records, NoToken
<1>3. \/ kv = NoToken /\ grants = {}
      \/ kv.rt = 1 /\ kv.exp = Life /\ kv.era = 0 /\ issued = 1 /\ live = {1}
    OBVIOUS
<1>4. NoToken.rt = 0
    BY DEF NoToken
<1>5. Stamps
    BY <1>2, <1>3, <1>4 DEF Stamps
<1>6. Entries /\ Answers /\ Current
    BY <1>1 DEF Entries, Answers, Current, Pending
<1>7. Ahead
    BY <1>2, <1>3, <1>4 DEF Ahead
<1>8. Connected
    BY <1>1, <1>3 DEF Connected, Running
<1>9. QED
    BY <1>5, <1>6, <1>7, <1>8 DEF Chain

LEMMA RotationAlways == Spec => []Rotation
<1>1. Typed /\ Coherent /\ Rotation /\ [Next]_vars => Rotation'
    BY RotationNext
<1>2. QED
    BY <1>1, RotationInit, PromisesCoherent, PTL DEF Spec

(* Rotation loses no token: without faults and overtaking logins, what the *)
(* object stores can be redeemed, or its successor is about to be stored,  *)
(* although readToken trusts whichever record expires later.               *)
THEOREM StoredTokenLiveAlways == Spec => []StoredTokenLive
<1>1. Rotation => StoredTokenLive
    BY DEF Rotation, Chain, Ahead, Answers, StoredTokenLive, Running
<1>2. QED
    BY <1>1, RotationAlways, PTL

LEMMA NobodyEvicted ==
    ASSUME Typed, Coherent, Rotation, Serialised, [Next]_vars,
           NEW c \in Callers, call'[c].pc = "reauth"
    PROVE  call[c].pc = "reauth"
<1>0. Chain
    BY DEF Rotation
<1>1. ASSUME NEW d \in Callers, ReadToken(d) \/ WriteKv(d)
      PROVE  call[c].pc = "reauth"
    BY <1>0, <1>1, ReadTokenRotates, WriteKvRotates
<1>2. ASSUME NEW d \in Callers, ReadFails(d) \/ WriteKvFails(d) \/ Unanswered(d)
      PROVE  call[c].pc = "reauth"
  <2>1. d \in Running /\ Settle(d, "idle", 0)
      BY <1>2 DEF ReadFails, WriteKvFails, Unanswered, Running
  <2>2. call'[c].pc \in {call[c].pc, "idle"}
      BY <1>0, <2>1, SettleEffect
  <2>3. QED
      BY <2>2
<1>3. ASSUME NEW d \in Callers, Refused(d)
      PROVE  FALSE
  <2>1. resolve[d].tok.rt \in live /\ resolve[d].tok.rt = 0
      BY <1>0, <1>3 DEF Refused, Chain, Answers
  <2>2. 0 \notin live
      BY DEF Typed
  <2>3. QED
      BY <2>1, <2>2
<1>4. ASSUME NEW d \in Callers, WriteStorage(d) \/ Redeem(d)
      PROVE  call[c].pc = "reauth"
    BY <1>4 DEF WriteStorage, Redeem
<1>5. ASSUME NEW d \in Callers, CallStep(d)
      PROVE  call[c].pc = "reauth"
  <2>1. CASE GetAccessToken(d)
      BY <2>1 DEF GetAccessToken, Join, StartResolve, IdleCall, Typed
  <2>2. QED
      BY <1>0, <1>5, <2>1 DEF CallStep, ListUserGrants, RevokeGrants, Chain, Connected
<1>6. ASSUME NEW l \in Logins, LoginStep(l)
      PROVE  call[c].pc = "reauth"
    BY <1>6 DEF LoginStep, Exchange, AcceptConsent, SetToken, SeedFails,
                CompleteAuthorization, LoginEnds
<1>7. CASE Restart
    BY <1>7 DEF Restart, IdleCall
<1>8. CASE KvSettles \/ Tick \/ UNCHANGED vars
    BY <1>8 DEF KvSettles, Tick, vars
<1>9. QED
    BY <1>1, <1>2, <1>3, <1>4, <1>5, <1>6, <1>7, <1>8 DEF Next, ResolveStep

(* Concurrent sessions do not evict each other: before a fault or a login  *)
(* that overtakes a resolve, no waiting caller is told to log in again.    *)
THEOREM NoSpuriousReauthAlways == Spec => NoSpuriousReauth
<1> DEFINE Quiet == \A c \in Callers : call'[c].pc = "reauth" /\ call[c].pc = "wait"
                                          => ~Serialised
<1>1. Typed /\ Coherent /\ Rotation /\ [Next]_vars => Quiet
    BY NobodyEvicted
<1>2. Typed /\ Coherent /\ Rotation /\ [Next]_vars => [Quiet]_vars
    BY <1>1
<1> HIDE DEF Quiet
<1>3. Spec => [][Quiet]_vars
    BY <1>2, RotationAlways, PromisesCoherent, PTL DEF Spec
<1>4. QED
    BY <1>3 DEF NoSpuriousReauth, Quiet
=============================================================================
