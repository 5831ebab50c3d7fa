----------------------------- MODULE OAuthLogin -----------------------------
(***************************************************************************)
(* The login of src/src/auth/acumatica-auth-handler.ts: /authorize,        *)
(* /callback and POST /consent as concurrent requests over an eventually   *)
(* consistent store.  A flow is one state UUID and what comes of it.  Any  *)
(* URL may be opened again, or in another browser.                         *)
(***************************************************************************)
EXTENDS Naturals, FiniteSets

CONSTANTS
    Flows,       \* state UUIDs
    NoFlow,
    Browsers, Users,
    Requests,    \* requests being handled
    MaxLag       \* bound: deletions that one read misses

ASSUME LoginConstants == NoFlow \notin Flows /\ MaxLag \in Nat

VARIABLES
    begun,       \* begun[f]: the browser that called /authorize, as a set
    cookie,      \* cookie[b]: the state cookie of browser b
    code,        \* code[f]: the user whose code the callback URL carries
    redeemed,    \* flows whose code Acumatica has exchanged
    states,      \* acumatica_state: records in the store
    consents,    \* consents[f]: the pending consent, as a set
    missed,      \* deleted records that one more read will find
    lags,
    req,         \* req[r]: where the request stands
    userToken,   \* userToken[k]: the flow whose token is stored, as a set
    grants,      \* grants[f]: authorizations completed from the flow
    grantKeys,   \* grantKeys[f]: the user ids they were completed for
    entered,     \* history: browsers in which the flow came to a consent
    together     \* history: flows of which two consents were in progress at
                 \* once, or whose deletion was missed

loginVars == <<begun, cookie, code, redeemed, states, consents, missed, lags, req,
               userToken, grants, grantKeys, entered, together>>

-----------------------------------------------------------------------------
(* What a user is known by: a name or subject of its own, which are one    *)
(* here, the state UUID, or "unknown" for everybody.                       *)
UserKeys == [kind: {"own"}, of: Users]
FlowKeys == [kind: {"state"}, of: Flows]
Unknown == [kind |-> "unknown", of |-> NoFlow]
Keys == UserKeys \union FlowKeys \union {Unknown}

Pcs == {"idle", "state", "burn", "exchange", "identify", "access", "read",
        "delete", "store", "complete"}
Consenting == {"read", "delete", "store", "complete"}

Idle == [pc |-> "idle", flow |-> NoFlow, browser |-> {}, key |-> Unknown]

LoginTypeOK ==
    /\ begun \in [Flows -> SUBSET Browsers]
    /\ cookie \in [Browsers -> Flows \union {NoFlow}]
    /\ code \in [Flows -> SUBSET Users]
    /\ redeemed \subseteq Flows /\ states \subseteq Flows
    /\ consents \in [Flows -> SUBSET Keys]
    /\ missed \subseteq [what: {"state", "consent"}, flow: Flows, key: Keys]
    /\ lags \in Nat
    /\ req \in [Requests -> [pc: Pcs, flow: Flows \union {NoFlow},
                             browser: SUBSET Browsers, key: Keys]]
    /\ \A r \in Requests : req[r].pc # "idle" => req[r].flow \in Flows
    /\ userToken \in [Keys -> SUBSET Flows]
    /\ grants \in [Flows -> Nat] /\ grantKeys \in [Flows -> SUBSET Keys]
    /\ entered \in [Flows -> SUBSET Browsers] /\ together \subseteq Flows

LoginInit ==
    /\ begun = [f \in Flows |-> {}]
    /\ cookie = [b \in Browsers |-> NoFlow]
    /\ code = [f \in Flows |-> {}]
    /\ redeemed = {} /\ states = {}
    /\ consents = [f \in Flows |-> {}]
    /\ missed = {} /\ lags = 0
    /\ req = [r \in Requests |-> Idle]
    /\ userToken = [k \in Keys |-> {}]
    /\ grants = [f \in Flows |-> 0] /\ grantKeys = [f \in Flows |-> {}]
    /\ entered = [f \in Flows |-> {}] /\ together = {}

Go(r, pc) == req' = [req EXCEPT ![r].pc = pc]
Reply(r)  == req' = [req EXCEPT ![r] = Idle]

(* A record expires by its TTL: any read may miss it, and ends the login.  *)
(* TOKEN_STORE.delete: within the bound, reads may go on finding the record.*)
Delete(record) ==
    \/ UNCHANGED <<missed, lags>>
    \/ lags < MaxLag /\ lags' = lags + 1 /\ missed' = missed \union {record}

StateRecord(f) == [what |-> "state", flow |-> f, key |-> Unknown]
ConsentRecord(f, k) == [what |-> "consent", flow |-> f, key |-> k]

-----------------------------------------------------------------------------
(* GET /authorize: the cookie of an earlier flow of the browser is lost.   *)
Authorize(f, b) ==
    /\ begun[f] = {}
    /\ begun' = [begun EXCEPT ![f] = {b}]
    /\ states' = states \union {f}
    /\ cookie' = [cookie EXCEPT ![b] = f]
    /\ UNCHANGED <<code, redeemed, consents, missed, lags, req, userToken, grants,
                   grantKeys, entered, together>>

(* A user signs in at Acumatica and is sent to the callback URL.           *)
SignIn(f, u) ==
    /\ begun[f] # {} /\ code[f] = {}
    /\ code' = [code EXCEPT ![f] = {u}]
    /\ UNCHANGED <<begun, cookie, redeemed, states, consents, missed, lags, req,
                   userToken, grants, grantKeys, entered, together>>

-----------------------------------------------------------------------------
(* GET /callback.  The cookie must be the state's, or the record is burnt. *)
(* The mutant does without the cookie.                                     *)
CookieAny(b, f) == TRUE
CookieMatches(b, f) == cookie[b] = f

Callback(r, f, b) ==
    /\ req[r].pc = "idle" /\ code[f] # {}
    /\ IF CookieMatches(b, f)
       THEN /\ req' = [req EXCEPT ![r] = [pc |-> "state", flow |-> f,
                                          browser |-> {b}, key |-> Unknown]]
            /\ UNCHANGED <<states, missed, lags>>
       ELSE f \in states /\ states' = states \ {f} /\ Delete(StateRecord(f))
            /\ UNCHANGED req
    /\ UNCHANGED <<begun, cookie, code, redeemed, consents, userToken, grants,
                   grantKeys, entered, together>>

ReadState(r) ==
    LET f == req[r].flow
    IN  /\ req[r].pc = "state"
        /\ \/ f \in states /\ Go(r, "burn") /\ UNCHANGED missed
           \/ Reply(r) /\ UNCHANGED missed
           \/ /\ StateRecord(f) \in missed /\ missed' = missed \ {StateRecord(f)}
              /\ Go(r, "burn")
        /\ UNCHANGED <<begun, cookie, code, redeemed, states, consents, lags,
                       userToken, grants, grantKeys, entered, together>>

BurnState(r) ==
    LET f == req[r].flow
    IN  /\ req[r].pc = "burn"
        /\ states' = states \ {f} /\ Delete(StateRecord(f))
        /\ Go(r, "exchange")
        /\ UNCHANGED <<begun, cookie, code, redeemed, consents, userToken, grants,
                       grantKeys, entered, together>>

(* Acumatica exchanges a code once.  The reply, whatever it is, clears the *)
(* state cookie of the browser.                                            *)
ClearCookie(r) ==
    cookie' = [b \in Browsers |-> IF b \in req[r].browser THEN NoFlow ELSE cookie[b]]

Exchange(r) ==
    LET f == req[r].flow
    IN  /\ req[r].pc = "exchange"
        /\ \/ /\ f \notin redeemed /\ redeemed' = redeemed \union {f}
              /\ Go(r, "identify") /\ UNCHANGED cookie
           \/ UNCHANGED redeemed /\ Reply(r) /\ ClearCookie(r)
        /\ UNCHANGED <<begun, code, states, consents, missed, lags, userToken, grants,
                       grantKeys, entered, together>>

(* Who is it?  userinfo names the user or its subject, or neither; if it   *)
(* has no answer the auth contract does; if that has none either, or names *)
(* nobody, the name stays "unknown".  A fetch that throws makes a name of  *)
(* the state UUID.                                                         *)
ThrownKey(f) == [kind |-> "state", of |-> f]

Identities(f) ==
    [kind: {"own"}, of: code[f]] \union {Unknown} \union {ThrownKey(f)}

Identify(r) ==
    /\ req[r].pc = "identify"
    /\ \E k \in Identities(req[r].flow) :
          req' = [req EXCEPT ![r].pc = "access", ![r].key = k]
    /\ UNCHANGED <<begun, cookie, code, redeemed, states, consents, missed, lags,
                   userToken, grants, grantKeys, entered, together>>

(* checkAccess with the user's token: any answer but a 2xx, and no answer, *)
(* ends the login.  Granted, the consent is put for five minutes.          *)
CheckAccess(r) ==
    LET f == req[r].flow
    IN  /\ req[r].pc = "access"
        /\ \/ /\ consents' = [consents EXCEPT ![f] = {req[r].key}]
              /\ entered' = [entered EXCEPT ![f] = @ \union req[r].browser]
           \/ UNCHANGED <<consents, entered>>
        /\ Reply(r) /\ ClearCookie(r)
        /\ UNCHANGED <<begun, code, redeemed, states, missed, lags, userToken, grants,
                       grantKeys, together>>

-----------------------------------------------------------------------------
(* POST /consent, by whoever has the consent's URL.                        *)
SubmitConsent(r, f) ==
    /\ req[r].pc = "idle" /\ entered[f] # {}
    /\ req' = [req EXCEPT ![r] = [Idle EXCEPT !.pc = "read", !.flow = f]]
    /\ together' = IF \E q \in Requests : req[q].flow = f /\ req[q].pc \in Consenting
                   THEN together \union {f} ELSE together
    /\ UNCHANGED <<begun, cookie, code, redeemed, states, consents, missed, lags,
                   userToken, grants, grantKeys, entered>>

ReadConsent(r) ==
    LET f == req[r].flow
    IN  /\ req[r].pc = "read"
        /\ \/ \E k \in consents[f] :
                 /\ req' = [req EXCEPT ![r].pc = "delete", ![r].key = k]
                 /\ UNCHANGED <<missed, together>>
           \/ \E k \in Keys :
                 /\ ConsentRecord(f, k) \in missed
                 /\ missed' = missed \ {ConsentRecord(f, k)}
                 /\ req' = [req EXCEPT ![r].pc = "delete", ![r].key = k]
                 /\ together' = together \union {f}
           \/ Reply(r) /\ UNCHANGED <<missed, together>>
        /\ UNCHANGED <<begun, cookie, code, redeemed, states, consents, lags,
                       userToken, grants, grantKeys, entered>>

(* The mutant keeps the consent until it expires.                          *)
DeleteConsentNot(r) ==
    /\ req[r].pc = "delete"
    /\ Go(r, "store")
    /\ UNCHANGED <<begun, cookie, code, redeemed, states, consents, missed, lags,
                   userToken, grants, grantKeys, entered, together>>
DeleteConsent(r) ==
    LET f == req[r].flow
    IN  /\ req[r].pc = "delete"
        /\ consents' = [consents EXCEPT ![f] = {}]
        /\ Delete(ConsentRecord(f, req[r].key))
        /\ Go(r, "store")
        /\ UNCHANGED <<begun, cookie, code, redeemed, states, userToken, grants,
                       grantKeys, entered, together>>

(* user_token: is put and the token manager seeded with it (a seed that    *)
(* fails is TokenManager's); then the authorization is completed for the   *)
(* same user id.  The mutant keeps the token by the name that a user has   *)
(* before it is known.                                                     *)
TokenKeyUnnamed(r) == Unknown
TokenKey(r) == req[r].key

StoreToken(r) ==
    /\ req[r].pc = "store" /\ Go(r, "complete")
    /\ userToken' = [userToken EXCEPT ![TokenKey(r)] = {req[r].flow}]
    /\ UNCHANGED <<begun, cookie, code, redeemed, states, consents, missed, lags,
                   grants, grantKeys, entered, together>>

CompleteAuthorization(r) ==
    LET f == req[r].flow
    IN  /\ req[r].pc = "complete"
        /\ grants' = [grants EXCEPT ![f] = @ + 1]
        /\ grantKeys' = [grantKeys EXCEPT ![f] = @ \union {req[r].key}]
        /\ Reply(r)
        /\ UNCHANGED <<begun, cookie, code, redeemed, states, consents, missed, lags,
                       userToken, entered, together>>

-----------------------------------------------------------------------------
(* Deletions get everywhere.                                               *)
StoreSettles ==
    /\ missed # {} /\ missed' = {}
    /\ UNCHANGED <<begun, cookie, code, redeemed, states, consents, lags, req,
                   userToken, grants, grantKeys, entered, together>>

LoginNext ==
    \/ \E f \in Flows :
          \/ \E b \in Browsers : Authorize(f, b)
          \/ \E u \in Users : SignIn(f, u)
          \/ \E r \in Requests :
                \/ SubmitConsent(r, f)
                \/ \E b \in Browsers : Callback(r, f, b)
    \/ \E r \in Requests :
          \/ ReadState(r) \/ BurnState(r) \/ Exchange(r) \/ Identify(r)
          \/ CheckAccess(r) \/ ReadConsent(r) \/ DeleteConsent(r)
          \/ StoreToken(r) \/ CompleteAuthorization(r)
    \/ StoreSettles

LoginSpec == LoginInit /\ [][LoginNext]_loginVars
-----------------------------------------------------------------------------
(* acumatica-auth-handler.ts:125-126: "/callback will require cookie.state *)
(* === query.state".  A consent is reached only in the browser that began  *)
(* the flow, wherever its callback URL is opened, and by one code exchange.*)
BrowserBound ==
    \A f \in Flows : entered[f] \subseteq begun[f] /\ (entered[f] # {} => f \in redeemed)

(* acumatica-auth-handler.ts:297-299: users must not share a token key.    *)
(* The token stored for a user id is of the user the id was granted to;    *)
(* the exception is the id "unknown".                                      *)
OwnTokenServed ==
    \A f \in Flows : \A k \in grantKeys[f] \ {Unknown} :
        userToken[k] # {} /\ \A g \in userToken[k] : code[g] = code[f]

(* One login completes one authorization, unless its consent is submitted  *)
(* twice at once or the store hides that it was used.                      *)
OneGrantPerLogin == \A f \in Flows \ together : grants[f] <= 1
=============================================================================
