---------------------------- MODULE SignInProofs ----------------------------
(***************************************************************************)
(* Proofs about the two ways to sign in, OAuthLogin and AdminSession, each *)
(* for any browsers or visitors, flows or sessions, and bounds.            *)
(*                                                                         *)
(* OAuthLogin: Bound follows a flow from its browser to its consent, Named *)
(* a user key from the identity check to the store, Spent a consent to its *)
(* grant; each is inductive with the ones before it and LoginTypeOK.       *)
(*                                                                         *)
(* AdminSession: Doomed says what a sweep and a request with a dead        *)
(* session know of the store; with AdminTypeOK and RevokedStayDead it is   *)
(* inductive.  Orderly says how the failure counter and the secrets        *)
(* compared go together while logins follow one another.  Bounded weighs   *)
(* what the visitors at hand can still have compared, in any order they    *)
(* may take.                                                               *)
(***************************************************************************)
EXTENDS OAuthLogin, AdminSession, FiniteSetTheorems, WellFoundedInduction, TLAPS

CallbackPcs == {"state", "burn", "exchange", "identify", "access"}

(* A cookie names a flow its browser began, a callback is handled for such *)
(* a browser, and past the exchange the flow's code is spent.              *)
Bound ==
    /\ \A b \in Browsers, f \in Flows : cookie[b] = f => b \in begun[f]
    /\ \A r \in Requests : req[r].pc \in CallbackPcs =>
          req[r].browser \subseteq begun[req[r].flow] /\ req[r].browser # {}
    /\ \A r \in Requests : req[r].pc \in {"identify", "access"} =>
          req[r].flow \in redeemed
    /\ BrowserBound

-----------------------------------------------------------------------------
(* Types.                                                                  *)

ReqType == [pc: Pcs, flow: Flows \union {NoFlow}, browser: SUBSET Browsers, key: Keys]

LEMMA KeysTyped ==
    /\ Unknown \in Keys
    /\ \A f \in Flows : ThrownKey(f) \in Keys
    BY DEF Keys, FlowKeys, ThrownKey

LEMMA IdleTyped == Idle \in ReqType
    BY KeysTyped DEF Idle, ReqType, Pcs

LEMMA TypeInit == LoginInit => LoginTypeOK
    BY IdleTyped, LoginConstants DEF LoginInit, LoginTypeOK, ReqType, Idle

(* What the moves between the steps of a request keep.                     *)
ReqTyped ==
    /\ req \in [Requests -> ReqType]
    /\ \A r \in Requests : req[r].pc # "idle" => req[r].flow \in Flows

LEMMA LoginMoveTyped ==
    ASSUME LoginTypeOK, NEW r \in Requests, NEW to \in ReqType,
           to.pc # "idle" => to.flow \in Flows,
           req' = [req EXCEPT ![r] = to]
    PROVE  ReqTyped'
    BY DEF LoginTypeOK, ReqTyped, ReqType

LEMMA GoTyped ==
    ASSUME LoginTypeOK, NEW r \in Requests, req[r].pc # "idle", NEW pc \in Pcs, Go(r, pc)
    PROVE  ReqTyped'
<1> DEFINE to == [req[r] EXCEPT !.pc = pc]
<1>1. to \in ReqType /\ to.flow \in Flows
    BY DEF LoginTypeOK, ReqType
<1>2. req' = [req EXCEPT ![r] = to]
    BY DEF Go
<1> HIDE DEF to
<1>3. QED
    BY <1>1, <1>2, LoginMoveTyped

LEMMA KeyTyped ==
    ASSUME LoginTypeOK, NEW r \in Requests, req[r].pc # "idle", NEW pc \in Pcs,
           NEW k \in Keys, req' = [req EXCEPT ![r].pc = pc, ![r].key = k]
    PROVE  ReqTyped'
<1> DEFINE to == [req[r] EXCEPT !.pc = pc, !.key = k]
<1>1. to \in ReqType /\ to.flow \in Flows
    BY DEF LoginTypeOK, ReqType
<1>2. req' = [req EXCEPT ![r] = to]
    OBVIOUS
<1> HIDE DEF to
<1>3. QED
    BY <1>1, <1>2, LoginMoveTyped

LEMMA ReplyTyped ==
    ASSUME LoginTypeOK, NEW r \in Requests, Reply(r)
    PROVE  ReqTyped'
    BY IdleTyped, LoginMoveTyped DEF Reply, Idle

(* A delete leaves at most one more record to be found.                    *)
LEMMA DeleteTyped ==
    ASSUME LoginTypeOK, NEW f \in Flows, NEW k \in Keys,
           Delete(StateRecord(f)) \/ Delete(ConsentRecord(f, k))
    PROVE  /\ missed' \subseteq [what: {"state", "consent"}, flow: Flows, key: Keys]
           /\ lags' \in Nat
    BY KeysTyped, LoginConstants DEF LoginTypeOK, Delete, StateRecord, ConsentRecord

LEMMA ClearTyped ==
    ASSUME LoginTypeOK, NEW r \in Requests, ClearCookie(r)
    PROVE  cookie' \in [Browsers -> Flows \union {NoFlow}]
    BY DEF LoginTypeOK, ClearCookie

(* The step of one request.                                                *)
RequestStep(r) ==
    \/ ReadState(r) \/ BurnState(r) \/ Exchange(r) \/ Identify(r)
    \/ CheckAccess(r) \/ ReadConsent(r) \/ DeleteConsent(r)
    \/ StoreToken(r) \/ CompleteAuthorization(r)

LEMMA IdentitiesTyped ==
    ASSUME LoginTypeOK, NEW f \in Flows
    PROVE  Identities(f) \subseteq Keys
    BY KeysTyped DEF LoginTypeOK, Identities, Keys, UserKeys

LEMMA StepTyped ==
    ASSUME LoginTypeOK, NEW r \in Requests, RequestStep(r)
    PROVE  LoginTypeOK'
<1>1. ReqTyped'
  <2>1. CASE ReadState(r) \/ BurnState(r) \/ Exchange(r)
    BY <2>1, GoTyped, ReplyTyped DEF ReadState, BurnState, Exchange, Pcs
  <2>2. CASE Identify(r)
    <3>1. PICK k \in Identities(req[r].flow) :
             req' = [req EXCEPT ![r].pc = "access", ![r].key = k]
        BY <2>2 DEF Identify
    <3>2. req[r].pc # "idle" /\ k \in Keys
        BY <2>2, IdentitiesTyped DEF Identify, LoginTypeOK
    <3>3. QED
        BY <3>1, <3>2, KeyTyped DEF Pcs
  <2>3. CASE ReadConsent(r)
    <3>1. req[r].pc # "idle" /\ req[r].flow \in Flows
        BY <2>3 DEF ReadConsent, LoginTypeOK
    <3>2. Reply(r) \/ \E k \in Keys : req' = [req EXCEPT ![r].pc = "delete", ![r].key = k]
        BY <2>3, <3>1 DEF ReadConsent, LoginTypeOK
    <3>3. QED
        BY <3>1, <3>2, ReplyTyped, KeyTyped DEF Pcs
  <2>4. CASE CheckAccess(r) \/ DeleteConsent(r) \/ StoreToken(r)
             \/ CompleteAuthorization(r)
    BY <2>4, GoTyped, ReplyTyped
       DEF CheckAccess, DeleteConsent, StoreToken, CompleteAuthorization, Pcs
  <2>5. QED
    BY <2>1, <2>2, <2>3, <2>4 DEF RequestStep
<1>2. /\ req[r].flow \in Flows /\ req[r].key \in Keys
      /\ req[r].browser \subseteq Browsers
  <2>1. req[r].pc # "idle"
    BY DEF RequestStep, ReadState, BurnState, Exchange, Identify, CheckAccess, ReadConsent,
       DeleteConsent, StoreToken, CompleteAuthorization
  <2>2. QED
    BY <2>1 DEF LoginTypeOK
<1>3. /\ missed' \subseteq [what: {"state", "consent"}, flow: Flows, key: Keys]
      /\ lags' \in Nat
  <2>1. CASE BurnState(r) \/ DeleteConsent(r)
    BY <1>2, <2>1, DeleteTyped DEF BurnState, DeleteConsent
  <2>2. CASE missed' \subseteq missed /\ lags' = lags
    BY <2>2 DEF LoginTypeOK
  <2>3. QED
    BY <2>1, <2>2 DEF RequestStep, ReadState, Exchange, Identify, CheckAccess, ReadConsent,
       StoreToken, CompleteAuthorization
<1>4. cookie' \in [Browsers -> Flows \union {NoFlow}] /\ begun' = begun /\ code' = code
    BY ClearTyped DEF RequestStep, ReadState, BurnState, Exchange, Identify, CheckAccess,
       ReadConsent, DeleteConsent, StoreToken, CompleteAuthorization, LoginTypeOK
<1>5. redeemed' \subseteq Flows /\ states' \subseteq Flows /\ together' \subseteq Flows
    BY <1>2 DEF RequestStep, ReadState, BurnState, Exchange, Identify, CheckAccess,
       ReadConsent, DeleteConsent, StoreToken, CompleteAuthorization, LoginTypeOK
<1>6. /\ consents' \in [Flows -> SUBSET Keys]
      /\ entered' \in [Flows -> SUBSET Browsers]
  <2>1. CASE DeleteConsent(r)
    BY <1>2, <2>1 DEF DeleteConsent, LoginTypeOK
  <2>2. CASE UNCHANGED <<consents, entered>>
    BY <2>2 DEF LoginTypeOK
  <2>3. ASSUME consents' = [consents EXCEPT ![req[r].flow] = {req[r].key}],
               entered' = [entered EXCEPT ![req[r].flow] = @ \union req[r].browser]
        PROVE  /\ consents' \in [Flows -> SUBSET Keys]
               /\ entered' \in [Flows -> SUBSET Browsers]
    BY <1>2, <2>3 DEF LoginTypeOK
  <2>4. CASE CheckAccess(r)
    BY <2>2, <2>3, <2>4 DEF CheckAccess
  <2>5. QED
    BY <2>1, <2>2, <2>4 DEF RequestStep, ReadState, BurnState, Exchange, Identify, ReadConsent,
       StoreToken, CompleteAuthorization
<1>7. /\ userToken' \in [Keys -> SUBSET Flows]
      /\ grants' \in [Flows -> Nat] /\ grantKeys' \in [Flows -> SUBSET Keys]
  <2>1. CASE StoreToken(r)
    BY <1>2, <2>1 DEF StoreToken, TokenKey, LoginTypeOK
  <2>2. CASE CompleteAuthorization(r)
    BY <1>2, <2>2 DEF CompleteAuthorization, LoginTypeOK
  <2>3. CASE UNCHANGED <<userToken, grants, grantKeys>>
    BY <2>3 DEF LoginTypeOK
  <2>4. QED
    BY <2>1, <2>2, <2>3 DEF RequestStep, ReadState, BurnState, Exchange, Identify,
       CheckAccess, ReadConsent, DeleteConsent
<1>8. QED
    BY <1>1, <1>3, <1>4, <1>5, <1>6, <1>7 DEF LoginTypeOK, ReqTyped, ReqType

(* The other steps: a browser begins or returns, a user signs in, somebody *)
(* submits a consent, the store settles.                                   *)
OutsideStep(r, f, b, u) ==
    Authorize(f, b) \/ SignIn(f, u) \/ SubmitConsent(r, f) \/ Callback(r, f, b)

LEMMA LoginNextSplit ==
    ASSUME [LoginNext]_loginVars
    PROVE  \/ \E r \in Requests : RequestStep(r)
           \/ \E f \in Flows, b \in Browsers : Authorize(f, b)
           \/ \E f \in Flows, u \in Users : SignIn(f, u)
           \/ \E r \in Requests, f \in Flows : SubmitConsent(r, f)
           \/ \E r \in Requests, f \in Flows, b \in Browsers : Callback(r, f, b)
           \/ StoreSettles \/ UNCHANGED loginVars
    BY DEF LoginNext, RequestStep

(* The two requests that begin a flow's part of a login.                   *)
CallbackReq(f, b) == [pc |-> "state", flow |-> f, browser |-> {b}, key |-> Unknown]
ConsentReq(f) == [Idle EXCEPT !.pc = "read", !.flow = f]

LEMMA BeginTyped ==
    ASSUME NEW f \in Flows
    PROVE  /\ ConsentReq(f) \in ReqType /\ ConsentReq(f).flow = f
           /\ \A b \in Browsers : CallbackReq(f, b) \in ReqType
    BY KeysTyped, IdleTyped DEF ReqType, CallbackReq, ConsentReq, Idle, Pcs

LEMMA LoginTypeNext == LoginTypeOK /\ [LoginNext]_loginVars => LoginTypeOK'
<1> SUFFICES ASSUME LoginTypeOK, [LoginNext]_loginVars PROVE LoginTypeOK'
    OBVIOUS
<1>1. ASSUME NEW r \in Requests, RequestStep(r) PROVE LoginTypeOK'
    BY <1>1, StepTyped
<1>2. ASSUME NEW f \in Flows, NEW b \in Browsers, Authorize(f, b) PROVE LoginTypeOK'
    BY <1>2 DEF Authorize, LoginTypeOK
<1>3. ASSUME NEW f \in Flows, NEW u \in Users, SignIn(f, u) PROVE LoginTypeOK'
    BY <1>3 DEF SignIn, LoginTypeOK
<1>4. ASSUME NEW r \in Requests, NEW f \in Flows, SubmitConsent(r, f) PROVE LoginTypeOK'
  <2>1. ReqTyped'
    BY <1>4, BeginTyped, LoginMoveTyped DEF SubmitConsent, ConsentReq
  <2>2. together' \subseteq Flows
    BY <1>4 DEF SubmitConsent, LoginTypeOK
  <2>3. QED
    BY <1>4, <2>1, <2>2 DEF SubmitConsent, LoginTypeOK, ReqTyped, ReqType
<1>5. ASSUME NEW r \in Requests, NEW f \in Flows, NEW b \in Browsers, Callback(r, f, b)
      PROVE  LoginTypeOK'
  <2>1. CASE cookie[b] = f
    <3>1. ReqTyped'
        BY <1>5, <2>1, BeginTyped, LoginMoveTyped DEF Callback, CookieMatches, CallbackReq
    <3>2. QED
        BY <1>5, <2>1, <3>1 DEF Callback, CookieMatches, LoginTypeOK, ReqTyped, ReqType
  <2>2. CASE cookie[b] # f
    <3>1. Delete(StateRecord(f))
        BY <1>5, <2>2 DEF Callback, CookieMatches
    <3>2. /\ missed' \subseteq [what: {"state", "consent"}, flow: Flows, key: Keys]
          /\ lags' \in Nat
        BY <3>1, KeysTyped, DeleteTyped
    <3>3. QED
        BY <1>5, <2>2, <3>2 DEF Callback, CookieMatches, LoginTypeOK
  <2>3. QED
    BY <2>1, <2>2
<1>6. CASE StoreSettles \/ UNCHANGED loginVars
    BY <1>6 DEF StoreSettles, loginVars, LoginTypeOK
<1>7. QED
    BY <1>1, <1>2, <1>3, <1>4, <1>5, <1>6, LoginNextSplit

(* Every record, cookie, request and token of a login keeps its type, for  *)
(* any number of flows, browsers, users and concurrent requests            *)
(* (acumatica-auth-handler.ts: /authorize, /callback, POST /consent).      *)
THEOREM LoginTypeCorrect == LoginSpec => []LoginTypeOK
    BY TypeInit, LoginTypeNext, PTL DEF LoginSpec

-----------------------------------------------------------------------------
(* From the browser to the consent.                                        *)

LEMMA BoundInit == LoginInit => Bound
    BY LoginConstants DEF LoginInit, Bound, BrowserBound, CallbackPcs, Idle

LEMMA BoundStep ==
    ASSUME LoginTypeOK, Bound, NEW r \in Requests, RequestStep(r)
    PROVE  Bound'
<1> USE DEF LoginTypeOK, CallbackPcs
<1>1. \A b \in Browsers : cookie'[b] \in {cookie[b], NoFlow}
    BY DEF RequestStep, ReadState, BurnState, Exchange, Identify, CheckAccess, ReadConsent,
       DeleteConsent, StoreToken, CompleteAuthorization, ClearCookie
<1>2. begun' = begun /\ redeemed \subseteq redeemed'
    BY DEF RequestStep, ReadState, BurnState, Exchange, Identify, CheckAccess, ReadConsent,
       DeleteConsent, StoreToken, CompleteAuthorization
<1>3. \A b \in Browsers, f \in Flows : cookie'[b] = f => b \in begun'[f]
    BY <1>1, <1>2, LoginConstants DEF Bound
<1>4. \A q \in Requests :
         /\ q # r => req'[q] = req[q]
         /\ req'[q].pc \in CallbackPcs =>
               /\ req[q].pc \in CallbackPcs
               /\ req'[q].flow = req[q].flow /\ req'[q].browser = req[q].browser
         /\ req'[q].pc \in {"identify", "access"} /\ req[q].pc \notin {"identify", "access"}
               => Exchange(q) /\ q = r
  <2>1. CASE ReadState(r) \/ BurnState(r) \/ Exchange(r)
    BY <2>1 DEF ReadState, BurnState, Exchange, Go, Reply, Idle
  <2>2. CASE Identify(r) \/ CheckAccess(r)
    BY <2>2 DEF Identify, CheckAccess, Reply, Idle
  <2>3. CASE ReadConsent(r)
    BY <2>3 DEF ReadConsent, Reply, Idle
  <2>4. CASE DeleteConsent(r) \/ StoreToken(r) \/ CompleteAuthorization(r)
    BY <2>4 DEF DeleteConsent, StoreToken, CompleteAuthorization, Go, Reply, Idle
  <2>5. QED
    BY <2>1, <2>2, <2>3, <2>4 DEF RequestStep
<1>5. \A q \in Requests : req'[q].pc \in CallbackPcs =>
         req'[q].browser \subseteq begun'[req'[q].flow] /\ req'[q].browser # {}
    BY <1>2, <1>4 DEF Bound
<1>6. \A q \in Requests : req'[q].pc \in {"identify", "access"} =>
         req'[q].flow \in redeemed'
  <2>1. CASE Exchange(r)
    BY <1>2, <1>4, <2>1 DEF Exchange, Bound, Go, Reply, Idle
  <2>2. CASE ~Exchange(r)
    BY <1>2, <1>4, <2>2 DEF Bound
  <2>3. QED
    BY <2>1, <2>2
<1>7. BrowserBound'
  <2>1. CASE CheckAccess(r)
    BY <1>2, <2>1 DEF CheckAccess, Bound, BrowserBound
  <2>2. CASE entered' = entered
    BY <1>2, <2>2 DEF Bound, BrowserBound
  <2>3. QED
    BY <2>1, <2>2 DEF RequestStep, ReadState, BurnState, Exchange, Identify, ReadConsent,
       DeleteConsent, StoreToken, CompleteAuthorization
<1>8. QED
    BY <1>3, <1>5, <1>6, <1>7 DEF Bound

LEMMA BoundNext == LoginTypeOK /\ Bound /\ [LoginNext]_loginVars => Bound'
<1> SUFFICES ASSUME LoginTypeOK, Bound, [LoginNext]_loginVars PROVE Bound'
    OBVIOUS
<1> USE DEF LoginTypeOK, CallbackPcs, Bound, BrowserBound
<1>1. ASSUME NEW r \in Requests, RequestStep(r) PROVE Bound'
    BY <1>1, BoundStep
<1>2. ASSUME NEW f \in Flows, NEW b \in Browsers, Authorize(f, b) PROVE Bound'
    BY <1>2 DEF Authorize
<1>3. ASSUME NEW f \in Flows, NEW u \in Users, SignIn(f, u) PROVE Bound'
    BY <1>3 DEF SignIn
<1>4. ASSUME NEW r \in Requests, NEW f \in Flows, SubmitConsent(r, f) PROVE Bound'
    BY <1>4 DEF SubmitConsent, Idle
<1>5. ASSUME NEW r \in Requests, NEW f \in Flows, NEW b \in Browsers, Callback(r, f, b)
      PROVE  Bound'
  <2>1. CASE cookie[b] = f
    <3>1. req' = [req EXCEPT ![r] = CallbackReq(f, b)] /\ b \in begun[f]
        BY <1>5, <2>1 DEF Callback, CookieMatches, CallbackReq
    <3>2. \A q \in Requests : req'[q] = IF q = r THEN CallbackReq(f, b) ELSE req[q]
        BY <3>1
    <3>3. /\ CallbackReq(f, b).pc = "state" /\ CallbackReq(f, b).flow = f
          /\ CallbackReq(f, b).browser = {b}
        BY DEF CallbackReq
    <3>4. UNCHANGED <<begun, cookie, redeemed, entered>>
        BY <1>5 DEF Callback
    <3>5. QED
        BY <3>1, <3>2, <3>3, <3>4
  <2>2. CASE cookie[b] # f
    BY <1>5, <2>2 DEF Callback, CookieMatches
  <2>3. QED
    BY <2>1, <2>2
<1>6. CASE StoreSettles \/ UNCHANGED loginVars
    BY <1>6 DEF StoreSettles, loginVars
<1>7. QED
    BY <1>1, <1>2, <1>3, <1>4, <1>5, <1>6, LoginNextSplit

(* acumatica-auth-handler.ts:125-126: a consent is reached only in the     *)
(* browser that called /authorize for its state, and after the one exchange*)
(* of its code, however many callbacks and browsers race.                  *)
THEOREM BrowserBoundAlways == LoginSpec => []BrowserBound
<1>1. LoginSpec => []Bound
    BY LoginTypeCorrect, BoundInit, BoundNext, PTL DEF LoginSpec
<1>2. Bound => BrowserBound
    BY DEF Bound
<1>3. QED
    BY <1>1, <1>2, PTL

-----------------------------------------------------------------------------
(* From the consent to the grant.                                          *)

(* Of a flow nobody consents to twice at once, a consent is put once, and  *)
(* whoever has read it is the only one on the way to the grant.            *)
Checking == {"identify", "access"}

FreshFlows == \A f \in Flows : entered[f] = {} => consents[f] = {} /\ grants[f] = 0
Entering ==
    /\ \A r \in Requests : req[r].pc \in Consenting => entered[req[r].flow] # {}
    /\ \A r \in Requests : req[r].pc \in Checking => entered[req[r].flow] = {}
CheckedOnce == \A r, q \in Requests :
    req[r].pc \in Checking /\ req[q].pc \in Checking /\ req[r].flow = req[q].flow => r = q
ConsentedOnce == \A r, q \in Requests :
    /\ req[r].pc \in Consenting /\ req[q].pc \in Consenting
    /\ req[r].flow = req[q].flow /\ req[r].flow \notin together
    => r = q
Ungranted == \A r \in Requests : req[r].flow \notin together =>
    /\ req[r].pc \in {"delete", "store", "complete"} => grants[req[r].flow] = 0
    /\ req[r].pc \in {"store", "complete"} => consents[req[r].flow] = {}
GrantedOnce == \A f \in Flows \ together :
    grants[f] = 0 \/ (grants[f] = 1 /\ consents[f] = {})

Spent == FreshFlows /\ Entering /\ CheckedOnce /\ ConsentedOnce /\ Ungranted /\ GrantedOnce

LEMMA SpentInit == LoginInit => Spent
    BY DEF LoginInit, Spent, FreshFlows, Entering, CheckedOnce, ConsentedOnce, Ungranted,
       GrantedOnce, Checking, Consenting, Idle

(* A request that moves on, and nothing else but what `together' knows.    *)
LEMMA SpentMove ==
    ASSUME Spent, NEW r \in Requests,
           \A q \in Requests : q # r => req'[q] = req[q],
           UNCHANGED <<consents, entered, grants>>, together \subseteq together',
           req'[r].pc \in Checking =>
              \/ req[r].pc \in Checking /\ req'[r].flow = req[r].flow
              \/ /\ entered[req'[r].flow] = {}
                 /\ \A q \in Requests : req[q].pc \in Checking => req[q].flow # req'[r].flow,
           req'[r].pc \in Consenting =>
              \/ req[r].pc \in Consenting /\ req'[r].flow = req[r].flow
              \/ /\ entered[req'[r].flow] # {}
                 /\ \A q \in Requests : req[q].pc \in Consenting =>
                       req[q].flow # req'[r].flow \/ req'[r].flow \in together',
           req'[r].flow \notin together' =>
              /\ req'[r].pc \in {"delete", "store", "complete"} => grants[req'[r].flow] = 0
              /\ req'[r].pc \in {"store", "complete"} => consents[req'[r].flow] = {}
    PROVE  Spent'
<1>1. FreshFlows' /\ GrantedOnce'
    BY DEF Spent, FreshFlows, GrantedOnce
<1>2. Entering'
    BY DEF Spent, Entering
<1>3. CheckedOnce'
    BY DEF Spent, CheckedOnce
<1>4. ConsentedOnce'
    BY DEF Spent, ConsentedOnce
<1>5. Ungranted'
    BY DEF Spent, Ungranted
<1>6. QED
    BY <1>1, <1>2, <1>3, <1>4, <1>5 DEF Spent

(* Access is granted: the flow's consent is put, and it is the first.      *)
LEMMA SpentGranted ==
    ASSUME LoginTypeOK, Bound, Spent, NEW r \in Requests, CheckAccess(r),
           consents' = [consents EXCEPT ![req[r].flow] = {req[r].key}],
           entered' = [entered EXCEPT ![req[r].flow] = @ \union req[r].browser]
    PROVE  Spent'
<1> DEFINE f == req[r].flow
<1>1. /\ req[r].pc = "access" /\ f \in Flows /\ req'[r].pc = "idle"
      /\ UNCHANGED <<grants, together>>
      /\ \A q \in Requests : q # r => req'[q] = req[q]
    BY DEF CheckAccess, Reply, Idle, LoginTypeOK
<1>2. entered[f] = {} /\ req[r].browser # {}
    BY <1>1 DEF Spent, Entering, Bound, Checking, CallbackPcs
<1>3. grants[f] = 0
    BY <1>1, <1>2 DEF Spent, FreshFlows
<1>4. /\ entered'[f] # {}
      /\ \A g \in Flows : g # f => entered'[g] = entered[g] /\ consents'[g] = consents[g]
    BY <1>1, <1>2 DEF LoginTypeOK
<1>5. \A q \in Requests : q # r /\ req[q].pc \in Checking \union Consenting =>
         req[q].flow # f /\ req[q].flow \in Flows
    BY <1>1, <1>2 DEF Spent, Entering, CheckedOnce, Checking, Consenting, LoginTypeOK
<1>6. FreshFlows' /\ GrantedOnce'
    BY <1>1, <1>3, <1>4 DEF Spent, FreshFlows, GrantedOnce
<1>7. \A q \in Requests : req'[q].pc \in Checking \union Consenting =>
         q # r /\ req'[q] = req[q]
    BY <1>1 DEF Checking, Consenting
<1>8. Entering'
    BY <1>1, <1>4, <1>5, <1>7 DEF Spent, Entering
<1>9. CheckedOnce' /\ ConsentedOnce'
    BY <1>1, <1>7 DEF Spent, CheckedOnce, ConsentedOnce
<1>10. Ungranted'
  <2>1. \A q \in Requests : req'[q].pc \in {"delete", "store", "complete"} =>
           q # r /\ req'[q] = req[q] /\ req[q].flow # f /\ req[q].flow \in Flows
    BY <1>5, <1>7 DEF Consenting
  <2>2. QED
    BY <1>1, <1>4, <2>1 DEF Spent, Ungranted
<1>11. QED
    BY <1>6, <1>8, <1>9, <1>10 DEF Spent

LEMMA SpentDelete ==
    ASSUME LoginTypeOK, Spent, NEW r \in Requests, DeleteConsent(r)
    PROVE  Spent'
<1> DEFINE f == req[r].flow
<1>1. /\ UNCHANGED <<entered, grants, together>> /\ f \in Flows
      /\ req[r].pc = "delete" /\ req'[r].pc = "store" /\ req'[r].flow = f
      /\ \A q \in Requests : q # r => req'[q] = req[q]
      /\ consents' = [consents EXCEPT ![f] = {}]
    BY DEF DeleteConsent, Go, LoginTypeOK
<1>2. consents'[f] = {} /\ \A g \in Flows : consents'[g] \in {consents[g], {}}
    BY <1>1 DEF LoginTypeOK
<1>3. FreshFlows' /\ GrantedOnce'
    BY <1>1, <1>2 DEF Spent, FreshFlows, GrantedOnce
<1>4. Entering' /\ CheckedOnce'
    BY <1>1 DEF Spent, Entering, CheckedOnce, Checking, Consenting
<1>5. ConsentedOnce'
    BY <1>1 DEF Spent, ConsentedOnce, Consenting
<1>6. Ungranted'
  <2>1. \A q \in Requests : req'[q].pc # "idle" => req'[q].flow \in Flows
    BY <1>1 DEF LoginTypeOK
  <2>2. QED
    BY <1>1, <1>2, <2>1 DEF Spent, Ungranted
<1>7. QED
    BY <1>3, <1>4, <1>5, <1>6 DEF Spent

LEMMA SpentComplete ==
    ASSUME LoginTypeOK, Spent, NEW r \in Requests, CompleteAuthorization(r)
    PROVE  Spent'
<1> DEFINE f == req[r].flow
<1>1. /\ UNCHANGED <<entered, consents, together>> /\ f \in Flows
      /\ req[r].pc = "complete" /\ req'[r].pc = "idle"
      /\ \A q \in Requests : q # r => req'[q] = req[q]
      /\ grants' = [grants EXCEPT ![f] = @ + 1]
    BY DEF CompleteAuthorization, Reply, Idle, LoginTypeOK
<1>2. entered[f] # {}
    BY <1>1 DEF Spent, Entering, Consenting
<1>3. f \notin together => grants[f] = 0 /\ consents[f] = {}
    BY <1>1 DEF Spent, Ungranted
<1>4. \A g \in Flows : grants'[g] = IF g = f THEN grants[g] + 1 ELSE grants[g]
    BY <1>1 DEF LoginTypeOK
<1>5. f \notin together => \A q \in Requests : q # r /\ req[q].pc \in Consenting =>
         req[q].flow # f
    BY <1>1 DEF Spent, ConsentedOnce, Consenting
<1>6. FreshFlows' /\ GrantedOnce'
    BY <1>1, <1>2, <1>3, <1>4 DEF Spent, FreshFlows, GrantedOnce
<1>7. Entering' /\ CheckedOnce' /\ ConsentedOnce'
    BY <1>1 DEF Spent, Entering, CheckedOnce, ConsentedOnce, Checking, Consenting
<1>8. Ungranted'
  <2>1. \A q \in Requests : req'[q].pc \in {"delete", "store", "complete"} =>
           q # r /\ req'[q] = req[q] /\ req[q].flow \in Flows
    BY <1>1 DEF LoginTypeOK
  <2>2. QED
    BY <1>1, <1>4, <1>5, <2>1 DEF Spent, Ungranted, Consenting
<1>9. QED
    BY <1>6, <1>7, <1>8 DEF Spent

LEMMA SpentStep ==
    ASSUME LoginTypeOK, Bound, Spent, NEW r \in Requests, RequestStep(r)
    PROVE  Spent'
<1>1. /\ req[r].pc # "idle" /\ req[r].flow \in Flows
      /\ \A q \in Requests : q # r => req'[q] = req[q]
    BY DEF LoginTypeOK, RequestStep, ReadState, BurnState, Exchange, Identify, CheckAccess,
       ReadConsent, DeleteConsent, StoreToken, CompleteAuthorization, Go, Reply
<1>2. CASE ReadState(r) \/ BurnState(r) \/ Identify(r)
  <2>1. UNCHANGED <<consents, entered, grants, together>>
    BY <1>2 DEF ReadState, BurnState, Identify
  <2>2. \/ req'[r].pc \in {"idle", "burn", "exchange"}
        \/ req[r].pc = "identify" /\ req'[r].pc = "access" /\ req'[r].flow = req[r].flow
    BY <1>2 DEF ReadState, BurnState, Identify, Go, Reply, Idle, LoginTypeOK
  <2>3. QED
    BY <1>1, <2>1, <2>2, SpentMove DEF Checking, Consenting
<1>3. CASE Exchange(r)
  <2>1. UNCHANGED <<consents, entered, grants, together>>
    BY <1>3 DEF Exchange
  <2>2. \/ req'[r].pc = "idle"
        \/ /\ req'[r].pc = "identify" /\ req'[r].flow = req[r].flow
           /\ req[r].flow \notin redeemed
    BY <1>3 DEF Exchange, Go, Reply, Idle, LoginTypeOK
  <2>3. req'[r].pc = "identify" =>
           /\ entered[req[r].flow] = {}
           /\ \A q \in Requests : req[q].pc \in Checking => req[q].flow # req[r].flow
    BY <1>1, <2>2 DEF Bound, BrowserBound, Checking
  <2>4. QED
    BY <1>1, <2>1, <2>2, <2>3, SpentMove DEF Checking, Consenting
<1>4. CASE StoreToken(r)
  <2>1. UNCHANGED <<consents, entered, grants, together>>
    BY <1>4 DEF StoreToken
  <2>2. req[r].pc = "store" /\ req'[r].pc = "complete" /\ req'[r].flow = req[r].flow
    BY <1>4 DEF StoreToken, Go, LoginTypeOK
  <2>3. req[r].flow \notin together =>
           grants[req[r].flow] = 0 /\ consents[req[r].flow] = {}
    BY <2>2 DEF Spent, Ungranted
  <2>4. QED
    BY <1>1, <2>1, <2>2, <2>3, SpentMove DEF Checking, Consenting
<1>5. CASE CheckAccess(r)
  <2>1. CASE UNCHANGED <<consents, entered>>
    <3>1. UNCHANGED <<grants, together>> /\ req'[r].pc = "idle"
        BY <1>5 DEF CheckAccess, Reply, Idle, LoginTypeOK
    <3>2. QED
        BY <1>1, <2>1, <3>1, SpentMove DEF Checking, Consenting
  <2>2. QED
    BY <1>5, <2>1, SpentGranted DEF CheckAccess
<1>6. CASE ReadConsent(r)
  <2>1. /\ UNCHANGED <<consents, entered, grants>> /\ together \subseteq together'
        /\ req[r].pc = "read"
    BY <1>6 DEF ReadConsent
  <2>2. \/ req'[r].pc = "idle"
        \/ /\ req'[r].pc = "delete" /\ req'[r].flow = req[r].flow
           /\ consents[req[r].flow] # {} \/ req[r].flow \in together'
    BY <1>6 DEF ReadConsent, Reply, Idle, LoginTypeOK
  <2>3. req[r].flow \notin together' /\ req'[r].pc = "delete" => grants[req[r].flow] = 0
    BY <1>1, <2>1, <2>2 DEF Spent, GrantedOnce
  <2>4. QED
    BY <1>1, <2>1, <2>2, <2>3, SpentMove DEF Checking, Consenting
<1>7. QED
    BY <1>2, <1>3, <1>4, <1>5, <1>6, SpentDelete, SpentComplete DEF RequestStep

LEMMA SpentNext == LoginTypeOK /\ Bound /\ Spent /\ [LoginNext]_loginVars => Spent'
<1> SUFFICES ASSUME LoginTypeOK, Bound, Spent, [LoginNext]_loginVars PROVE Spent'
    OBVIOUS
<1>1. ASSUME NEW r \in Requests, RequestStep(r) PROVE Spent'
    BY <1>1, SpentStep
<1>2. ASSUME UNCHANGED <<req, consents, entered, grants, together>> PROVE Spent'
    BY <1>2 DEF Spent, FreshFlows, Entering, CheckedOnce, ConsentedOnce, Ungranted,
       GrantedOnce
<1>3. ASSUME NEW r \in Requests, NEW f \in Flows, SubmitConsent(r, f) PROVE Spent'
  <2>1. /\ UNCHANGED <<consents, entered, grants>> /\ together \subseteq together'
        /\ entered[f] # {} /\ req[r].pc = "idle"
        /\ \A q \in Requests : req[q].flow = f /\ req[q].pc \in Consenting =>
              f \in together'
    BY <1>3 DEF SubmitConsent
  <2>2. \A q \in Requests : q # r => req'[q] = req[q]
    BY <1>3 DEF SubmitConsent
  <2>3. req'[r].pc = "read" /\ req'[r].flow = f
    BY <1>3 DEF SubmitConsent, Idle, LoginTypeOK
  <2>4. QED
    BY <2>1, <2>2, <2>3, SpentMove DEF Consenting, Checking
<1>4. ASSUME NEW r \in Requests, NEW f \in Flows, NEW b \in Browsers, Callback(r, f, b)
      PROVE  Spent'
  <2>1. UNCHANGED <<consents, entered, grants, together>>
    BY <1>4 DEF Callback
  <2>2. CASE req' = req
    BY <1>2, <2>1, <2>2
  <2>3. CASE req' = [req EXCEPT ![r] = CallbackReq(f, b)]
    <3>1. req'[r].pc = "state" /\ \A q \in Requests : q # r => req'[q] = req[q]
        BY <2>3 DEF CallbackReq, LoginTypeOK
    <3>2. QED
        BY <2>1, <3>1, SpentMove DEF Consenting, Checking
  <2>4. QED
    BY <1>4, <2>2, <2>3 DEF Callback, CallbackReq
<1>5. QED
  <2>1. ASSUME NEW f \in Flows, NEW b \in Browsers, Authorize(f, b) PROVE Spent'
    BY <1>2, <2>1 DEF Authorize
  <2>2. ASSUME NEW f \in Flows, NEW u \in Users, SignIn(f, u) PROVE Spent'
    BY <1>2, <2>2 DEF SignIn
  <2>3. CASE StoreSettles \/ UNCHANGED loginVars
    BY <1>2, <2>3 DEF StoreSettles, loginVars
  <2>4. QED
    BY <1>1, <1>3, <1>4, <2>1, <2>2, <2>3, LoginNextSplit

(* acumatica-auth-handler.ts:384-392: a login completes one authorization, *)
(* unless its consent is submitted twice at once or a read misses that it  *)
(* was deleted; proved for any number of logins and submissions.           *)
THEOREM OneGrantAlways == LoginSpec => []OneGrantPerLogin
<1>1. LoginSpec => [](LoginTypeOK /\ Bound /\ Spent)
    BY TypeInit, LoginTypeNext, BoundInit, BoundNext, SpentInit, SpentNext, PTL DEF LoginSpec
<1>2. Spent => OneGrantPerLogin
    BY DEF Spent, GrantedOnce, OneGrantPerLogin
<1>3. QED
    BY <1>1, <1>2, PTL

-----------------------------------------------------------------------------
(* From the identity to the stored token.                                  *)

(* A key that a flow's login may have got: its state's, its user's, or the *)
(* one that everybody unnamed shares.                                      *)
KeyOf(f, k) == k = Unknown \/ k = ThrownKey(f)
               \/ \E u \in code[f] : k = [kind |-> "own", of |-> u]

OneUser == \A f \in Flows : \A u, v \in code[f] : u = v
NamedRequests == \A r \in Requests :
    /\ req[r].pc \in {"access", "delete", "store", "complete"} =>
          KeyOf(req[r].flow, req[r].key)
    /\ req[r].pc = "complete" => userToken[req[r].key] # {}
NamedConsents == \A f \in Flows :
    /\ \A k \in consents[f] : KeyOf(f, k)
    /\ \A k \in Keys : ConsentRecord(f, k) \in missed => KeyOf(f, k)
NamedTokens ==
    /\ \A k \in Keys : \A g \in userToken[k] : KeyOf(g, k)
    /\ \A f \in Flows : \A k \in grantKeys[f] : KeyOf(f, k) /\ userToken[k] # {}

(* Every key on its way to the store, and every token in it, is of a user  *)
(* of its flow.                                                            *)
Named == OneUser /\ NamedRequests /\ NamedConsents /\ NamedTokens

LEMMA NamedInit == LoginInit => Named
    BY DEF LoginInit, Named, OneUser, NamedRequests, NamedConsents, NamedTokens, Idle

(* Two flows that may have got the same key, not everybody's, have the     *)
(* same user.                                                              *)
LEMMA SameUser ==
    ASSUME OneUser, NEW f \in Flows, NEW g \in Flows, NEW k, k # Unknown,
           KeyOf(f, k), KeyOf(g, k)
    PROVE  code[g] = code[f]
<1>1. CASE k = ThrownKey(f)
  <2>1. k.kind = "state" /\ k.of = f
    BY <1>1 DEF ThrownKey
  <2>2. k = ThrownKey(g)
    BY <2>1 DEF KeyOf
  <2>3. QED
    BY <2>1, <2>2 DEF ThrownKey
<1>2. CASE \E u \in code[f] : k = [kind |-> "own", of |-> u]
  <2>1. PICK u \in code[f] : k = [kind |-> "own", of |-> u]
    BY <1>2
  <2>2. k.kind = "own" /\ k.of = u
    BY <2>1
  <2>3. PICK v \in code[g] : k = [kind |-> "own", of |-> v]
    BY <2>2 DEF KeyOf, ThrownKey
  <2>4. u = v
    BY <2>2, <2>3
  <2>5. code[f] = {u} /\ code[g] = {u}
    BY <2>1, <2>3, <2>4 DEF OneUser
  <2>6. QED
    BY <2>5
<1>3. QED
    BY <1>1, <1>2 DEF KeyOf

LEMMA IdentitiesNamed ==
    ASSUME NEW f \in Flows, NEW k \in Identities(f)
    PROVE  KeyOf(f, k)
    BY DEF Identities, KeyOf

(* A missed deletion is of a consent that was there.                       *)
LEMMA MissedNamed ==
    ASSUME LoginTypeOK, Named, NEW f \in Flows, NEW k \in Keys, KeyOf(f, k),
           \/ Delete(StateRecord(f)) \/ Delete(ConsentRecord(f, k))
           \/ missed' \subseteq missed,
           NEW g \in Flows, NEW l \in Keys, ConsentRecord(g, l) \in missed'
    PROVE  KeyOf(g, l)
<1>1. CASE ConsentRecord(g, l) \in missed
    BY <1>1 DEF Named, NamedConsents
<1>2. CASE ConsentRecord(g, l) \in {StateRecord(f), ConsentRecord(f, k)}
  <2>1. ConsentRecord(g, l).what = "consent" /\ StateRecord(f).what = "state"
    BY DEF ConsentRecord, StateRecord
  <2>2. ConsentRecord(g, l) = ConsentRecord(f, k)
    BY <1>2, <2>1
  <2>3. g = f /\ l = k
    BY <2>2 DEF ConsentRecord
  <2>4. QED
    BY <2>3
<1>3. QED
    BY <1>1, <1>2 DEF Delete

(* What a step of a request does to the keys it handles.                   *)
LEMMA NamedStep ==
    ASSUME LoginTypeOK, Named, NEW r \in Requests, RequestStep(r)
    PROVE  Named'
<1>1. /\ req[r].pc # "idle" /\ req[r].flow \in Flows /\ req[r].key \in Keys
      /\ \A q \in Requests : q # r => req'[q] = req[q]
    BY DEF LoginTypeOK, RequestStep, ReadState, BurnState, Exchange, Identify, CheckAccess,
       ReadConsent, DeleteConsent, StoreToken, CompleteAuthorization, Go, Reply
<1>2. code' = code /\ \A f, k : KeyOf(f, k)' <=> KeyOf(f, k)
    BY DEF RequestStep, ReadState, BurnState, Exchange, Identify, CheckAccess, ReadConsent,
       DeleteConsent, StoreToken, CompleteAuthorization, KeyOf
<1>3. OneUser'
    BY <1>2 DEF Named, OneUser
<1>4. req'[r].pc \in {"access", "delete", "store", "complete"} =>
         req'[r].flow = req[r].flow /\ KeyOf(req[r].flow, req'[r].key)
  <2>1. CASE ReadState(r) \/ BurnState(r) \/ Exchange(r) \/ CheckAccess(r)
             \/ CompleteAuthorization(r)
    BY <2>1 DEF ReadState, BurnState, Exchange, CheckAccess, CompleteAuthorization, Go,
       Reply, Idle, LoginTypeOK
  <2>2. CASE DeleteConsent(r) \/ StoreToken(r)
    BY <2>2 DEF DeleteConsent, StoreToken, Go, LoginTypeOK, Named, NamedRequests
  <2>3. CASE Identify(r)
    BY <1>1, <2>3, IdentitiesNamed DEF Identify, LoginTypeOK
  <2>4. CASE ReadConsent(r)
    <3>1. \/ Reply(r)
          \/ \E k \in Keys : /\ req' = [req EXCEPT ![r].pc = "delete", ![r].key = k]
                             /\ KeyOf(req[r].flow, k)
        BY <1>1, <2>4 DEF ReadConsent, LoginTypeOK, Named, NamedConsents
    <3>2. QED
        BY <3>1 DEF Reply, Idle, LoginTypeOK
  <2>5. QED
    BY <2>1, <2>2, <2>3, <2>4 DEF RequestStep
<1>5. NamedConsents'
  <2>1. ASSUME NEW f \in Flows, NEW k \in consents'[f] PROVE KeyOf(f, k)
    <3>1. CASE CheckAccess(r)
        BY <1>1, <2>1, <3>1 DEF CheckAccess, LoginTypeOK, Named, NamedRequests, NamedConsents
    <3>2. CASE DeleteConsent(r)
        BY <1>1, <2>1, <3>2 DEF DeleteConsent, LoginTypeOK, Named, NamedConsents
    <3>3. CASE consents' = consents
        BY <2>1, <3>3 DEF Named, NamedConsents
    <3>4. QED
        BY <3>1, <3>2, <3>3 DEF RequestStep, ReadState, BurnState, Exchange, Identify,
           ReadConsent, StoreToken, CompleteAuthorization
  <2>2. ASSUME NEW f \in Flows, NEW k \in Keys, ConsentRecord(f, k) \in missed'
        PROVE  KeyOf(f, k)
    <3>1. CASE BurnState(r)
        BY <1>1, <2>2, <3>1, MissedNamed, KeysTyped DEF BurnState, KeyOf
    <3>2. CASE DeleteConsent(r)
        BY <1>1, <2>2, <3>2, MissedNamed DEF DeleteConsent, Named, NamedRequests
    <3>3. CASE missed' \subseteq missed
        BY <2>2, <3>3 DEF Named, NamedConsents
    <3>4. QED
        BY <3>1, <3>2, <3>3 DEF RequestStep, ReadState, Exchange, Identify, CheckAccess,
           ReadConsent, StoreToken, CompleteAuthorization
  <2>3. QED
    BY <1>2, <2>1, <2>2 DEF NamedConsents, ConsentRecord
<1>6. \A k \in Keys : userToken[k] # {} => userToken'[k] # {}
  <2>1. CASE StoreToken(r)
    <3>1. userToken' = [userToken EXCEPT ![req[r].key] = {req[r].flow}]
        BY <2>1 DEF StoreToken, TokenKey
    <3>2. userToken \in [Keys -> SUBSET Flows]
        BY DEF LoginTypeOK
    <3>3. QED
        BY <3>1, <3>2
  <2>2. CASE userToken' = userToken
    BY <2>2
  <2>3. QED
    BY <2>1, <2>2 DEF RequestStep, ReadState, BurnState, Exchange, Identify, CheckAccess,
       ReadConsent, DeleteConsent, CompleteAuthorization
<1>7. NamedRequests'
  <2>1. ASSUME NEW q \in Requests,
               req'[q].pc \in {"access", "delete", "store", "complete"}
        PROVE  KeyOf(req'[q].flow, req'[q].key)
    BY <1>1, <1>4, <2>1 DEF Named, NamedRequests
  <2>2. ASSUME NEW q \in Requests, req'[q].pc = "complete"
        PROVE  userToken'[req'[q].key] # {}
    <3>1. CASE q = r /\ StoreToken(r)
        BY <1>1, <3>1 DEF StoreToken, TokenKey, Go, LoginTypeOK
    <3>2. CASE q = r /\ ~StoreToken(r)
        BY <2>2, <3>2 DEF RequestStep, ReadState, BurnState, Exchange, Identify,
           CheckAccess, ReadConsent, DeleteConsent, CompleteAuthorization, Go, Reply, Idle,
           LoginTypeOK
    <3>3. CASE q # r
        BY <1>1, <1>6, <2>2, <3>3 DEF Named, NamedRequests, LoginTypeOK
    <3>4. QED
        BY <3>1, <3>2, <3>3
  <2>3. QED
    BY <1>2, <2>1, <2>2 DEF NamedRequests
<1>8. NamedTokens'
  <2>1. ASSUME NEW k \in Keys, NEW g \in userToken'[k] PROVE KeyOf(g, k)
    <3>1. CASE StoreToken(r)
        BY <1>1, <2>1, <3>1 DEF StoreToken, TokenKey, LoginTypeOK, Named, NamedRequests,
           NamedTokens
    <3>2. CASE userToken' = userToken
        BY <2>1, <3>2 DEF Named, NamedTokens
    <3>3. QED
        BY <3>1, <3>2 DEF RequestStep, ReadState, BurnState, Exchange, Identify,
           CheckAccess, ReadConsent, DeleteConsent, CompleteAuthorization
  <2>2. ASSUME NEW f \in Flows, NEW k \in grantKeys'[f]
        PROVE  KeyOf(f, k) /\ userToken'[k] # {}
    <3>1. CASE CompleteAuthorization(r)
      <4>1. k \in grantKeys[f] \/ (f = req[r].flow /\ k = req[r].key)
        BY <1>1, <2>2, <3>1 DEF CompleteAuthorization, LoginTypeOK
      <4>2. userToken' = userToken /\ req[r].pc = "complete"
        BY <3>1 DEF CompleteAuthorization
      <4>3. QED
        BY <1>1, <4>1, <4>2 DEF Named, NamedRequests, NamedTokens
    <3>2. CASE grantKeys' = grantKeys
        BY <1>6, <2>2, <3>2 DEF Named, NamedTokens, LoginTypeOK
    <3>3. QED
        BY <3>1, <3>2 DEF RequestStep, ReadState, BurnState, Exchange, Identify,
           CheckAccess, ReadConsent, DeleteConsent, StoreToken
  <2>3. QED
    BY <1>2, <2>1, <2>2 DEF NamedTokens
<1>9. QED
    BY <1>3, <1>5, <1>7, <1>8 DEF Named

(* A step that handles no key: no request gets one, and no record appears. *)
LEMMA NamedKept ==
    ASSUME LoginTypeOK, Named, OneUser',
           \A f \in Flows, k \in Keys : KeyOf(f, k) => KeyOf(f, k)',
           \A q \in Requests : req'[q] = req[q] \/ req'[q].pc \in {"state", "read"},
           UNCHANGED <<consents, userToken, grantKeys>>,
           \A f \in Flows, k \in Keys :
              ConsentRecord(f, k) \in missed' => ConsentRecord(f, k) \in missed
    PROVE  Named'
<1>1. NamedRequests'
    BY DEF Named, NamedRequests, LoginTypeOK
<1>2. NamedConsents'
  <2>1. \A f \in Flows : \A k \in consents[f] : KeyOf(f, k)' /\ k \in Keys
    BY DEF Named, NamedConsents, LoginTypeOK
  <2>2. \A f \in Flows, k \in Keys : ConsentRecord(f, k) \in missed' => KeyOf(f, k)'
    BY DEF Named, NamedConsents
  <2>3. QED
    BY <2>1, <2>2 DEF NamedConsents, ConsentRecord
<1>3. NamedTokens'
  <2>1. \A k \in Keys : \A g \in userToken[k] : KeyOf(g, k)'
    BY DEF Named, NamedTokens, LoginTypeOK
  <2>2. \A f \in Flows : \A k \in grantKeys[f] : KeyOf(f, k)' /\ userToken[k] # {}
    BY DEF Named, NamedTokens, LoginTypeOK
  <2>3. QED
    BY <2>1, <2>2 DEF NamedTokens
<1>4. QED
    BY <1>1, <1>2, <1>3 DEF Named

LEMMA NamedNext == LoginTypeOK /\ Named /\ [LoginNext]_loginVars => Named'
<1> SUFFICES ASSUME LoginTypeOK, Named, [LoginNext]_loginVars PROVE Named'
    OBVIOUS
<1>1. ASSUME NEW r \in Requests, RequestStep(r) PROVE Named'
    BY <1>1, NamedStep
<1>2. ASSUME code' = code
      PROVE  OneUser' /\ \A f \in Flows, k \in Keys : KeyOf(f, k) => KeyOf(f, k)'
    BY <1>2 DEF Named, OneUser, KeyOf
<1>3. ASSUME NEW f \in Flows, NEW b \in Browsers, Authorize(f, b) PROVE Named'
  <2>1. code' = code /\ UNCHANGED <<req, consents, userToken, grantKeys, missed>>
    BY <1>3 DEF Authorize
  <2>2. QED
    BY <1>2, <2>1, NamedKept
<1>4. ASSUME NEW f \in Flows, NEW u \in Users, SignIn(f, u) PROVE Named'
  <2>1. /\ UNCHANGED <<req, consents, userToken, grantKeys, missed>>
        /\ code[f] = {} /\ code' = [code EXCEPT ![f] = {u}]
    BY <1>4 DEF SignIn
  <2>2. \A g \in Flows : code'[g] = code[g] \/ (code[g] = {} /\ code'[g] = {u})
    BY <2>1 DEF LoginTypeOK
  <2>3. OneUser'
    BY <2>2 DEF Named, OneUser
  <2>4. \A g \in Flows, k \in Keys : KeyOf(g, k) => KeyOf(g, k)'
    BY <2>2 DEF KeyOf
  <2>5. QED
    BY <2>1, <2>3, <2>4, NamedKept
<1>5. ASSUME NEW r \in Requests, NEW f \in Flows, SubmitConsent(r, f) PROVE Named'
  <2>1. /\ code' = code /\ UNCHANGED <<consents, userToken, grantKeys, missed>>
        /\ \A q \in Requests : req'[q] = req[q] \/ req'[q].pc = "read"
    BY <1>5 DEF SubmitConsent, Idle, LoginTypeOK
  <2>2. QED
    BY <1>2, <2>1, NamedKept
<1>6. ASSUME NEW r \in Requests, NEW f \in Flows, NEW b \in Browsers, Callback(r, f, b)
      PROVE  Named'
  <2>1. /\ code' = code /\ UNCHANGED <<consents, userToken, grantKeys>>
        /\ \A q \in Requests : req'[q] = req[q] \/ req'[q].pc = "state"
    BY <1>6 DEF Callback, LoginTypeOK
  <2>2. missed' \subseteq missed \union {StateRecord(f)}
    BY <1>6 DEF Callback, Delete
  <2>3. \A g \in Flows, k \in Keys : ConsentRecord(g, k) # StateRecord(f)
    BY DEF ConsentRecord, StateRecord
  <2>4. QED
    BY <1>2, <2>1, <2>2, <2>3, NamedKept
<1>7. CASE StoreSettles \/ UNCHANGED loginVars
  <2>1. /\ code' = code /\ UNCHANGED <<req, consents, userToken, grantKeys>>
        /\ missed' \subseteq missed
    BY <1>7 DEF StoreSettles, loginVars
  <2>2. QED
    BY <1>2, <2>1, NamedKept
<1>8. QED
    BY <1>1, <1>3, <1>4, <1>5, <1>6, <1>7, LoginNextSplit

(* acumatica-auth-handler.ts:297-299: users do not share a token key.  The *)
(* token stored under a granted user id other than "unknown" is of that    *)
(* login's user, whichever logins, callbacks and submissions came between. *)
THEOREM OwnTokenAlways == LoginSpec => []OwnTokenServed
<1>1. LoginSpec => [](LoginTypeOK /\ Named)
    BY TypeInit, LoginTypeNext, NamedInit, NamedNext, PTL DEF LoginSpec
<1>2. LoginTypeOK /\ Named => OwnTokenServed
  <2> SUFFICES ASSUME LoginTypeOK, Named, NEW f \in Flows, NEW k \in grantKeys[f],
                      k # Unknown
               PROVE  userToken[k] # {} /\ \A g \in userToken[k] : code[g] = code[f]
    BY DEF OwnTokenServed
  <2>1. k \in Keys /\ KeyOf(f, k) /\ userToken[k] # {}
    BY DEF Named, NamedTokens, LoginTypeOK
  <2>2. \A g \in userToken[k] : g \in Flows /\ KeyOf(g, k)
    BY <2>1 DEF Named, NamedTokens, LoginTypeOK
  <2>3. QED
    BY <2>1, <2>2, SameUser DEF Named
<1>3. QED
    BY <1>1, <1>2, PTL

-----------------------------------------------------------------------------
(* The console.                                                            *)

(* What a sweep is due to end cannot come back: it is live for every       *)
(* reader, or deleted, and deleted once its page was read.  Who came with  *)
(* a session that was over is stopped by validateSession.                  *)
Doomed ==
    /\ \A v \in Visitors : visit[v].pc = "sweep" =>
          \A s \in visit[v].due :
             \/ record[s] = "deleted"
             \/ record[s] = "live" /\ s \notin hidden /\ s \in visit[v].left
    /\ \A v \in Visitors : visit[v].ended =>
          /\ visit[v].pc = "validate"
          /\ record[visit[v].session] = "deleted"
          /\ visit[v].session \notin hidden

(* A request past the cookie check acts for a session.                     *)
Cookied ==
    \A v \in Visitors :
        visit[v].pc \in {"validate", "csrf", "save", "sweep", "logout"} =>
            visit[v].session \in Sessions

VisitType == [pc: Steps \union {"idle"}, session: Sessions \union {NoSession},
              purpose: Purposes, count: Nat, ended: BOOLEAN,
              left: SUBSET Sessions, due: SUBSET Sessions]

ConsoleInv == AdminTypeOK /\ Cookied /\ Doomed /\ RevokedStayDead

-----------------------------------------------------------------------------
(* The start.                                                              *)

LEMMA NoVisitTyped == NoVisit \in VisitType
    BY DEF NoVisit, VisitType, Steps, LoggingIn, Purposes

LEMMA InitHolds == AdminInit => ConsoleInv
<1> SUFFICES ASSUME AdminInit PROVE ConsoleInv
    OBVIOUS
<1>1. visit \in [Visitors -> VisitType]
    BY NoVisitTyped DEF AdminInit
<1>2. AdminTypeOK
    BY <1>1 DEF AdminInit, AdminTypeOK, VisitType
<1>3. Cookied /\ Doomed /\ RevokedStayDead
    BY DEF AdminInit, Cookied, Doomed, RevokedStayDead, NoVisit
<1>4. QED
    BY <1>2, <1>3 DEF ConsoleInv

-----------------------------------------------------------------------------
(* The store: what a put or a delete does to the invariant.                *)

LEMMA WriteTyped ==
    ASSUME AdminTypeOK, NEW s \in Sessions, NEW value \in {"live", "deleted"},
           Write(s, value)
    PROVE  /\ record' \in [Sessions -> {"none", "live", "deleted"}]
           /\ hidden' \subseteq Sessions /\ stale' \in Nat
    BY ConsoleConstants DEF AdminTypeOK, Write, Late

LEMMA StoreTyped == AdminTypeOK => stale \in Nat /\ (Late => stale' \in Nat)
    BY ConsoleConstants DEF AdminTypeOK, Late

(* A step that changes one visit, to one of the type.                      *)
LEMMA VisitTyped ==
    ASSUME AdminTypeOK, NEW v \in Visitors, NEW to \in VisitType,
           visit' = [visit EXCEPT ![v] = to]
    PROVE  visit' \in [Visitors -> VisitType]
    BY DEF AdminTypeOK, VisitType

LEMMA Visit == AdminTypeOK => \A v \in Visitors : visit[v] \in VisitType
    BY DEF AdminTypeOK, VisitType
LEMMA MoveTyped ==
    ASSUME AdminTypeOK, NEW v \in Visitors, NEW pc \in Steps, Move(v, pc)
    PROVE  visit' \in [Visitors -> VisitType]
    BY Visit DEF AdminTypeOK, Move, VisitType
LEMMA AnswerTyped ==
    ASSUME AdminTypeOK, NEW v \in Visitors, Answer(v)
    PROVE  visit' \in [Visitors -> VisitType]
    BY NoVisitTyped, Visit DEF AdminTypeOK, Answer, VisitType

(* The step of one visitor, a step at a time.                              *)
VisitorStep(v) ==
    \/ Login(v) \/ Gate(v) \/ CountFailure(v) \/ PutFailure(v)
    \/ ClearFailures(v) \/ CreateSession(v)
    \/ \E s \in Sessions, p \in {"save", "sweep", "logout"} : Arrive(v, s, p)
    \/ Validate(v) \/ RequireCsrf(v) \/ Save(v) \/ Logout(v)
    \/ SweepPage(v) \/ SweepDone(v) \/ SweepFails(v) \/ AccessThrows(v)

LEMMA NextSplit ==
    ASSUME [AdminNext]_adminVars
    PROVE  \/ \E v \in Visitors : VisitorStep(v)
           \/ WindowEnds \/ SessionsSettle \/ UNCHANGED adminVars
    BY DEF AdminNext, VisitorStep

LEMMA UnusedChosen ==
    ASSUME Unused # {}
    PROVE  (CHOOSE s \in Unused : TRUE) \in Unused
    OBVIOUS

-----------------------------------------------------------------------------
(* Types.                                                                  *)

CounterTyped ==
    /\ fails \in Nat /\ windows \in Nat /\ wrongs \in Nat
    /\ compared \in Nat /\ uncounted \in Nat
    /\ tooSoon \in BOOLEAN /\ overlap \in BOOLEAN
StoredTyped ==
    /\ record \in [Sessions -> {"none", "live", "deleted"}]
    /\ hidden \subseteq Sessions /\ stale \in Nat
    /\ swept \subseteq Sessions /\ zombies \subseteq Sessions

LEMMA Typed ==
    AdminTypeOK <=> CounterTyped /\ StoredTyped /\ visit \in [Visitors -> VisitType]
    BY DEF AdminTypeOK, CounterTyped, StoredTyped, VisitType

LEMMA TypeStep ==
    ASSUME ConsoleInv, NEW v \in Visitors, VisitorStep(v)
    PROVE  AdminTypeOK'
<1> USE DEF ConsoleInv
<1>0. /\ CounterTyped /\ StoredTyped /\ visit \in [Visitors -> VisitType]
      /\ visit[v] \in VisitType
    BY Typed
<1>1. CASE Login(v) \/ Gate(v) \/ CountFailure(v) \/ PutFailure(v) \/ ClearFailures(v)
  <2>1. CounterTyped'
    <3>1. CASE Login(v) \/ CountFailure(v) \/ ClearFailures(v)
      <4>1. fails' \in Nat /\ windows' \in Nat /\ wrongs' \in Nat /\ compared' \in Nat
            /\ uncounted' \in Nat
        BY <1>0, <3>1 DEF Login, CountFailure, ClearFailures, CounterTyped
      <4>2. tooSoon' \in BOOLEAN /\ overlap' \in BOOLEAN
        BY <1>0, <3>1, Zenon DEF Login, CountFailure, ClearFailures, CounterTyped, Reads
      <4>3. QED
        BY <4>1, <4>2 DEF CounterTyped
    <3>3. CASE Gate(v)
      <4>1. fails' \in Nat /\ windows' \in Nat /\ wrongs' \in Nat /\ compared' \in Nat
            /\ uncounted' \in Nat
        BY <1>0, <3>3 DEF Gate, CounterTyped
      <4>2. tooSoon' \in BOOLEAN /\ overlap' \in BOOLEAN
        BY <1>0, <3>3, Zenon DEF Gate, CounterTyped, Reads
      <4>3. QED
        BY <4>1, <4>2 DEF CounterTyped
    <3>2. CASE PutFailure(v)
        BY <1>0, <3>2 DEF PutFailure, CounterTyped, VisitType
    <3>4. QED
        BY <1>1, <3>1, <3>2, <3>3
  <2>2. StoredTyped'
    BY <1>0, <1>1, StoreTyped DEF Login, Gate, CountFailure, PutFailure, ClearFailures,
       Reads, StoredTyped
  <2>3. visit' \in [Visitors -> VisitType]
    <3>1. CASE CountFailure(v)
      <4>1. PICK n \in 0..fails :
               visit' = [visit EXCEPT ![v].pc = "put", ![v].count = n + 1]
        BY <3>1 DEF CountFailure
      <4>2. n + 1 \in Nat
        BY <1>0 DEF CounterTyped
      <4>3. [visit[v] EXCEPT !.pc = "put", !.count = n + 1] \in VisitType
        BY <1>0, <4>2 DEF VisitType, Steps, LoggingIn
      <4>4. QED
        BY <1>0, <4>1, <4>3
    <3>2. CASE Login(v) \/ Gate(v) \/ PutFailure(v) \/ ClearFailures(v)
      <4>1. Answer(v) \/ Move(v, "gate") \/ Move(v, "count") \/ Move(v, "clear")
            \/ Move(v, "create")
        BY <3>2 DEF Login, Gate, PutFailure, ClearFailures
      <4>2. QED
        BY <4>1, MoveTyped, AnswerTyped DEF Steps, LoggingIn
    <3>3. QED
        BY <1>1, <3>1, <3>2
  <2>4. QED
    BY <2>1, <2>2, <2>3 DEF AdminTypeOK, CounterTyped, StoredTyped, VisitType
<1>2. CASE CreateSession(v) \/ Logout(v) \/ SweepPage(v)
  <2>1. PICK s \in Sessions, value \in {"live", "deleted"} :
           Write(s, value) \/ UNCHANGED <<record, hidden, stale>>
    <3>1. CASE CreateSession(v)
        BY <3>1, UnusedChosen DEF CreateSession, Unused
    <3>2. CASE Logout(v)
        BY <3>2 DEF Logout, Cookied
    <3>3. CASE SweepPage(v)
        BY <1>0, <3>3 DEF SweepPage, VisitType
    <3>4. QED
        BY <1>2, <3>1, <3>2, <3>3
  <2>2. StoredTyped'
    BY <1>0, <1>2, <2>1, WriteTyped DEF StoredTyped, CreateSession, Logout, SweepPage
  <2>3. CounterTyped'
    BY <1>0, <1>2 DEF CreateSession, Logout, SweepPage, counter, CounterTyped
  <2>4. visit' \in [Visitors -> VisitType]
    <3>1. CASE SweepPage(v)
      <4>1. PICK next \in visit[v].left : visit' = [visit EXCEPT ![v].left = @ \ {next}]
        BY <3>1 DEF SweepPage
      <4>2. [visit[v] EXCEPT !.left = @ \ {next}] \in VisitType
        BY <1>0 DEF VisitType
      <4>3. QED
        BY <1>0, <4>1, <4>2
    <3>2. CASE CreateSession(v) \/ Logout(v)
        BY <3>2, AnswerTyped DEF CreateSession, Logout
    <3>3. QED
        BY <1>2, <3>1, <3>2
  <2>5. QED
    BY <2>2, <2>3, <2>4 DEF AdminTypeOK, CounterTyped, StoredTyped, VisitType
<1>3. ASSUME NEW s \in Sessions, NEW p \in {"save", "sweep", "logout"}, Arrive(v, s, p)
      PROVE  AdminTypeOK'
  <2> DEFINE to == [NoVisit EXCEPT !.pc = "validate", !.session = s, !.purpose = p,
                       !.ended = record[s] = "deleted" /\ s \notin hidden]
  <2>1. to \in VisitType
    BY NoVisitTyped DEF VisitType, Steps, Purposes
  <2>2. visit' = [visit EXCEPT ![v] = to]
    BY <1>3 DEF Arrive
  <2>3. visit' \in [Visitors -> VisitType]
    BY <2>1, <2>2, VisitTyped
  <2>4. CounterTyped' /\ StoredTyped'
    BY <1>0, <1>3 DEF Arrive, counter, CounterTyped, StoredTyped
  <2>5. QED
    BY <2>3, <2>4 DEF AdminTypeOK, CounterTyped, StoredTyped, VisitType
<1>4. CASE Validate(v) \/ RequireCsrf(v) \/ Save(v) \/ SweepDone(v) \/ SweepFails(v)
  <2>1. CounterTyped'
    BY <1>0, <1>4 DEF Validate, RequireCsrf, Save, SweepDone, SweepFails, counter,
       CounterTyped
  <2>2. StoredTyped'
    BY <1>0, <1>4 DEF Validate, RequireCsrf, Save, SweepDone, SweepFails, StoredTyped,
       Cookied, VisitType
  <2>3. visit' \in [Visitors -> VisitType]
    <3>1. CASE \E due \in SUBSET Sessions :
                  visit' = [visit EXCEPT ![v].pc = "sweep", ![v].left = Sessions,
                                         ![v].due = due]
      <4>1. PICK due \in SUBSET Sessions :
               visit' = [visit EXCEPT ![v].pc = "sweep", ![v].left = Sessions,
                                      ![v].due = due]
        BY <3>1
      <4>2. [visit[v] EXCEPT !.pc = "sweep", !.left = Sessions, !.due = due] \in VisitType
        BY <1>0 DEF VisitType, Steps
      <4>3. QED
        BY <1>0, <4>1, <4>2
    <3>2. CASE Answer(v) \/ \E pc \in Steps : Move(v, pc)
        BY <3>2, AnswerTyped, MoveTyped
    <3>3. CASE Validate(v) \/ Save(v) \/ SweepDone(v) \/ SweepFails(v)
        BY <3>2, <3>3 DEF Validate, Save, SweepDone, SweepFails, Steps
    <3>4. CASE RequireCsrf(v)
      <4> DEFINE due == {s \in Sessions : record[s] = "live" /\ s \notin hidden}
      <4>1. \/ Answer(v) \/ Move(v, "save")
            \/ visit' = [visit EXCEPT ![v].pc = "sweep", ![v].left = Sessions,
                                      ![v].due = due]
        BY <3>4 DEF RequireCsrf
      <4>2. due \in SUBSET Sessions
        OBVIOUS
      <4>3. QED
        BY <3>1, <3>2, <4>1, <4>2 DEF Steps
    <3>5. QED
        BY <1>4, <3>3, <3>4
  <2>4. QED
    BY <2>1, <2>2, <2>3 DEF AdminTypeOK, CounterTyped, StoredTyped, VisitType
<1>5. CASE AccessThrows(v)
  <2>1. CounterTyped' /\ StoredTyped'
    BY <1>0, <1>5 DEF AccessThrows, CounterTyped, StoredTyped
  <2>2. visit' \in [Visitors -> VisitType]
    BY <1>5, AnswerTyped DEF AccessThrows
  <2>3. QED
    BY <2>1, <2>2 DEF AdminTypeOK, CounterTyped, StoredTyped, VisitType
<1>6. QED
    BY <1>1, <1>2, <1>3, <1>4, <1>5 DEF VisitorStep

LEMMA TypeNext ==
    ConsoleInv /\ [AdminNext]_adminVars => AdminTypeOK'
<1> SUFFICES ASSUME ConsoleInv, [AdminNext]_adminVars PROVE AdminTypeOK'
    OBVIOUS
<1>1. AdminTypeOK
    BY DEF ConsoleInv
<1>2. CASE WindowEnds
  <2>1. fails' \in Nat /\ windows' \in Nat /\ wrongs' \in Nat /\ compared' \in Nat
            /\ uncounted' \in Nat
    BY <1>1, <1>2 DEF AdminTypeOK, WindowEnds
  <2>2. tooSoon' \in BOOLEAN /\ overlap' \in BOOLEAN
    BY <1>1, <1>2, Zenon DEF AdminTypeOK, WindowEnds
  <2>3. QED
    BY <1>1, <1>2, <2>1, <2>2 DEF AdminTypeOK, WindowEnds
<1>3. CASE SessionsSettle
    BY <1>1, <1>3 DEF AdminTypeOK, SessionsSettle, counter
<1>4. CASE UNCHANGED adminVars
    BY <1>1, <1>4 DEF AdminTypeOK, adminVars
<1>5. QED
    BY <1>2, <1>3, <1>4, NextSplit, TypeStep

LEMMA CookiedNext ==
    ConsoleInv /\ [AdminNext]_adminVars => Cookied'
<1> SUFFICES ASSUME ConsoleInv, [AdminNext]_adminVars, NEW w \in Visitors,
                    visit'[w].pc \in {"validate", "csrf", "save", "sweep", "logout"}
             PROVE  visit'[w].session \in Sessions
    BY DEF Cookied
<1>1. AdminTypeOK /\ Cookied
    BY DEF ConsoleInv
<1>2. ASSUME NEW v \in Visitors, VisitorStep(v) PROVE visit'[w].session \in Sessions
  <2> USE DEF AdminTypeOK, Cookied, Move, Answer, NoVisit
  <2>1. CASE w # v
    BY <1>1, <1>2, <2>1 DEF VisitorStep, Login, Gate, CountFailure, PutFailure,
       ClearFailures, CreateSession, Arrive, Validate, RequireCsrf, Save, Logout,
       SweepPage, SweepDone, SweepFails, AccessThrows
  <2>2. ASSUME w = v, NEW s \in Sessions, NEW p \in {"save", "sweep", "logout"},
               Arrive(v, s, p)
        PROVE  visit'[w].session \in Sessions
    BY <1>1, <2>2 DEF Arrive
  <2>3. CASE w = v /\ (RequireCsrf(v) \/ SweepPage(v) \/ Validate(v))
    BY <1>1, <2>3 DEF RequireCsrf, SweepPage, Validate
  <2>4. CASE w = v /\ (Login(v) \/ Gate(v) \/ CountFailure(v) \/ PutFailure(v)
                       \/ ClearFailures(v) \/ CreateSession(v) \/ Save(v)
                       \/ Logout(v) \/ SweepDone(v) \/ SweepFails(v) \/ AccessThrows(v))
    <3>1. visit'[w].pc \in {"idle", "gate", "count", "put", "clear", "create"}
      BY <1>1, <2>4 DEF Login, Gate, CountFailure, PutFailure, ClearFailures,
         CreateSession, Save, Logout, SweepDone, SweepFails, AccessThrows
    <3>2. QED
      BY <3>1
  <2>5. QED
    BY <1>2, <2>1, <2>2, <2>3, <2>4 DEF VisitorStep
<1>3. CASE WindowEnds \/ SessionsSettle \/ UNCHANGED adminVars
    BY <1>1, <1>3 DEF Cookied, WindowEnds, SessionsSettle, adminVars
<1>4. QED
    BY <1>2, <1>3, NextSplit

-----------------------------------------------------------------------------
(* Sessions that are to end.                                               *)

(* A put or a delete never revives a session: only an unused UUID becomes  *)
(* live, and what is deleted for every reader stays so.                    *)
LEMMA StoreStep ==
    ASSUME ConsoleInv, NEW v \in Visitors, VisitorStep(v), NEW s \in Sessions,
           record[s] # "none"
    PROVE  /\ record[s] = "deleted" => record'[s] = "deleted"
           /\ record[s] = "deleted" /\ s \notin hidden => s \notin hidden'
           /\ record[s] = "live" /\ s \notin hidden =>
                 record'[s] = "deleted" \/ (record'[s] = "live" /\ s \notin hidden')
<1>1. AdminTypeOK /\ Cookied
    BY DEF ConsoleInv
<1>2. CASE CreateSession(v)
  <2>1. PICK t \in Unused : Write(t, "live")
    BY <1>2, UnusedChosen DEF CreateSession
  <2>2. t # s /\ t \in Sessions
    BY DEF Unused
  <2>3. QED
    BY <1>1, <2>1, <2>2 DEF Write, AdminTypeOK
<1>3. CASE Logout(v) \/ SweepPage(v)
  <2>1. PICK t \in Sessions : Write(t, "deleted") \/ UNCHANGED <<record, hidden>>
    BY <1>1, <1>3 DEF Logout, SweepPage, Cookied, AdminTypeOK
  <2>2. QED
    BY <1>1, <2>1 DEF Write, AdminTypeOK
<1>4. CASE UNCHANGED <<record, hidden>>
    BY <1>4
<1>5. QED
    BY <1>2, <1>3, <1>4 DEF VisitorStep, Login, Gate, CountFailure, PutFailure,
       ClearFailures, Arrive, Validate, RequireCsrf, Save, SweepDone, SweepFails, AccessThrows

LEMMA DoomedNext ==
    ConsoleInv /\ [AdminNext]_adminVars => Doomed'
<1> SUFFICES ASSUME ConsoleInv, [AdminNext]_adminVars PROVE Doomed'
    OBVIOUS
<1>1. AdminTypeOK /\ Cookied /\ Doomed
    BY DEF ConsoleInv
<1>2. ASSUME NEW v \in Visitors, VisitorStep(v) PROVE Doomed'
  <2>1. ASSUME NEW w \in Visitors, visit'[w].pc = "sweep", NEW s \in visit'[w].due
        PROVE  \/ record'[s] = "deleted"
               \/ record'[s] = "live" /\ s \notin hidden' /\ s \in visit'[w].left
    <3> USE <1>1, <2>1 DEF AdminTypeOK, Move, Answer, NoVisit
    <3>1. CASE visit'[w] = visit[w]
      <4>1. s \in Sessions /\ record[s] # "none"
        BY <3>1 DEF Doomed
      <4>2. QED
        BY <3>1, <4>1, <1>2, StoreStep DEF Doomed
    <3>2. CASE w = v /\ RequireCsrf(v)
        BY <3>2 DEF RequireCsrf
    <3>3. CASE w = v /\ SweepPage(v)
      <4>1. PICK t \in visit[v].left :
               /\ visit' = [visit EXCEPT ![v].left = @ \ {t}]
               /\ \/ Found(t) /\ Write(t, "deleted")
                  \/ Missing(t) /\ UNCHANGED <<record, hidden, stale>>
        BY <3>3 DEF SweepPage
      <4>2. /\ visit[v].pc = "sweep" /\ s \in visit[v].due /\ s \in Sessions
            /\ visit'[v].left = visit[v].left \ {t}
        BY <3>3, <4>1 DEF SweepPage
      <4>3. record[s] # "none"
        BY <4>2 DEF Doomed
      <4>4. CASE s = t
        BY <4>1, <4>2, <4>4 DEF Doomed, Missing, Write
      <4>5. CASE s # t
        BY <3>3, <4>2, <4>3, <4>5, <1>2, StoreStep DEF Doomed
      <4>6. QED
        BY <4>4, <4>5
    <3>4. QED
      <4>1. CASE w # v
        BY <1>2, <3>1, <4>1 DEF VisitorStep, Login, Gate, CountFailure, PutFailure,
           ClearFailures, CreateSession, Arrive, Validate, RequireCsrf, Save, Logout,
           SweepPage, SweepDone, SweepFails, AccessThrows
      <4>2. CASE w = v /\ ~RequireCsrf(v) /\ ~SweepPage(v)
        <5>1. visit'[v].pc # "sweep"
          <6>1. ASSUME NEW t \in Sessions, NEW p \in {"save", "sweep", "logout"},
                       Arrive(v, t, p)
                PROVE  visit'[v].pc # "sweep"
            BY <6>1 DEF Arrive
          <6>2. CASE Login(v) \/ Gate(v) \/ CountFailure(v) \/ PutFailure(v)
                     \/ ClearFailures(v)
            BY <6>2 DEF Login, Gate, CountFailure, PutFailure, ClearFailures
          <6>3. CASE CreateSession(v) \/ Validate(v) \/ Save(v) \/ Logout(v)
                     \/ SweepDone(v) \/ SweepFails(v) \/ AccessThrows(v)
            BY <6>3 DEF CreateSession, Validate, Save, Logout, SweepDone, SweepFails,
               AccessThrows
          <6>4. QED
            BY <1>2, <4>2, <6>1, <6>2, <6>3 DEF VisitorStep
        <5>2. QED
          BY <4>2, <5>1
      <4>3. QED
        BY <3>2, <3>3, <4>1, <4>2
  <2>2. ASSUME NEW w \in Visitors, visit'[w].ended
        PROVE  /\ visit'[w].pc = "validate"
               /\ record'[visit'[w].session] = "deleted"
               /\ visit'[w].session \notin hidden'
    <3> USE <1>1, <2>2 DEF AdminTypeOK, Move, Answer, NoVisit
    <3>1. CASE visit'[w] = visit[w]
      <4>1. visit[w].session \in Sessions
        BY <3>1 DEF Doomed, Cookied
      <4>2. QED
        BY <3>1, <4>1, <1>2, StoreStep DEF Doomed
    <3>2. ASSUME w = v, NEW s \in Sessions, NEW p \in {"save", "sweep", "logout"},
                 Arrive(v, s, p)
          PROVE  /\ visit'[w].pc = "validate"
                 /\ record'[visit'[w].session] = "deleted"
                 /\ visit'[w].session \notin hidden'
      <4>1. visit'[v] = [NoVisit EXCEPT !.pc = "validate", !.session = s, !.purpose = p,
                           !.ended = record[s] = "deleted" /\ s \notin hidden]
        BY <3>2 DEF Arrive
      <4>2. visit'[v].ended <=> record[s] = "deleted" /\ s \notin hidden
        BY <4>1
      <4>3. visit'[v].pc = "validate" /\ visit'[v].session = s
        BY <4>1
      <4>4. UNCHANGED <<record, hidden>>
        BY <3>2 DEF Arrive
      <4>5. QED
        BY <3>2, <4>2, <4>3, <4>4
    <3>3. CASE w = v /\ Validate(v)
        BY <3>3 DEF Validate, Doomed, Found
    <3>4. QED
      <4>1. CASE w # v
        BY <1>2, <3>1, <4>1 DEF VisitorStep, Login, Gate, CountFailure, PutFailure,
           ClearFailures, CreateSession, Arrive, Validate, RequireCsrf, Save, Logout,
           SweepPage, SweepDone, SweepFails, AccessThrows
      <4>2. CASE w = v
        BY <1>2, <3>2, <3>3, <4>2 DEF VisitorStep, Login, Gate, CountFailure, PutFailure,
           ClearFailures, CreateSession, RequireCsrf, Save, Logout,
           SweepPage, SweepDone, SweepFails, AccessThrows, Doomed
      <4>3. QED
        BY <4>1, <4>2
  <2>3. QED
    BY <2>1, <2>2 DEF Doomed
<1>3. CASE WindowEnds \/ SessionsSettle \/ UNCHANGED adminVars
    BY <1>1, <1>3 DEF Doomed, WindowEnds, SessionsSettle, adminVars
<1>4. QED
    BY <1>2, <1>3, NextSplit

LEMMA RevokedNext ==
    ConsoleInv /\ [AdminNext]_adminVars => RevokedStayDead'
<1> SUFFICES ASSUME ConsoleInv, [AdminNext]_adminVars PROVE RevokedStayDead'
    OBVIOUS
<1>1. AdminTypeOK /\ Doomed /\ RevokedStayDead
    BY DEF ConsoleInv
<1>2. ASSUME NEW v \in Visitors, VisitorStep(v) PROVE RevokedStayDead'
  <2>1. \A s \in swept : s \in Sessions /\ record'[s] = "deleted"
    BY <1>1, <1>2, StoreStep DEF RevokedStayDead, AdminTypeOK
  <2>2. CASE Save(v)
    BY <1>1, <2>1, <2>2 DEF Save, Doomed, RevokedStayDead
  <2>3. CASE SweepDone(v)
    BY <1>1, <2>1, <2>3 DEF SweepDone, AllPagesRead, Doomed, RevokedStayDead
  <2>4. CASE UNCHANGED <<swept, zombies>>
    BY <1>1, <2>1, <2>4 DEF RevokedStayDead
  <2>5. QED
    BY <1>2, <2>2, <2>3, <2>4 DEF VisitorStep, Login, Gate, CountFailure, PutFailure,
       ClearFailures, CreateSession, Arrive, Validate, RequireCsrf, Logout, SweepPage,
       SweepFails, AccessThrows
<1>3. CASE WindowEnds \/ SessionsSettle \/ UNCHANGED adminVars
    BY <1>1, <1>3 DEF RevokedStayDead, WindowEnds, SessionsSettle, adminVars
<1>4. QED
    BY <1>2, <1>3, NextSplit

-----------------------------------------------------------------------------
(* The invariant is inductive: no step of the console's handlers breaks it. *)
LEMMA ConsoleInvAlways == AdminSpec => []ConsoleInv
<1>1. ConsoleInv /\ [AdminNext]_adminVars => ConsoleInv'
    BY TypeNext, CookiedNext, DoomedNext, RevokedNext DEF ConsoleInv
<1>2. QED
    BY InitHolds, <1>1, PTL DEF AdminSpec

(* Every counter, request and session record of the console keeps its type *)
(* (admin-handler.ts: the handlers of /login, settings, logout and         *)
(* revoke-all), whatever the number of visitors and sessions.              *)
THEOREM ConsoleTypeCorrect == AdminSpec => []AdminTypeOK
<1>1. ConsoleInv => AdminTypeOK
    BY DEF ConsoleInv
<1>2. QED
    BY ConsoleInvAlways, <1>1, PTL

(* admin-handler.ts:134 and 715-718: what a finished revoke-all was due to *)
(* end is deleted for good, and a session whose deletion has reached all   *)
(* of the store admits no request, for any number of sessions and pages.   *)
THEOREM RevokedStayDeadAlways == AdminSpec => []RevokedStayDead
<1>1. ConsoleInv => RevokedStayDead
    BY DEF ConsoleInv
<1>2. QED
    BY ConsoleInvAlways, <1>1, PTL

-----------------------------------------------------------------------------
(* Counting failures.                                                      *)

(* While logins follow one another, one of them at a time knows the        *)
(* counter, and the secrets compared are the failures counted, the one that*)
(* is being counted, and those whose count threw.                          *)
Alone ==
    \A v, w \in Visitors :
        visit[v].pc \in LoggingIn /\ visit[w].pc \in LoggingIn => v = w
Tallied ==
    /\ \A v \in Visitors : visit[v].pc \in Counting =>
          fails < Threshold /\ compared = fails + 1 + uncounted
    /\ \A v \in Visitors : visit[v].pc = "put" => visit[v].count = fails + 1
    /\ (\A v \in Visitors : visit[v].pc \notin Counting) =>
          fails <= Threshold /\ compared = fails + uncounted
Orderly == ~overlap => Alone /\ Tallied /\ ~tooSoon

LEMMA OrderlyInit == AdminInit => Orderly
    BY ConsoleConstants DEF AdminInit, Orderly, Alone, Tallied, NoVisit, LoggingIn, Counting

(* A step that moves no login and leaves the counter alone.                *)
LEMMA OrderlyUnmoved ==
    ASSUME Orderly, UNCHANGED counter,
           \A w \in Visitors :
              visit[w].pc \in LoggingIn \/ visit'[w].pc \in LoggingIn => visit'[w] = visit[w]
    PROVE  Orderly'
<1> USE DEF counter
<1>1. \A w \in Visitors :
         /\ visit'[w].pc \in LoggingIn <=> visit[w].pc \in LoggingIn
         /\ visit'[w].pc \in Counting <=> visit[w].pc \in Counting
         /\ visit[w].pc \in LoggingIn => visit'[w] = visit[w]
    BY DEF Counting, LoggingIn
<1>2. Alone => Alone'
    BY <1>1 DEF Alone
<1>3. Tallied => Tallied'
    BY <1>1 DEF Tallied, Counting, LoggingIn
<1>4. QED
    BY <1>2, <1>3 DEF Orderly

(* What is no login's step leaves the logins alone.                        *)
ElsewhereStep(v) ==
    \/ CreateSession(v) \/ Validate(v) \/ RequireCsrf(v) \/ Save(v) \/ Logout(v)
    \/ SweepPage(v) \/ SweepDone(v) \/ SweepFails(v)
    \/ AccessThrows(v) /\ visit[v].pc \notin LoggingIn
    \/ \E s \in Sessions, p \in {"save", "sweep", "logout"} : Arrive(v, s, p)

LEMMA Elsewhere ==
    ASSUME AdminTypeOK, NEW v \in Visitors, ElsewhereStep(v)
    PROVE  /\ UNCHANGED counter
           /\ \A w \in Visitors :
                 visit[w].pc \in LoggingIn \/ visit'[w].pc \in LoggingIn
                   => visit'[w] = visit[w]
<1> USE DEF ElsewhereStep
<1>0. /\ visit \in [Visitors -> VisitType] /\ visit[v] \in VisitType
    BY DEF AdminTypeOK, VisitType
<1>1. UNCHANGED counter
  <2>1. CASE AccessThrows(v) /\ visit[v].pc \notin LoggingIn
    BY <2>1 DEF AccessThrows, AdminTypeOK, LoggingIn, Counting, counter
  <2>2. CASE ~(AccessThrows(v) /\ visit[v].pc \notin LoggingIn)
    BY <2>2 DEF CreateSession, Validate, RequireCsrf, Save, Logout, SweepPage, SweepDone,
       SweepFails, Arrive
  <2>3. QED
    BY <2>1, <2>2
<1>2. \A w \in Visitors : w # v => visit'[w] = visit[w]
  BY <1>0 DEF CreateSession, Validate, RequireCsrf, Save, Logout, SweepPage,
     SweepDone, SweepFails, AccessThrows, Arrive, Move, Answer
<1>3. visit[v].pc \notin LoggingIn
  BY DEF CreateSession, Validate, RequireCsrf, Save, Logout, SweepPage, SweepDone,
     SweepFails, AccessThrows, Arrive, LoggingIn
<1>4. visit'[v].pc \notin LoggingIn
  <2>1. ASSUME NEW s \in Sessions, NEW p \in {"save", "sweep", "logout"}, Arrive(v, s, p)
        PROVE  visit'[v].pc \notin LoggingIn
    <3>1. PICK r \in BOOLEAN :
             visit' = [visit EXCEPT ![v] = [NoVisit EXCEPT !.pc = "validate", !.session = s,
                                                           !.purpose = p, !.ended = r]]
      BY <2>1 DEF Arrive
    <3>2. visit'[v] = [NoVisit EXCEPT !.pc = "validate", !.session = s,
                                      !.purpose = p, !.ended = r]
      BY <1>0, <3>1
    <3>3. visit'[v].pc = "validate"
      BY <3>2 DEF NoVisit
    <3>4. QED
      BY <3>3 DEF LoggingIn
  <2>2. CASE SweepPage(v)
    <3>1. PICK s \in visit[v].left : visit' = [visit EXCEPT ![v].left = @ \ {s}]
      BY <2>2 DEF SweepPage
    <3>2. visit'[v].pc = visit[v].pc
      BY <1>0, <3>1 DEF VisitType
    <3>3. QED
      BY <1>3, <3>2
  <2>3. CASE RequireCsrf(v)
    <3>1. visit'[v].pc \in {"idle", "save", "sweep"}
      BY <1>0, <2>3 DEF RequireCsrf, Move, Answer, NoVisit, VisitType
    <3>2. QED
      BY <3>1 DEF LoggingIn
  <2>4. CASE CreateSession(v) \/ Validate(v) \/ Save(v) \/ Logout(v) \/ SweepDone(v)
             \/ SweepFails(v) \/ AccessThrows(v)
    <3>1. Answer(v) \/ \E pc \in {"logout", "csrf", "create"} : Move(v, pc)
      BY <2>4 DEF CreateSession, Validate, Save, Logout, SweepDone, SweepFails, AccessThrows
    <3>2. visit'[v].pc \in {"idle", "logout", "csrf", "create"}
      BY <1>0, <3>1 DEF Move, Answer, NoVisit, VisitType
    <3>3. QED
      BY <3>2 DEF LoggingIn
  <2>5. QED
      BY <2>1, <2>2, <2>3, <2>4
<1>5. QED
    BY <1>1, <1>2, <1>3, <1>4

LEMMA OrderlyStep ==
    ASSUME AdminTypeOK, Orderly, NEW v \in Visitors, VisitorStep(v)
    PROVE  Orderly'
<1>0. /\ fails \in Nat /\ compared \in Nat /\ uncounted \in Nat
      /\ visit \in [Visitors -> VisitType] /\ visit[v] \in VisitType
    BY DEF AdminTypeOK, VisitType
<1>1. CASE ElsewhereStep(v)
    BY <1>1, Elsewhere, OrderlyUnmoved
<1>2. SUFFICES ASSUME ~overlap',
                      Login(v) \/ Gate(v) \/ CountFailure(v) \/ PutFailure(v)
                        \/ ClearFailures(v) \/ (AccessThrows(v) /\ visit[v].pc \in LoggingIn)
               PROVE  Alone' /\ Tallied' /\ ~tooSoon'
    BY <1>1 DEF VisitorStep, ElsewhereStep, Orderly
<1>3. /\ ~overlap /\ Alone /\ Tallied /\ ~tooSoon
      /\ \A w \in Visitors : w # v => visit'[w] = visit[w]
      /\ \A w \in Visitors : w # v => visit[w].pc \notin LoggingIn
  <2>1. ~overlap
    BY <1>2 DEF Login, Gate, CountFailure, PutFailure, ClearFailures, AccessThrows, Reads
  <2>2. \A w \in Visitors : w # v => visit'[w] = visit[w]
    BY <1>0, <1>2 DEF Login, Gate, CountFailure, PutFailure, ClearFailures,
       AccessThrows, Move, Answer
  <2>3. visit[v].pc \in LoggingIn \/ (Login(v) /\ ~OtherLogin(v))
    BY <1>2 DEF Login, Gate, CountFailure, PutFailure, ClearFailures, LoggingIn
  <2>4. QED
    BY <2>1, <2>2, <2>3 DEF Orderly, Alone, OtherLogin
<1>4. Alone'
    BY <1>3 DEF Alone
<1>5. /\ visit[v].pc \in Counting => fails < Threshold /\ compared = fails + 1 + uncounted
      /\ visit[v].pc = "put" => visit[v].count = fails + 1
      /\ visit[v].pc \notin Counting => fails <= Threshold /\ compared = fails + uncounted
    BY <1>3 DEF Tallied, Counting, LoggingIn
<1>6. ASSUME visit'[v].pc \in Counting =>
                fails' < Threshold /\ compared' = fails' + 1 + uncounted',
             visit'[v].pc = "put" => visit'[v].count = fails' + 1,
             visit'[v].pc \notin Counting =>
                fails' <= Threshold /\ compared' = fails' + uncounted'
      PROVE  Tallied'
    BY <1>3, <1>6 DEF Tallied, Counting, LoggingIn
<1>7. CASE Login(v)
  <2>1. /\ visit'[v].pc = "gate" /\ visit[v].pc = "idle"
        /\ UNCHANGED <<fails, compared, uncounted, tooSoon>>
    BY <1>0, <1>7 DEF Login, Move
  <2>2. QED
    BY <1>3, <1>4, <1>5, <1>6, <2>1 DEF Counting
<1>8. CASE Gate(v)
  <2>1. visit[v].pc = "gate" /\ UNCHANGED <<fails, uncounted>>
        /\ compared = fails + uncounted /\ fails <= Threshold
    BY <1>5, <1>8 DEF Gate, Counting
  <2>2. \/ Locked(fails) /\ Answer(v) /\ UNCHANGED compared
           /\ tooSoon' = (tooSoon \/ compared < Threshold)
        \/ ~Locked(fails) /\ Move(v, "count") /\ compared' = compared + 1 /\ UNCHANGED tooSoon
        \/ Move(v, "clear") /\ UNCHANGED <<compared, tooSoon>>
    BY <1>2, <1>8 DEF Gate, Reads
  <2>3. CASE Locked(fails) /\ Answer(v) /\ UNCHANGED compared
             /\ tooSoon' = (tooSoon \/ compared < Threshold)
    <3>0. ~(compared < Threshold)
      BY <1>0, <2>1, <2>3, ConsoleConstants DEF Locked
    <3>1. ~tooSoon'
      BY <1>3, <2>3, <3>0, Zenon
    <3>2. visit'[v].pc = "idle"
      BY <1>0, <2>3 DEF Answer, NoVisit
    <3>3. QED
      BY <1>4, <1>6, <2>1, <2>3, <3>1, <3>2 DEF Counting
  <2>4. CASE ~Locked(fails) /\ Move(v, "count") /\ compared' = compared + 1 /\ UNCHANGED tooSoon
    <3>1. visit'[v].pc = "count"
      BY <1>0, <2>4 DEF Move
    <3>2. fails < Threshold
      BY <1>0, <2>4, ConsoleConstants DEF Locked
    <3>3. QED
      BY <1>0, <1>3, <1>4, <1>6, <2>1, <2>4, <3>1, <3>2 DEF Counting
  <2>5. CASE Move(v, "clear") /\ UNCHANGED <<compared, tooSoon>>
    <3>1. visit'[v].pc = "clear"
      BY <1>0, <2>5 DEF Move
    <3>2. QED
      BY <1>3, <1>4, <1>6, <2>1, <2>5, <3>1 DEF Counting
  <2>6. QED
    BY <2>2, <2>3, <2>4, <2>5
<1>9. CASE CountFailure(v)
  <2>1. visit' = [visit EXCEPT ![v].pc = "put", ![v].count = fails + 1]
    BY <1>2, <1>9 DEF CountFailure, Reads
  <2>2. visit'[v].pc = "put" /\ visit'[v].count = fails + 1
    BY <1>0, <2>1 DEF VisitType
  <2>3. visit[v].pc = "count" /\ UNCHANGED <<fails, compared, uncounted, tooSoon>>
    BY <1>9 DEF CountFailure
  <2>4. QED
    BY <1>3, <1>4, <1>5, <1>6, <2>2, <2>3 DEF Counting
<1>10. CASE PutFailure(v)
  <2>1. /\ visit[v].pc = "put" /\ fails' = visit[v].count
        /\ UNCHANGED <<compared, uncounted, tooSoon>>
    BY <1>10 DEF PutFailure
  <2>2. visit'[v].pc = "idle"
    BY <1>0, <1>10 DEF PutFailure, Answer, NoVisit
  <2>3. QED
    BY <1>0, <1>3, <1>4, <1>5, <1>6, <2>1, <2>2, ConsoleConstants DEF Counting
<1>11. CASE ClearFailures(v)
  <2>1. fails' = 0 /\ compared' = 0 /\ uncounted' = 0 /\ UNCHANGED tooSoon
    BY <1>11 DEF ClearFailures
  <2>2. visit'[v].pc = "create"
    BY <1>0, <1>11 DEF ClearFailures, Move
  <2>3. QED
    BY <1>3, <1>4, <1>6, <2>1, <2>2, ConsoleConstants DEF Counting
<1>12. CASE AccessThrows(v) /\ visit[v].pc \in LoggingIn
  <2>1. /\ uncounted' = uncounted + (IF visit[v].pc \in Counting THEN 1 ELSE 0)
        /\ UNCHANGED <<fails, compared, tooSoon>>
    BY <1>12 DEF AccessThrows
  <2>2. visit'[v].pc = "idle"
    BY <1>0, <1>12 DEF AccessThrows, Answer, NoVisit
  <2>3. fails' <= Threshold /\ compared' = fails' + uncounted'
    BY <1>0, <1>5, <2>1, ConsoleConstants
  <2>4. QED
    BY <1>3, <1>4, <1>6, <2>1, <2>2, <2>3 DEF Counting
<1>13. QED
    BY <1>2, <1>7, <1>8, <1>9, <1>10, <1>11, <1>12

LEMMA OrderlyNext ==
    AdminTypeOK /\ Orderly /\ [AdminNext]_adminVars => Orderly'
<1> SUFFICES ASSUME AdminTypeOK, Orderly, [AdminNext]_adminVars PROVE Orderly'
    OBVIOUS
<1>1. CASE WindowEnds
  <2>1. SUFFICES ASSUME ~overlap' PROVE Alone' /\ Tallied' /\ ~tooSoon'
    BY DEF Orderly
  <2>2. /\ \A v \in Visitors : visit[v].pc \notin LoggingIn
        /\ ~overlap /\ UNCHANGED <<visit, tooSoon>>
        /\ fails' = 0 /\ compared' = 0 /\ uncounted' = 0
    BY <1>1, <2>1 DEF WindowEnds
  <2>3. QED
    BY <2>2, ConsoleConstants DEF Orderly, Alone, Tallied, Counting, LoggingIn
<1>2. CASE SessionsSettle \/ UNCHANGED adminVars
    BY <1>2, OrderlyUnmoved DEF SessionsSettle, adminVars, counter
<1>3. QED
    BY <1>1, <1>2, NextSplit, OrderlyStep

(* admin-handler.ts:33-58: logins that follow one another are refused      *)
(* after exactly LOGIN_FAIL_THRESHOLD failures within the window, not      *)
(* sooner, and later only by those whose count threw, for any threshold    *)
(* and any number of visitors, sessions and windows.                       *)
THEOREM LockoutExactAlways == AdminSpec => []LockoutExact
<1>1. AdminTypeOK /\ Orderly => LockoutExact
  <2>1. ASSUME AdminTypeOK, Alone, Tallied PROVE compared <= Threshold + uncounted
    <3>1. CASE \A v \in Visitors : visit[v].pc \notin Counting
        BY <2>1, <3>1, ConsoleConstants DEF Tallied, AdminTypeOK
    <3>2. CASE \E v \in Visitors : visit[v].pc \in Counting
        BY <2>1, <3>2, ConsoleConstants DEF Tallied, AdminTypeOK
    <3>3. QED
        BY <3>1, <3>2
  <2>2. QED
    BY <2>1 DEF Orderly, LockoutExact
<1>2. QED
    BY ConsoleTypeCorrect, OrderlyInit, OrderlyNext, <1>1, PTL DEF AdminSpec

-----------------------------------------------------------------------------
(* Ways: the recursive function there is, and its values.  Induction on a  *)
(* number is a search for the first one without the property.              *)

LEMMA LeastNatural ==
    ASSUME NEW T \in SUBSET Nat, T # {}
    PROVE  \E n \in T : \A m \in T : n <= m
<1> DEFINE R == {ss \in Nat \X Nat : ss[1] < ss[2]}
<1>1. IsWellFoundedOn(R, Nat)
    BY NatLessThanWellFounded DEF OpToRel
<1>2. \E n \in T : \A m \in T : ~ (<<m, n>> \in R)
  <2> HIDE DEF R
  <2> QED
    BY <1>1, WFMin
<1>3. \A m, n \in Nat : m < n => <<m, n>> \in R
    OBVIOUS
<1>4. PICK n \in T : \A m \in T : ~ (<<m, n>> \in R)
    BY <1>2
<1>5. \A m \in T : n <= m
  <2> HIDE DEF R
  <2>1. SUFFICES ASSUME NEW m \in T, m < n PROVE FALSE
    OBVIOUS
  <2>2. <<m, n>> \in R
    BY <2>1, <1>3
  <2>3. QED
    BY <1>4, <2>2
<1>6. QED
    BY <1>5

LEMMA FirstOf ==
    ASSUME NEW T, T \in SUBSET Nat, T # {}
    PROVE  \E n \in T : n \in Nat /\ \A m \in Nat : m < n => m \notin T
<1>1. PICK n \in T : \A m \in T : n <= m
    BY LeastNatural
<1>2. QED
    BY <1>1

(* The part of Ways up to a sum.                                           *)
Rows(s) == {w \in Nat \X Nat : w[1] + w[2] <= s}
WaysAt(g, w) ==
    IF w[1] = 0 \/ w[2] = 0 THEN 1 ELSE g[<<w[1] - 1, w[2]>>] + g[<<w[1], w[2] - 1>>]
Triangle(g, s) == g \in [Rows(s) -> Nat] /\ \A w \in Rows(s) : g[w] = WaysAt(g, w)

LEMMA TriangleExists == \A s \in Nat : \E g : Triangle(g, s)
<1> DEFINE T == {s \in Nat : ~ \E g : Triangle(g, s)}
<1>1. SUFFICES ASSUME T # {} PROVE FALSE
    OBVIOUS
<1>2. PICK s \in T : s \in Nat /\ \A m \in Nat : m < s => m \notin T
    BY <1>1, FirstOf
<1>3. CASE s = 0
  <2> DEFINE g == [w \in Rows(0) |-> 1]
  <2>1. \A w \in Rows(0) : w[1] = 0 \/ w[2] = 0
    BY DEF Rows
  <2>2. Triangle(g, 0)
    BY <2>1 DEF Triangle, WaysAt
  <2>3. QED
    BY <1>3, <2>2
<1>4. CASE s # 0
  <2>1. s - 1 \in Nat /\ s - 1 \notin T
    BY <1>2, <1>4
  <2>2. PICK h : Triangle(h, s - 1)
    BY <2>1
  <2> DEFINE g == [w \in Rows(s) |-> IF w \in Rows(s - 1) THEN h[w] ELSE WaysAt(h, w)]
  <2>3. ASSUME NEW w \in Rows(s), w[1] # 0, w[2] # 0
        PROVE  /\ <<w[1] - 1, w[2]>> \in Rows(s - 1) /\ <<w[1], w[2] - 1>> \in Rows(s - 1)
    BY <2>1, <2>3 DEF Rows
  <2>4. Rows(s - 1) \subseteq Rows(s)
    BY <2>1 DEF Rows
  <2>5. ASSUME NEW w \in Rows(s) PROVE WaysAt(g, w) = WaysAt(h, w)
    BY <2>3, <2>4 DEF WaysAt
  <2>6. ASSUME NEW w \in Rows(s) PROVE g[w] \in Nat /\ g[w] = WaysAt(g, w)
    <3>1. CASE w \in Rows(s - 1)
        BY <2>2, <2>5, <3>1 DEF Triangle
    <3>2. CASE w \notin Rows(s - 1)
      <4>1. g[w] = WaysAt(h, w)
        BY <3>2
      <4>2. WaysAt(h, w) \in Nat
        BY <2>2, <2>3 DEF WaysAt, Triangle
      <4>3. QED
        BY <2>5, <4>1, <4>2
    <3>3. QED
        BY <3>1, <3>2
  <2>7. Triangle(g, s)
    BY <2>6 DEF Triangle
  <2>8. QED
    BY <2>7, <1>2
<1>5. QED
    BY <1>3, <1>4

LEMMA TriangleUnique ==
    ASSUME NEW s \in Nat, NEW t \in Nat, NEW g, NEW h, Triangle(g, s), Triangle(h, t),
           NEW w \in Nat \X Nat, w \in Rows(s), w \in Rows(t)
    PROVE  g[w] = h[w]
<1> DEFINE Differ == {n \in Nat : \E v \in Rows(s) \cap Rows(t) : v[1] + v[2] = n /\ g[v] # h[v]}
<1>1. SUFFICES ASSUME Differ # {} PROVE FALSE
    BY DEF Rows
<1>2. PICK n \in Differ : n \in Nat /\ \A m \in Nat : m < n => m \notin Differ
    BY <1>1, FirstOf
<1>3. PICK v \in Rows(s) \cap Rows(t) : v[1] + v[2] = n /\ g[v] # h[v]
    BY <1>2
<1>4. g[v] = WaysAt(g, v) /\ h[v] = WaysAt(h, v)
    BY DEF Triangle
<1>5. ASSUME v[1] # 0, v[2] # 0
      PROVE  /\ g[<<v[1] - 1, v[2]>>] = h[<<v[1] - 1, v[2]>>]
             /\ g[<<v[1], v[2] - 1>>] = h[<<v[1], v[2] - 1>>]
  <2>1. /\ <<v[1] - 1, v[2]>> \in Rows(s) \cap Rows(t)
        /\ <<v[1], v[2] - 1>> \in Rows(s) \cap Rows(t)
        /\ v[1] + v[2] - 1 \in Nat
    BY <1>5 DEF Rows
  <2>2. n - 1 \in Nat /\ n - 1 \notin Differ /\ n = v[1] + v[2]
    <3> HIDE DEF Differ
    <3>1. n = v[1] + v[2] /\ n - 1 \in Nat /\ n - 1 < n
      <4>1. v[1] \in Nat /\ v[2] \in Nat
        BY DEF Rows
      <4>2. QED
        BY <1>2, <1>3, <2>1, <4>1
    <3>2. n - 1 \notin Differ
        BY <1>2, <3>1
    <3>3. QED
        BY <3>1, <3>2
  <2>3. v[1] \in Nat /\ v[2] \in Nat
    BY DEF Rows
  <2>4. v[1] - 1 + v[2] = n - 1 /\ v[1] + (v[2] - 1) = n - 1
    BY <2>2, <2>3
  <2>5. QED
    BY <2>1, <2>2, <2>4
<1>6. QED
    BY <1>3, <1>4, <1>5 DEF WaysAt

LEMMA WaysRecursion == Ways = [w \in Nat \X Nat |-> WaysAt(Ways, w)]
<1> DEFINE G == [w \in Nat \X Nat |-> (CHOOSE g : Triangle(g, w[1] + w[2]))[w]]
           tri(w) == CHOOSE g : Triangle(g, w[1] + w[2])
<1>1. ASSUME NEW w \in Nat \X Nat
      PROVE  /\ w[1] + w[2] \in Nat /\ w \in Rows(w[1] + w[2]) /\ Triangle(tri(w), w[1] + w[2])
  <2>1. w[1] + w[2] \in Nat
    OBVIOUS
  <2>2. QED
    BY <2>1, TriangleExists DEF Rows
<1>2. ASSUME NEW w \in Nat \X Nat, NEW s \in Nat, NEW g, Triangle(g, s), w \in Rows(s)
      PROVE  G[w] = g[w]
  <2>1. G[w] = tri(w)[w]
    OBVIOUS
  <2>2. QED
    BY <1>1, <1>2, <2>1, TriangleUnique
<1>3. ASSUME NEW w \in Nat \X Nat PROVE G[w] = WaysAt(G, w)
  <2> DEFINE g == tri(w)
             s == w[1] + w[2]
  <2>1. s \in Nat /\ w \in Rows(s) /\ Triangle(g, s)
    BY <1>1
  <2>2. G[w] = g[w]
    BY <1>2, <2>1
  <2>3. g[w] = WaysAt(g, w)
    BY <2>1 DEF Triangle
  <2>4. ASSUME w[1] # 0, w[2] # 0
        PROVE  /\ G[<<w[1] - 1, w[2]>>] = g[<<w[1] - 1, w[2]>>]
               /\ G[<<w[1], w[2] - 1>>] = g[<<w[1], w[2] - 1>>]
    <3> HIDE DEF g, G
    <3>1. /\ <<w[1] - 1, w[2]>> \in Nat \X Nat /\ <<w[1] - 1, w[2]>> \in Rows(s)
          /\ <<w[1], w[2] - 1>> \in Nat \X Nat /\ <<w[1], w[2] - 1>> \in Rows(s)
        BY <2>4 DEF Rows
    <3>2. QED
        BY <1>2, <2>1, <3>1
  <2>5. QED
    <3> HIDE DEF g, G
    <3> QED
        BY <2>2, <2>3, <2>4 DEF WaysAt
<1>4. \E f : f = [w \in Nat \X Nat |->
                    IF w[1] = 0 \/ w[2] = 0 THEN 1
                    ELSE f[<<w[1] - 1, w[2]>>] + f[<<w[1], w[2] - 1>>]]
  <2>1. G = [w \in Nat \X Nat |-> G[w]]
    OBVIOUS
  <2>2. G = [w \in Nat \X Nat |-> WaysAt(G, w)]
    <3> HIDE DEF G
    <3> QED
        BY <1>3, <2>1
  <2>3. QED
    <3> HIDE DEF G
    <3> QED
        BY <2>2 DEF WaysAt
<1>5. QED
    BY <1>4 DEF Ways, WaysAt

LEMMA WaysTyped ==
    /\ \A w \in Nat \X Nat : Ways[w] \in Nat /\ Ways[w] >= 1 /\ Ways[w] = WaysAt(Ways, w)
<1> DEFINE T == {s \in Nat : \E w \in Nat \X Nat :
                   w[1] + w[2] = s /\ ~(Ways[w] \in Nat /\ Ways[w] >= 1)}
<1>1. \A w \in Nat \X Nat : Ways[w] = WaysAt(Ways, w)
    BY WaysRecursion
<1>2. ASSUME T # {} PROVE FALSE
  <2>1. PICK s \in T : s \in Nat /\ \A m \in Nat : m < s => m \notin T
    <3>1. T \in SUBSET Nat
        OBVIOUS
    <3> HIDE DEF T
    <3>2. QED
        BY <1>2, <3>1, FirstOf
  <2>2. PICK w \in Nat \X Nat : w[1] + w[2] = s /\ ~(Ways[w] \in Nat /\ Ways[w] >= 1)
    BY <2>1
  <2>3. w[1] # 0 /\ w[2] # 0
    <3>1. SUFFICES ASSUME w[1] = 0 \/ w[2] = 0 PROVE FALSE
        OBVIOUS
    <3>2. WaysAt(Ways, w) = 1
        BY <3>1 DEF WaysAt
    <3>3. Ways[w] = 1
        BY <1>1, <3>2
    <3>4. QED
        BY <2>2, <3>3
  <2> DEFINE left == <<w[1] - 1, w[2]>>
             right == <<w[1], w[2] - 1>>
  <2>4. /\ left \in Nat \X Nat /\ right \in Nat \X Nat
        /\ left[1] + left[2] = s - 1 /\ right[1] + right[2] = s - 1
        /\ s - 1 \in Nat /\ s - 1 < s
    BY <2>2, <2>3
  <2>5. s - 1 \notin T
    <3> HIDE DEF T
    <3> QED
        BY <2>1, <2>4
  <2>6. /\ Ways[left] \in Nat /\ Ways[left] >= 1 /\ Ways[right] \in Nat /\ Ways[right] >= 1
    <3> HIDE DEF left, right
    <3> QED
        BY <2>4, <2>5
  <2>7. Ways[w] = Ways[left] + Ways[right]
    BY <1>1, <2>3 DEF WaysAt
  <2>8. QED
    <3> HIDE DEF left, right
    <3> QED
        BY <2>2, <2>6, <2>7
<1>3. QED
    BY <1>1, <1>2

(* What i visitors can have compared before each of them has counted, from *)
(* the count c on; and what the i-th of them adds to it.                   *)
More(c, i) == IF c < Threshold THEN Ways[<<Threshold - c, i>>] - 1 ELSE 0
Each(c, i) == IF c < Threshold THEN Ways[<<Threshold - c - 1, i>>] ELSE 0

LEMMA MoreFacts ==
    ASSUME NEW c \in Nat, NEW i \in Nat
    PROVE  /\ More(c, i) \in Nat /\ Each(c, i) \in Nat
           /\ c < Threshold => Each(c, i) >= 1
           /\ More(c, 0) = 0
           /\ More(c + 1, i) = IF c < Threshold THEN Each(c, i) - 1 ELSE 0
           /\ i >= 1 => More(c, i) = More(c, i - 1) + Each(c, i)
<1>1. Threshold \in Nat
    BY ConsoleConstants
<1>2. ASSUME NEW n \in Nat, NEW k \in Nat
      PROVE  /\ Ways[<<n, k>>] \in Nat /\ Ways[<<n, k>>] >= 1
             /\ n = 0 \/ k = 0 => Ways[<<n, k>>] = 1
             /\ n # 0 /\ k # 0 => Ways[<<n, k>>] = Ways[<<n - 1, k>>] + Ways[<<n, k - 1>>]
  <2>1. <<n, k>> \in Nat \X Nat /\ <<n, k>>[1] = n /\ <<n, k>>[2] = k
    OBVIOUS
  <2>2. QED
    BY <2>1, WaysTyped DEF WaysAt
<1>3. CASE c < Threshold
  <2> DEFINE n == Threshold - c
  <2>1. n \in Nat /\ n # 0 /\ n - 1 \in Nat /\ Threshold - c - 1 = n - 1
        /\ Threshold - (c + 1) = n - 1 /\ (c + 1 < Threshold <=> n - 1 # 0)
    BY <1>1, <1>3
  <2>2. /\ More(c, i) = Ways[<<n, i>>] - 1 /\ Each(c, i) = Ways[<<n - 1, i>>]
        /\ More(c, 0) = Ways[<<n, 0>>] - 1 /\ More(c, i - 1) = Ways[<<n, i - 1>>] - 1
        /\ More(c + 1, i) = IF n - 1 # 0 THEN Ways[<<n - 1, i>>] - 1 ELSE 0
    BY <1>3, <2>1 DEF More, Each
  <2> HIDE DEF n
  <2>3. /\ Ways[<<n, i>>] \in Nat /\ Ways[<<n, i>>] >= 1 /\ Ways[<<n, 0>>] = 1
        /\ Ways[<<n - 1, i>>] \in Nat /\ Ways[<<n - 1, i>>] >= 1
        /\ n - 1 = 0 => Ways[<<n - 1, i>>] = 1
    BY <1>2, <2>1
  <2>4. ASSUME i >= 1
        PROVE  /\ Ways[<<n, i>>] = Ways[<<n - 1, i>>] + Ways[<<n, i - 1>>]
               /\ Ways[<<n, i - 1>>] \in Nat
    <3>1. i - 1 \in Nat /\ i # 0
        BY <2>4
    <3>2. QED
        BY <1>2, <2>1, <3>1
  <2>5. More(c, i) \in Nat /\ Each(c, i) \in Nat /\ Each(c, i) >= 1 /\ More(c, 0) = 0
    BY <2>2, <2>3
  <2>6. More(c + 1, i) = Each(c, i) - 1
    BY <2>2, <2>3
  <2>7. i >= 1 => More(c, i) = More(c, i - 1) + Each(c, i)
    BY <2>2, <2>3, <2>4
  <2>8. QED
    BY <1>3, <2>5, <2>6, <2>7
<1>4. CASE ~(c < Threshold)
  <2>1. ~(c + 1 < Threshold)
    BY <1>1, <1>4
  <2>2. QED
    BY <1>4, <2>1 DEF More, Each
<1>5. QED
    BY <1>3, <1>4

LEMMA FewerLater ==
    ASSUME NEW c \in Nat, c >= 1, NEW i \in Nat, i >= 1
    PROVE  More(c, i) <= More(1, i)
<1> DEFINE T == {d \in Nat : d >= 1 /\ ~(More(d, i) <= More(1, i))}
<1>1. SUFFICES ASSUME T # {} PROVE FALSE
    OBVIOUS
<1>2. PICK d \in T : d \in Nat /\ \A m \in Nat : m < d => m \notin T
  <2>1. T \in SUBSET Nat
    OBVIOUS
  <2> HIDE DEF T
  <2>2. QED
    BY <1>1, <2>1, FirstOf
<1>3. d \in Nat /\ d >= 1 /\ ~(More(d, i) <= More(1, i)) /\ More(1, i) \in Nat
    BY <1>2, MoreFacts
<1>4. d - 1 \in Nat /\ d - 1 >= 1 /\ d - 1 < d
    BY <1>3
<1>5. More(d - 1, i) <= More(1, i)
  <2>1. d - 1 \notin T
    <3> HIDE DEF T
    <3> QED
        BY <1>2, <1>4
  <2>2. QED
    BY <1>4, <2>1
<1>6. More(d, i) <= More(d - 1, i)
  <2> DEFINE b == d - 1
  <2>1. b \in Nat /\ b + 1 = d
    BY <1>3, <1>4
  <2> HIDE DEF b
  <2>2. /\ More(b, i) \in Nat /\ Each(b, i) \in Nat /\ More(b, i - 1) \in Nat
        /\ More(b + 1, i) = IF b < Threshold THEN Each(b, i) - 1 ELSE 0
        /\ More(b, i) = More(b, i - 1) + Each(b, i)
    <3>1. i - 1 \in Nat
        OBVIOUS
    <3>2. QED
        BY <2>1, <3>1, MoreFacts
  <2>3. More(b + 1, i) <= More(b, i)
    BY <2>2
  <2>4. QED
    BY <2>1, <2>3 DEF b
<1>7. More(d, i) \in Nat /\ More(d - 1, i) \in Nat
    BY <1>3, <1>4, MoreFacts
<1>8. QED
    BY <1>3, <1>5, <1>6, <1>7
-----------------------------------------------------------------------------
(* Lockout.                                                                *)

Most == Cardinality(Visitors)
InARow == Bijection(1..Most, Visitors)

(* What the i-th visitor of a row adds: a count it is about to put may set *)
(* the counter back for all before it, another compares on from there.  One*)
(* whose put throws is back where it was, at the price of one.             *)
Higher(a, b) == IF a >= b THEN a ELSE b
Weight(v, i) ==
    IF visit[v].pc = "put" THEN Higher(More(visit[v].count, i), Each(fails, i) - 1)
    ELSE IF visit[v].pc = "count" THEN More(fails + 1, i)
    ELSE Each(fails, i)

(* A sum of no more than what each adds.                                   *)
SumFor(row, s) ==
    /\ s \in [0..Most -> Int] /\ s[0] = 0
    /\ \A i \in 1..Most : s[i] - s[i - 1] <= Weight(row[i], i)

Bounded ==
    stale = 0 =>
      /\ \A v \in Visitors : visit[v].pc = "put" => visit[v].count >= 1
      /\ \A row \in InARow : \A s :
            SumFor(row, s) => compared + s[Most] <= More(0, Most) + uncounted

LEMMA MostTyped == Most \in Nat /\ \E row : row \in InARow
<1>1. IsFiniteSet(Visitors)
    BY ConsoleConstants
<1>2. PICK n \in Nat : ExistsBijection(1..n, Visitors)
    BY <1>1, FS_NatBijection
<1>3. Most = n
    BY <1>2, FS_CountingElements DEF Most
<1>4. QED
    BY <1>2, <1>3 DEF ExistsBijection, InARow

LEMMA WeightTyped ==
    AdminTypeOK => \A w \in Visitors, n \in Nat : Weight(w, n) \in Nat
<1> SUFFICES ASSUME AdminTypeOK, NEW v \in Visitors, NEW i \in Nat
             PROVE  Weight(v, i) \in Nat
    OBVIOUS
<1>1. fails \in Nat /\ fails + 1 \in Nat /\ visit[v].count \in Nat
    BY DEF AdminTypeOK
<1>2. /\ More(visit[v].count, i) \in Nat /\ More(fails + 1, i) \in Nat
      /\ Each(fails, i) \in Nat
    BY <1>1, MoreFacts
<1>3. QED
    BY <1>2 DEF Weight, Higher

LEMMA WeightTypedNext ==
    (AdminTypeOK => \A w \in Visitors, n \in Nat : Weight(w, n) \in Nat)'
    BY WeightTyped, PTL

(* From no count on, everyone together.                                    *)
LEMMA AllTogether ==
    ASSUME NEW s \in [0..Most -> Int], s[0] = 0,
           \A i \in 1..Most : s[i] - s[i - 1] <= Each(0, i)
    PROVE  s[Most] <= More(0, Most)
<1> DEFINE T == {i \in 0..Most : ~(s[i] <= More(0, i))}
<1>1. Most \in Nat
    BY MostTyped
<1>2. SUFFICES ASSUME T # {} PROVE FALSE
    BY <1>1
<1>3. PICK i \in T : i \in Nat /\ \A m \in Nat : m < i => m \notin T
  <2>1. T \in SUBSET Nat
    BY <1>1
  <2> HIDE DEF T
  <2>2. QED
    BY <1>2, <2>1, FirstOf
<1>4. i \in 0..Most /\ ~(s[i] <= More(0, i))
    BY <1>3
<1>5. i # 0
  <2>1. More(0, 0) = 0
    BY MoreFacts
  <2>2. QED
    BY <1>4, <2>1
<1>6. i - 1 \in 0..Most /\ i - 1 \in Nat /\ i \in 1..Most /\ i \in Nat /\ i >= 1 /\ i - 1 < i
    BY <1>1, <1>4, <1>5
<1>7. s[i - 1] <= More(0, i - 1)
  <2>1. i - 1 \notin T
    <3> HIDE DEF T
    <3> QED
        BY <1>3, <1>6
  <2>2. QED
    BY <1>6, <2>1
<1>8. s[i] \in Int /\ s[i - 1] \in Int /\ s[i] - s[i - 1] <= Each(0, i)
    BY <1>6
<1>9. /\ More(0, i) = More(0, i - 1) + Each(0, i)
      /\ More(0, i - 1) \in Nat /\ Each(0, i) \in Nat
    BY <1>6, MoreFacts
<1>10. QED
    BY <1>4, <1>7, <1>8, <1>9

(* The counter is gone: whoever still puts puts 1 or more.                 *)
LEMMA BoundedAnew ==
    ASSUME AdminTypeOK', fails' = 0, compared' = 0, uncounted' = 0,
           \A v \in Visitors : visit'[v].pc = "put" => visit'[v].count >= 1
    PROVE  Bounded'
<1>1. ASSUME NEW v \in Visitors, NEW i \in Nat, i >= 1
      PROVE  Weight(v, i)' <= Each(0, i)
  <2>1. /\ Each(0, i) \in Nat /\ Each(0, i) >= 1
        /\ More(1, i) = Each(0, i) - 1
    <3>1. 0 < Threshold
        BY ConsoleConstants
    <3>2. More(0 + 1, i) = Each(0, i) - 1 /\ Each(0, i) \in Nat /\ Each(0, i) >= 1
        BY <3>1, MoreFacts
    <3>3. QED
        BY <3>2
  <2>2. CASE visit'[v].pc = "put"
    <3>1. visit'[v].count \in Nat /\ visit'[v].count >= 1
        BY <2>2 DEF AdminTypeOK
    <3>2. More(visit'[v].count, i) <= More(1, i) /\ More(visit'[v].count, i) \in Nat
        BY <1>1, <3>1, FewerLater, MoreFacts
    <3>3. Weight(v, i)' = Higher(More(visit'[v].count, i), Each(0, i) - 1)
        BY <2>2 DEF Weight
    <3>4. QED
        BY <2>1, <3>2, <3>3 DEF Higher
  <2>3. CASE visit'[v].pc # "put"
    BY <2>1, <2>3 DEF Weight
  <2>4. QED
    BY <2>2, <2>3
<1>2. ASSUME NEW row \in InARow, NEW s, SumFor(row, s)'
      PROVE  s[Most] <= More(0, Most) /\ s[Most] \in Int
  <2>1. s \in [0..Most -> Int] /\ s[0] = 0 /\ Most \in Nat
    BY <1>2, MostTyped DEF SumFor
  <2>2. ASSUME NEW i \in 1..Most PROVE s[i] - s[i - 1] <= Each(0, i)
    <3>1. s[i] - s[i - 1] <= Weight(row[i], i)'
        BY <1>2 DEF SumFor
    <3>2. row[i] \in Visitors /\ i \in Nat /\ i >= 1 /\ i - 1 \in 0..Most /\ i \in 0..Most
        BY <2>1 DEF InARow, Bijection, Injection
    <3>3. Weight(row[i], i)' <= Each(0, i)
        BY <1>1, <3>2
    <3>4. Weight(row[i], i)' \in Nat /\ Each(0, i) \in Nat
        BY <3>2, WeightTypedNext, MoreFacts
    <3>5. s[i] \in Int /\ s[i - 1] \in Int
        BY <2>1, <3>2
    <3>6. QED
        BY <3>1, <3>3, <3>4, <3>5
  <2>3. QED
    BY <2>1, <2>2, AllTogether
<1>3. More(0, Most) \in Nat
    BY MostTyped, MoreFacts
<1>4. QED
    BY <1>2, <1>3 DEF Bounded, InARow, Most

LEMMA RowFacts ==
    ASSUME NEW row \in InARow
    PROVE  /\ \A i \in 1..Most : row[i] \in Visitors
           /\ \A i, j \in 1..Most : row[i] = row[j] => i = j
           /\ \A v \in Visitors : \E i \in 1..Most : row[i] = v
    BY DEF InARow, Bijection, Injection, Surjection, IsInjective

LEMMA Swapped ==
    ASSUME NEW row \in InARow, NEW j \in 1..Most, NEW k \in 1..Most
    PROVE  [i \in 1..Most |-> IF i = k THEN row[j] ELSE IF i = j THEN row[k] ELSE row[i]]
              \in InARow
<1> DEFINE r == [i \in 1..Most |-> IF i = k THEN row[j] ELSE IF i = j THEN row[k] ELSE row[i]]
<1>1. r \in [1..Most -> Visitors]
    BY RowFacts
<1>2. ASSUME NEW a \in 1..Most, NEW b \in 1..Most, r[a] = r[b] PROVE a = b
    BY <1>2, RowFacts
<1>3. ASSUME NEW v \in Visitors PROVE \E i \in 1..Most : r[i] = v
  <2>1. PICK i \in 1..Most : row[i] = v
    BY RowFacts
  <2>2. r[IF i = j THEN k ELSE IF i = k THEN j ELSE i] = v
    BY <2>1
  <2>3. QED
    BY <2>2
<1>4. QED
  <2> HIDE DEF r
  <2>1. r \in Injection(1..Most, Visitors) /\ r \in Surjection(1..Most, Visitors)
    BY <1>1, <1>2, <1>3 DEF Injection, Surjection, IsInjective
  <2>2. QED
    BY <2>1 DEF InARow, Bijection, r

LEMMA LastOf ==
    ASSUME NEW n \in Nat, NEW S, S \subseteq 1..n, S # {}
    PROVE  \E m \in S : \A y \in S : y <= m
<1> DEFINE T == {m \in Nat : \A y \in S : y <= m}
<1>1. PICK m \in T : \A k \in T : m <= k
  <2>1. n \in T
    OBVIOUS
  <2>2. QED
    BY <2>1, LeastNatural
<1>2. m \in S
  <2>1. SUFFICES ASSUME m \notin S PROVE FALSE
    OBVIOUS
  <2>2. \A y \in S : y <= m - 1
    BY <2>1
  <2>3. PICK y \in S : TRUE
    OBVIOUS
  <2>4. y \in 1..n /\ y <= m - 1
    BY <2>2
  <2>5. m - 1 \in T
    BY <2>2, <2>4
  <2>6. QED
    BY <1>1, <2>5
<1>3. QED
    BY <1>1, <1>2

(* A late put sets the counter back.                                       *)
LEMMA PutBounded ==
    ASSUME AdminTypeOK, AdminTypeOK', Bounded, stale = 0, NEW v \in Visitors, PutFailure(v)
    PROVE  \A row \in InARow : \A s :
              SumFor(row, s)' => compared' + s[Most] <= More(0, Most) + uncounted'
<1> DEFINE p == visit[v].count
<1>0. /\ visit[v].pc = "put" /\ fails' = p /\ compared' = compared
      /\ uncounted' = uncounted
      /\ visit'[v].pc = "idle" /\ p \in Nat
      /\ \A w \in Visitors : w # v => visit'[w] = visit[w]
  <2>1. visit \in [Visitors -> VisitType]
    BY DEF AdminTypeOK, VisitType
  <2>2. QED
    BY <2>1 DEF PutFailure, Answer, NoVisit, VisitType
<1>1. SUFFICES ASSUME NEW row \in InARow, NEW s, SumFor(row, s)'
               PROVE  compared + s[Most] <= More(0, Most) + uncounted
    BY <1>0
<1>2. /\ s \in [0..Most -> Int] /\ s[0] = 0 /\ Most \in Nat
      /\ \A i \in 1..Most : s[i] - s[i - 1] <= Weight(row[i], i)'
    BY <1>1, MostTyped DEF SumFor
<1> DEFINE I == {i \in 1..Most : Weight(row[i], i)' <= Each(p, i)}
<1>3. PICK j \in 1..Most : row[j] = v
    BY RowFacts
<1>4. Weight(v, j)' <= Each(p, j)
  <2>1. j \in Nat
    BY <1>2
  <2>2. Each(p, j) \in Nat
    <3>1. p \in Nat
        BY <1>0
    <3> HIDE DEF p
    <3>2. QED
        BY <2>1, <3>1, MoreFacts
  <2>3. Weight(v, j)' = Each(p, j)
    BY <1>0 DEF Weight
  <2>4. QED
    BY <2>2, <2>3
<1>5. PICK k \in I : \A i \in I : i <= k
  <2>1. I \subseteq 1..Most /\ j \in I
    BY <1>3, <1>4
  <2> HIDE DEF I
  <2>2. QED
    BY <1>2, <2>1, LastOf
<1>6. k \in 1..Most /\ Weight(row[k], k)' <= Each(p, k) /\ j <= k
  <2>1. k \in I
    BY <1>5
  <2>2. k \in 1..Most /\ Weight(row[k], k)' <= Each(p, k)
    BY <2>1
  <2>3. j \in I
    BY <1>3, <1>4
  <2> HIDE DEF I
  <2>4. QED
    BY <1>5, <2>2, <2>3
<1> DEFINE r == [i \in 1..Most |-> IF i = k THEN row[j] ELSE IF i = j THEN row[k] ELSE row[i]]
           t == [i \in 0..Most |-> IF i < k THEN s[i] - More(p, i) ELSE s[i]]
<1>7. r \in InARow
    BY <1>6, Swapped
<1>8. \A i \in Nat : More(p, i) \in Nat /\ Each(p, i) \in Nat
    BY <1>0, MoreFacts
<1>9. t \in [0..Most -> Int] /\ t[0] = 0 /\ t[Most] = s[Most]
  <2>1. More(p, 0) = 0 /\ \A i \in 0..Most : More(p, i) \in Nat /\ s[i] \in Int
    <3>1. p \in Nat /\ 0 \in Nat
        BY <1>0
    <3> HIDE DEF p
    <3>2. More(p, 0) = 0
        BY <3>1, MoreFacts
    <3>3. \A i \in 0..Most : i \in Nat /\ s[i] \in Int
        BY <1>2
    <3>4. QED
        BY <1>8, <3>2, <3>3
  <2>2. \A i \in 0..Most : t[i] \in Int
    BY <2>1
  <2>3. 0 \in 0..Most /\ Most \in 0..Most /\ 0 < k /\ ~(Most < k)
    BY <1>2, <1>6
  <2>4. t[0] = s[0] - More(p, 0) /\ t[Most] = s[Most]
    BY <2>3
  <2>5. QED
    BY <1>2, <2>1, <2>2, <2>4
<1>10. ASSUME NEW i \in 1..Most PROVE t[i] - t[i - 1] <= Weight(r[i], i)
  <2>1. i \in Nat /\ i - 1 \in Nat /\ i >= 1 /\ i - 1 \in 0..Most /\ i \in 0..Most
        /\ row[i] \in Visitors /\ r[i] \in Visitors
        /\ s[i] \in Int /\ s[i - 1] \in Int
    <3>1. i \in Nat /\ i - 1 \in Nat /\ i >= 1 /\ i - 1 \in 0..Most /\ i \in 0..Most
        BY <1>2
    <3>2. row[i] \in Visitors
        BY RowFacts
    <3>3. r[i] \in Visitors
      <4> HIDE DEF r
      <4> QED
        BY <1>7, RowFacts
    <3>4. s[i] \in Int /\ s[i - 1] \in Int
        BY <1>2, <3>1
    <3>5. QED
        BY <3>1, <3>2, <3>3, <3>4
  <2>2. /\ Weight(r[i], i) \in Nat /\ Weight(row[i], i)' \in Nat
        /\ s[i] - s[i - 1] <= Weight(row[i], i)'
    <3>1. Weight(r[i], i) \in Nat
        BY <2>1, WeightTyped
    <3>2. QED
        BY <1>2, <2>1, <3>1, WeightTypedNext
  <2>3. More(p, i) = More(p, i - 1) + Each(p, i)
    BY <1>0, <2>1, MoreFacts
  <2>4. Weight(row[i], i)' <= Each(p, i) \/
           (row[i] # v /\ Weight(row[i], i)' <= Weight(row[i], i))
    <3>1. More(p + 1, i) <= Each(p, i)
      <4>1. More(p + 1, i) = IF p < Threshold THEN Each(p, i) - 1 ELSE 0
        BY <1>0, <2>1, MoreFacts
      <4>2. Each(p, i) \in Nat
        BY <1>8, <2>1
      <4>3. QED
        BY <4>1, <4>2
    <3>2. CASE visit'[row[i]].pc = "put"
      <4> DEFINE m == More(visit[row[i]].count, i)
      <4>1. row[i] # v /\ visit'[row[i]] = visit[row[i]] /\ visit[row[i]].pc = "put"
        BY <1>0, <2>1, <3>2
      <4>2. /\ Weight(row[i], i)' = Higher(m, Each(p, i) - 1)
            /\ Weight(row[i], i) = Higher(m, Each(fails, i) - 1)
        BY <1>0, <4>1 DEF Weight
      <4>3. m \in Nat /\ Each(p, i) \in Nat /\ Each(fails, i) \in Nat
        <5>1. visit[row[i]].count \in Nat /\ fails \in Nat
            BY <2>1 DEF AdminTypeOK
        <5>2. QED
            BY <1>8, <2>1, <5>1, MoreFacts
      <4> HIDE DEF m
      <4>4. QED
        BY <4>1, <4>2, <4>3 DEF Higher
    <3>3. CASE visit'[row[i]].pc # "put"
        BY <1>0, <1>8, <2>1, <3>1, <3>3 DEF Weight
    <3>4. QED
        BY <3>2, <3>3
  <2>5. ~(Weight(row[i], i)' <= Each(p, i)) => r[i] = row[i]
    <3>1. ~(Weight(row[i], i)' <= Each(p, i)) => i # k /\ i # j
      <4>1. Weight(v, i)' = Each(p, i) /\ Each(p, i) \in Nat
        BY <1>0, <1>8, <2>1 DEF Weight
      <4>2. QED
        BY <1>3, <1>6, <4>1
    <3>2. QED
        BY <3>1
  <2>6. /\ More(p, i) \in Nat /\ More(p, i - 1) \in Nat /\ Each(p, i) \in Nat
    BY <1>8, <2>1
  <2>7. CASE i < k
    <3>1. t[i] - t[i - 1] = s[i] - s[i - 1] - Each(p, i)
        BY <1>6, <2>1, <2>3, <2>6, <2>7
    <3>2. CASE ~(Weight(row[i], i)' <= Each(p, i))
      <4>1. r[i] = row[i] /\ Weight(row[i], i)' <= Weight(row[i], i)
        BY <2>4, <2>5, <3>2
      <4>2. QED
        BY <2>1, <2>2, <2>6, <3>1, <4>1
    <3>3. CASE Weight(row[i], i)' <= Each(p, i)
        BY <2>1, <2>2, <2>6, <3>1, <3>3
    <3>4. QED
        BY <3>2, <3>3
  <2>8. CASE i = k
    <3>1. t[i] - t[i - 1] = s[i] - s[i - 1] + More(p, i - 1)
        BY <1>6, <2>1, <2>6, <2>8
    <3>2. r[i] = v
        BY <1>3, <2>8
    <3>3. Weight(v, i) >= More(p, i) /\ Weight(v, i) \in Nat
      <4>1. Weight(v, i) = Higher(More(p, i), Each(fails, i) - 1)
        BY <1>0 DEF Weight
      <4>2. Each(fails, i) \in Nat
        BY <2>1, MoreFacts DEF AdminTypeOK
      <4>3. QED
        BY <2>6, <4>1, <4>2 DEF Higher
    <3>4. Weight(row[i], i)' <= Each(p, i)
        BY <1>6, <2>8
    <3>5. QED
        BY <2>1, <2>2, <2>3, <2>6, <3>1, <3>2, <3>3, <3>4
  <2>9. CASE i > k
    <3>1. ~(Weight(row[i], i)' <= Each(p, i))
        BY <1>5, <1>6, <2>9
    <3>2. r[i] = row[i] /\ Weight(row[i], i)' <= Weight(row[i], i)
        BY <2>4, <2>5, <3>1
    <3>3. t[i] = s[i] /\ t[i - 1] = s[i - 1]
        BY <1>6, <2>1, <2>9
    <3>4. QED
        BY <2>1, <2>2, <3>2, <3>3
  <2>10. QED
    BY <1>6, <2>1, <2>7, <2>8, <2>9
<1>11. SumFor(r, t)
  <2> HIDE DEF r, t
  <2>1. QED
    BY <1>9, <1>10 DEF SumFor
<1>12. QED
  <2> HIDE DEF r, t
  <2>1. compared + t[Most] <= More(0, Most) + uncounted
    BY <1>7, <1>11 DEF Bounded
  <2>2. QED
    BY <1>9, <2>1

(* One whose count threw is let through once more.                         *)
LEMMA ThrowBounded ==
    ASSUME AdminTypeOK, AdminTypeOK', Bounded, stale = 0, NEW v \in Visitors,
           AccessThrows(v), visit[v].pc \in Counting
    PROVE  \A row \in InARow : \A s :
              SumFor(row, s)' => compared' + s[Most] <= More(0, Most) + uncounted'
<1>0. /\ visit'[v].pc = "idle" /\ fails' = fails /\ compared' = compared
      /\ uncounted' = uncounted + 1 /\ uncounted \in Nat /\ compared \in Nat /\ fails \in Nat
      /\ \A w \in Visitors : w # v => visit'[w] = visit[w]
  <2>1. visit \in [Visitors -> VisitType]
    BY DEF AdminTypeOK, VisitType
  <2>2. visit'[v].pc = "idle" /\ \A w \in Visitors : w # v => visit'[w] = visit[w]
    BY <2>1 DEF AccessThrows, Answer, NoVisit, VisitType
  <2>3. QED
    BY <2>2 DEF AccessThrows, AdminTypeOK
<1>1. SUFFICES ASSUME NEW row \in InARow, NEW s, SumFor(row, s)'
               PROVE  compared + s[Most] <= More(0, Most) + (uncounted + 1)
    BY <1>0
<1>2. /\ s \in [0..Most -> Int] /\ s[0] = 0 /\ Most \in Nat
      /\ \A i \in 1..Most : s[i] - s[i - 1] <= Weight(row[i], i)'
    BY <1>1, MostTyped DEF SumFor
<1>3. PICK j \in 1..Most : row[j] = v
    BY RowFacts
<1> DEFINE t == [i \in 0..Most |-> IF i < j THEN s[i] ELSE s[i] - 1]
<1>4. t \in [0..Most -> Int] /\ t[0] = 0 /\ t[Most] = s[Most] - 1 /\ s[Most] \in Int
    BY <1>2
<1>5. ASSUME NEW i \in 1..Most PROVE t[i] - t[i - 1] <= Weight(row[i], i)
  <2>1. i \in Nat /\ i >= 1 /\ i - 1 \in 0..Most /\ i \in 0..Most
        /\ row[i] \in Visitors /\ s[i] \in Int /\ s[i - 1] \in Int
        /\ s[i] - s[i - 1] <= Weight(row[i], i)'
    <3>1. i \in Nat /\ i >= 1 /\ i - 1 \in 0..Most /\ i \in 0..Most
        BY <1>2
    <3>2. s[i] \in Int /\ s[i - 1] \in Int
        BY <1>2, <3>1
    <3>3. row[i] \in Visitors
        BY RowFacts
    <3>4. QED
        BY <1>2, <3>1, <3>2, <3>3
  <2>2. CASE i = j
    <3>1. Weight(v, i)' = Each(fails, i) /\ Each(fails, i) \in Nat
        BY <1>0, <2>1, MoreFacts DEF Weight
    <3>2. Weight(v, i) >= Each(fails, i) - 1 /\ Weight(v, i) \in Nat
      <4>1. More(fails + 1, i) = (IF fails < Threshold THEN Each(fails, i) - 1 ELSE 0)
            /\ (~(fails < Threshold) => Each(fails, i) = 0)
        BY <1>0, <2>1, MoreFacts DEF Each
      <4>2. CASE visit[v].pc = "put"
        <5>1. More(visit[v].count, i) \in Nat
            BY <2>1, MoreFacts DEF AdminTypeOK
        <5>2. Weight(v, i) = Higher(More(visit[v].count, i), Each(fails, i) - 1)
            BY <4>2 DEF Weight
        <5>3. QED
            BY <3>1, <5>1, <5>2 DEF Higher
      <4>3. CASE visit[v].pc = "count"
        <5>1. Weight(v, i) = More(fails + 1, i)
            BY <4>3 DEF Weight
        <5>2. fails < Threshold => Each(fails, i) >= 1
            BY <1>0, <2>1, MoreFacts
        <5>3. QED
            BY <3>1, <4>1, <5>1, <5>2
      <4>4. QED
        BY <4>2, <4>3 DEF Counting
    <3>3. t[i] = s[i] - 1 /\ t[i - 1] = s[i - 1]
        BY <2>1, <2>2
    <3>4. QED
        BY <1>3, <2>1, <2>2, <3>1, <3>2, <3>3
  <2>3. CASE i # j
    <3>1. row[i] # v
        BY <1>3, <2>3, RowFacts
    <3>2. Weight(row[i], i)' = Weight(row[i], i)
        BY <1>0, <2>1, <3>1 DEF Weight
    <3>3. t[i] - t[i - 1] = s[i] - s[i - 1]
        BY <2>1, <2>3
    <3>4. QED
        BY <2>1, <3>2, <3>3
  <2>4. QED
    BY <2>2, <2>3
<1>6. SumFor(row, t)
  <2> HIDE DEF t
  <2> QED
    BY <1>4, <1>5 DEF SumFor
<1>7. compared + t[Most] <= More(0, Most) + uncounted
  <2> HIDE DEF t
  <2> QED
    BY <1>6 DEF Bounded
<1>8. More(0, Most) \in Nat
    BY MostTyped, MoreFacts
<1>9. QED
  <2> HIDE DEF t
  <2> QED
    BY <1>0, <1>4, <1>7, <1>8

(* One more compared, which one less may follow.                           *)
LEMMA CompareBounded ==
    ASSUME AdminTypeOK, AdminTypeOK', Bounded, stale = 0, NEW v \in Visitors,
           visit[v].pc = "gate", visit' = [visit EXCEPT ![v].pc = "count"],
           fails < Threshold, fails' = fails, compared' = compared + 1,
           uncounted' = uncounted
    PROVE  \A row \in InARow : \A s :
              SumFor(row, s)' => compared' + s[Most] <= More(0, Most) + uncounted'
<1>0. /\ visit'[v].pc = "count" /\ fails \in Nat /\ compared \in Nat /\ uncounted \in Nat
      /\ \A w \in Visitors : w # v => visit'[w] = visit[w]
    BY DEF AdminTypeOK
<1>1. SUFFICES ASSUME NEW row \in InARow, NEW s, SumFor(row, s)'
               PROVE  compared + 1 + s[Most] <= More(0, Most) + uncounted
    OBVIOUS
<1>2. /\ s \in [0..Most -> Int] /\ s[0] = 0 /\ Most \in Nat
      /\ \A i \in 1..Most : s[i] - s[i - 1] <= Weight(row[i], i)'
    BY <1>1, MostTyped DEF SumFor
<1>3. PICK j \in 1..Most : row[j] = v
    BY RowFacts
<1> DEFINE t == [i \in 0..Most |-> IF i < j THEN s[i] ELSE s[i] + 1]
<1>4. t \in [0..Most -> Int] /\ t[0] = 0 /\ t[Most] = s[Most] + 1 /\ s[Most] \in Int
    BY <1>2
<1>5. ASSUME NEW i \in 1..Most PROVE t[i] - t[i - 1] <= Weight(row[i], i)
  <2>1. i \in Nat /\ i >= 1 /\ i - 1 \in 0..Most /\ i \in 0..Most
        /\ row[i] \in Visitors /\ s[i] \in Int /\ s[i - 1] \in Int
        /\ s[i] - s[i - 1] <= Weight(row[i], i)'
    BY <1>2, RowFacts
  <2>2. CASE i = j
    <3>1. Weight(v, i)' = More(fails + 1, i) /\ Weight(v, i) = Each(fails, i)
        BY <1>0 DEF Weight
    <3>2. More(fails + 1, i) = Each(fails, i) - 1 /\ Each(fails, i) \in Nat
        BY <1>0, <2>1, MoreFacts
    <3>3. t[i] = s[i] + 1 /\ t[i - 1] = s[i - 1]
        BY <2>1, <2>2
    <3>4. QED
        BY <1>3, <2>1, <2>2, <3>1, <3>2, <3>3
  <2>3. CASE i # j
    <3>1. row[i] # v
        BY <1>3, <2>3, RowFacts
    <3>2. Weight(row[i], i)' = Weight(row[i], i)
        BY <1>0, <2>1, <3>1 DEF Weight
    <3>3. t[i] - t[i - 1] = s[i] - s[i - 1]
        BY <2>1, <2>3
    <3>4. QED
        BY <2>1, <3>2, <3>3
  <2>4. QED
    BY <2>2, <2>3
<1>6. SumFor(row, t)
  <2> HIDE DEF t
  <2> QED
    BY <1>4, <1>5 DEF SumFor
<1>7. compared + t[Most] <= More(0, Most) + uncounted
  <2> HIDE DEF t
  <2> QED
    BY <1>6 DEF Bounded
<1>8. More(0, Most) \in Nat
    BY MostTyped, MoreFacts
<1>9. QED
  <2> HIDE DEF t
  <2> QED
    BY <1>0, <1>4, <1>7, <1>8

(* Nothing that counts changes.                                            *)
LEMMA BoundedUnmoved ==
    ASSUME Bounded, stale' = 0 => stale = 0, UNCHANGED <<fails, compared, uncounted>>,
           \A w \in Visitors :
              visit[w].pc \in LoggingIn \/ visit'[w].pc \in LoggingIn => visit'[w] = visit[w]
    PROVE  Bounded'
<1>1. SUFFICES ASSUME stale' = 0
               PROVE  /\ \A v \in Visitors : visit'[v].pc = "put" => visit'[v].count >= 1
                      /\ \A row \in InARow : \A s :
                            SumFor(row, s)' => compared' + s[Most] <= More(0, Most) + uncounted'
    BY DEF Bounded, InARow, Most
<1>2. \A w \in Visitors :
         /\ visit'[w].pc = "put" <=> visit[w].pc = "put"
         /\ visit'[w].pc = "count" <=> visit[w].pc = "count"
         /\ visit[w].pc = "put" => visit'[w] = visit[w]
    BY DEF LoggingIn
<1>3. \A w \in Visitors, i \in Nat : Weight(w, i)' = Weight(w, i)
    BY <1>2 DEF Weight
<1>4. ASSUME NEW row \in InARow, NEW s, SumFor(row, s)' PROVE SumFor(row, s)
  <2>1. \A i \in 1..Most : row[i] \in Visitors /\ i \in Nat
    BY MostTyped, RowFacts
  <2>2. QED
    BY <1>3, <1>4, <2>1 DEF SumFor
<1>5. QED
    BY <1>1, <1>2, <1>4 DEF Bounded

LEMMA StaleStays ==
    ASSUME AdminTypeOK, [AdminNext]_adminVars, stale' = 0
    PROVE  stale = 0
<1>1. stale' \in {stale, stale + 1}
    BY NextSplit DEF VisitorStep, Login, Gate, CountFailure, PutFailure, ClearFailures,
       CreateSession, Arrive, Validate, RequireCsrf, Save, Logout, SweepPage, SweepDone,
       SweepFails, AccessThrows, WindowEnds, SessionsSettle, adminVars, Reads, Write, Late
<1>2. stale \in Nat
    BY DEF AdminTypeOK
<1>3. QED
    BY <1>1, <1>2

(* The steps of a login, on time.                                          *)
LEMMA BoundedLogin ==
    ASSUME AdminTypeOK, AdminTypeOK', Bounded, stale = 0, stale' = 0, NEW v \in Visitors,
           Login(v) \/ Gate(v) \/ CountFailure(v) \/ PutFailure(v) \/ ClearFailures(v)
             \/ (AccessThrows(v) /\ visit[v].pc \in LoggingIn)
    PROVE  Bounded'
<1>0. /\ fails \in Nat /\ compared \in Nat /\ uncounted \in Nat
      /\ visit \in [Visitors -> VisitType] /\ visit[v] \in VisitType
      /\ \A w \in Visitors : visit[w].pc = "put" => visit[w].count >= 1
      /\ \A w \in Visitors : w # v => visit'[w] = visit[w]
  <2>1. visit \in [Visitors -> VisitType]
    BY DEF AdminTypeOK, VisitType
  <2>2. QED
    BY <2>1 DEF AdminTypeOK, Bounded, Login, Gate, CountFailure, PutFailure, ClearFailures,
       AccessThrows, Move, Answer
<1>1. ASSUME UNCHANGED <<fails, compared, uncounted>>,
             visit'[v].pc = "put" => visit'[v].count >= 1,
             \A i \in Nat : i >= 1 => Weight(v, i)' = Weight(v, i)
      PROVE  Bounded'
  <2>1. \A w \in Visitors, i \in Nat : i >= 1 => Weight(w, i)' = Weight(w, i)
    BY <1>0, <1>1 DEF Weight
  <2>2. ASSUME NEW row \in InARow, NEW s, SumFor(row, s)' PROVE SumFor(row, s)
    <3>1. \A i \in 1..Most : row[i] \in Visitors /\ i \in Nat /\ i >= 1
        BY MostTyped, RowFacts
    <3>2. QED
        BY <2>1, <2>2, <3>1 DEF SumFor
  <2>3. \A row \in InARow : \A s :
          SumFor(row, s)' => compared' + s[Most] <= More(0, Most) + uncounted'
    BY <1>1, <2>2 DEF Bounded
  <2>4. \A w \in Visitors : visit'[w].pc = "put" => visit'[w].count >= 1
    BY <1>0, <1>1
  <2>5. QED
    BY <2>3, <2>4 DEF Bounded, InARow, Most
<1>2. CASE Login(v)
  <2>1. visit[v].pc = "idle" /\ visit'[v].pc = "gate"
        /\ UNCHANGED <<fails, compared, uncounted>>
    BY <1>0, <1>2 DEF Login, Move
  <2>2. QED
    BY <1>1, <2>1 DEF Weight
<1>3. CASE Gate(v)
  <2>1. visit[v].pc = "gate" /\ UNCHANGED <<fails, uncounted>>
    BY <1>3 DEF Gate
  <2>2. \/ Answer(v) /\ UNCHANGED compared
        \/ ~Locked(fails) /\ Move(v, "count") /\ compared' = compared + 1
        \/ Move(v, "clear") /\ UNCHANGED compared
    BY <1>3 DEF Gate, Reads, Late
  <2>3. CASE UNCHANGED compared /\ (Answer(v) \/ Move(v, "clear"))
    <3>1. visit'[v].pc \in {"idle", "clear"}
        BY <1>0, <2>3 DEF Answer, Move, NoVisit, VisitType
    <3>2. QED
        BY <1>1, <2>1, <2>3, <3>1 DEF Weight
  <2>4. CASE ~Locked(fails) /\ Move(v, "count") /\ compared' = compared + 1
    <3>1. fails < Threshold
        BY <1>0, <2>4, ConsoleConstants DEF Locked
    <3>2. visit' = [visit EXCEPT ![v].pc = "count"]
        BY <2>4 DEF Move
    <3>3. \A row \in InARow : \A s :
            SumFor(row, s)' => compared' + s[Most] <= More(0, Most) + uncounted'
        BY <2>1, <2>4, <3>1, <3>2, CompareBounded
    <3>4. \A w \in Visitors : visit'[w].pc = "put" => visit'[w].count >= 1
        BY <1>0, <3>2 DEF VisitType
    <3>5. QED
        BY <3>3, <3>4 DEF Bounded, InARow, Most
  <2>5. QED
    BY <2>2, <2>3, <2>4
<1>4. CASE CountFailure(v)
  <2>1. visit' = [visit EXCEPT ![v].pc = "put", ![v].count = fails + 1]
    BY <1>4 DEF CountFailure, Reads, Late
  <2>2. visit'[v].pc = "put" /\ visit'[v].count = fails + 1
    BY <1>0, <2>1 DEF VisitType
  <2>3. visit[v].pc = "count" /\ UNCHANGED <<fails, compared, uncounted>>
    BY <1>4 DEF CountFailure
  <2>4. ASSUME NEW i \in Nat, i >= 1 PROVE Weight(v, i)' = Weight(v, i)
    <3>1. /\ Weight(v, i)' = Higher(More(fails + 1, i), Each(fails, i) - 1)
          /\ Weight(v, i) = More(fails + 1, i)
        BY <2>2, <2>3 DEF Weight
    <3>2. /\ More(fails + 1, i) = (IF fails < Threshold THEN Each(fails, i) - 1 ELSE 0)
          /\ (~(fails < Threshold) => Each(fails, i) = 0)
          /\ Each(fails, i) \in Nat
        BY <1>0, MoreFacts DEF Each
    <3>3. QED
        BY <3>1, <3>2 DEF Higher
  <2>5. QED
    BY <1>0, <1>1, <2>2, <2>3, <2>4
<1>5. CASE PutFailure(v)
  <2>1. visit'[v].pc = "idle"
    BY <1>0, <1>5 DEF PutFailure, Answer, NoVisit
  <2>2. \A row \in InARow : \A s :
          SumFor(row, s)' => compared' + s[Most] <= More(0, Most) + uncounted'
    BY <1>5, PutBounded
  <2>3. QED
    BY <1>0, <2>1, <2>2 DEF Bounded, InARow, Most
<1>6. CASE ClearFailures(v)
  <2>1. fails' = 0 /\ compared' = 0 /\ uncounted' = 0 /\ visit'[v].pc = "create"
    BY <1>0, <1>6 DEF ClearFailures, Move
  <2>2. \A w \in Visitors : visit'[w].pc = "put" => visit'[w].count >= 1
    BY <1>0, <2>1
  <2>3. QED
    BY <2>1, <2>2, BoundedAnew
<1>7. CASE AccessThrows(v) /\ visit[v].pc \in LoggingIn
  <2>1. visit'[v].pc = "idle" /\ UNCHANGED <<fails, compared>>
    BY <1>0, <1>7 DEF AccessThrows, Answer, NoVisit
  <2>2. CASE visit[v].pc \in Counting
    <3>1. \A row \in InARow : \A s :
             SumFor(row, s)' => compared' + s[Most] <= More(0, Most) + uncounted'
        BY <1>7, <2>2, ThrowBounded
    <3>2. \A w \in Visitors : visit'[w].pc = "put" => visit'[w].count >= 1
        BY <1>0, <2>1
    <3>3. QED
        BY <3>1, <3>2 DEF Bounded, InARow, Most
  <2>3. CASE visit[v].pc \notin Counting
    <3>1. uncounted' = uncounted /\ visit[v].pc \notin {"put", "count"}
        BY <1>0, <1>7, <2>3 DEF AccessThrows, Counting
    <3>2. \A i \in Nat : i >= 1 => Weight(v, i)' = Weight(v, i)
        BY <2>1, <3>1 DEF Weight
    <3>3. QED
        BY <1>1, <2>1, <3>1, <3>2
  <2>4. QED
    BY <2>2, <2>3
<1>8. QED
    BY <1>2, <1>3, <1>4, <1>5, <1>6, <1>7

LEMMA BoundedNext ==
    AdminTypeOK /\ AdminTypeOK' /\ Bounded /\ [AdminNext]_adminVars => Bounded'
<1> SUFFICES ASSUME AdminTypeOK, AdminTypeOK', Bounded, [AdminNext]_adminVars, stale' = 0
             PROVE  Bounded'
    BY DEF Bounded
<1>1. stale = 0
    BY StaleStays
<1>2. ASSUME NEW v \in Visitors, VisitorStep(v) PROVE Bounded'
  <2>1. CASE ElsewhereStep(v)
    <3>1. UNCHANGED <<fails, compared, uncounted>>
        BY <2>1, Elsewhere DEF counter
    <3>2. QED
        BY <1>1, <2>1, <3>1, Elsewhere, BoundedUnmoved
  <2>2. CASE ~ElsewhereStep(v)
    BY <1>1, <1>2, <2>2, BoundedLogin DEF VisitorStep, ElsewhereStep
  <2>3. QED
    BY <2>1, <2>2
<1>3. CASE WindowEnds
  <2>1. fails' = 0 /\ compared' = 0 /\ uncounted' = 0 /\ UNCHANGED visit
    BY <1>3 DEF WindowEnds
  <2>2. \A v \in Visitors : visit'[v].pc = "put" => visit'[v].count >= 1
    BY <1>1, <2>1 DEF Bounded
  <2>3. QED
    BY <2>1, <2>2, BoundedAnew
<1>4. CASE SessionsSettle \/ UNCHANGED adminVars
  <2>1. UNCHANGED <<fails, compared, uncounted, visit>>
    BY <1>4 DEF SessionsSettle, adminVars, counter
  <2>2. QED
    BY <1>1, <2>1, BoundedUnmoved
<1>5. QED
    BY <1>2, <1>3, <1>4, NextSplit

LEMMA BoundedInit == AdminInit => Bounded
<1> SUFFICES ASSUME AdminInit PROVE Bounded
    OBVIOUS
<1>1. /\ fails = 0 /\ compared = 0 /\ uncounted = 0
      /\ \A v \in Visitors : visit[v].pc = "idle"
    BY DEF AdminInit, NoVisit
<1>2. \A v \in Visitors, i \in Nat : Weight(v, i) = Each(0, i)
    BY <1>1 DEF Weight
<1>3. ASSUME NEW row \in InARow, NEW s, SumFor(row, s)
      PROVE  compared + s[Most] <= More(0, Most) + uncounted
  <2>1. s \in [0..Most -> Int] /\ s[0] = 0 /\ Most \in Nat
    BY <1>3, MostTyped DEF SumFor
  <2>2. \A i \in 1..Most : s[i] - s[i - 1] <= Each(0, i)
    BY <1>2, <1>3, RowFacts DEF SumFor
  <2>3. s[Most] <= More(0, Most) /\ s[Most] \in Int
    BY <2>1, <2>2, AllTogether
  <2>4. QED
    BY <1>1, <2>3, <2>1, MoreFacts
<1>4. QED
    BY <1>1, <1>3 DEF Bounded

(* admin-handler.ts:33-66 and 446-493: however logins from one IP overlap, *)
(* the wrong secrets compared before it is locked out are fewer than the   *)
(* ways to put Threshold counts and the Visitors in a row, and one more for*)
(* every count that threw, for any threshold and any number of visitors,   *)
(* while the store is not late.                                            *)
THEOREM LockoutBoundedAlways == AdminSpec => []LockoutBounded
<1>1. AdminTypeOK /\ Bounded => LockoutBounded
  <2> SUFFICES ASSUME AdminTypeOK, Bounded, stale = 0
               PROVE  compared < Ways[<<Threshold, Cardinality(Visitors)>>] + uncounted
    BY DEF LockoutBounded
  <2>1. PICK row \in InARow : TRUE
    BY MostTyped
  <2> DEFINE s == [i \in 0..Most |-> 0]
  <2>2. SumFor(row, s)
    <3>1. \A i \in 1..Most : s[i] - s[i - 1] = 0 /\ Weight(row[i], i) \in Nat
        BY MostTyped, RowFacts, WeightTyped
    <3>2. s \in [0..Most -> Int] /\ s[0] = 0
        BY MostTyped
    <3> HIDE DEF s
    <3>3. \A i \in 1..Most : s[i] - s[i - 1] <= Weight(row[i], i)
        BY <3>1
    <3>4. QED
        BY <3>2, <3>3 DEF SumFor
  <2>3. compared + s[Most] <= More(0, Most) + uncounted
    <3> HIDE DEF s
    <3> QED
        BY <2>2 DEF Bounded
  <2>4. s[Most] = 0 /\ compared \in Nat /\ uncounted \in Nat
    BY MostTyped DEF AdminTypeOK
  <2>5. More(0, Most) = Ways[<<Threshold, Most>>] - 1
    BY ConsoleConstants DEF More
  <2>6. Ways[<<Threshold, Most>>] \in Nat
    BY WaysTyped, MostTyped, ConsoleConstants
  <2>7. QED
    <3> HIDE DEF s
    <3> QED
        BY <2>3, <2>4, <2>5, <2>6 DEF Most
<1>2. AdminSpec => []AdminTypeOK
    BY ConsoleTypeCorrect
<1>3. QED
    BY <1>2, BoundedInit, BoundedNext, <1>1, PTL DEF AdminSpec
=============================================================================
