---------------------------- MODULE AdminSession ----------------------------
(***************************************************************************)
(* The admin console's login and sessions (src/src/admin/admin-handler.ts):*)
(* failed logins are counted in the store, sessions are kept there, and a  *)
(* session ends by logout or by the revoke-all that follows a rotation of  *)
(* the secret.  Requests run concurrently; the code between two awaits is  *)
(* one step.                                                               *)
(***************************************************************************)
EXTENDS Integers, FiniteSets

CONSTANTS
    Visitors,     \* requests from one client IP, each may be sent again
    Sessions,     \* session UUIDs
    NoSession,
    Threshold,    \* LOGIN_FAIL_THRESHOLD
    MaxWrong,     \* bound: wrong secrets submitted
    MaxWindows,   \* bound: times the failure counter's TTL runs out
    MaxStale      \* bound: reads, and puts and deletes, that are late

ASSUME ConsoleConstants ==
    /\ IsFiniteSet(Visitors)
    /\ NoSession \notin Sessions
    /\ Threshold \in Nat \ {0}
    /\ MaxWrong \in Nat /\ MaxWindows \in Nat /\ MaxStale \in Nat

VARIABLES
    fails,       \* admin_login_fail:<ip>, 0 when there is none
    windows, wrongs,
    visit,       \* visit[v]: where the request stands
    record,      \* record[s]: "none", "live" or "deleted" in the store
    hidden,      \* sessions whose last put or delete reads may still miss
    stale,       \* how often the store was late
    compared,    \* history: wrong secrets compared since the counter last
                 \* ran out or was cleared
    uncounted,   \* history: logins since then whose count threw
    tooSoon,     \* history: a login was refused before Threshold of them
    overlap,     \* history: the counter was late, or ran out or was cleared
                 \* under a login, or two logins were handled at once
    swept,       \* history: sessions that a finished sweep was due to end
    zombies      \* history: sessions acted for by a request that came after
                 \* their end had reached all of the store

adminVars == <<fails, windows, wrongs, visit, record, hidden, stale, compared,
               uncounted, tooSoon, overlap, swept, zombies>>
counter == <<fails, windows, wrongs, compared, uncounted, tooSoon, overlap>>

-----------------------------------------------------------------------------
Purposes == {"login", "save", "sweep", "logout"}
LoggingIn == {"gate", "count", "put", "clear"}
Counting == {"count", "put"}
Steps == LoggingIn \union {"create", "validate", "csrf", "save", "sweep", "logout"}

NoVisit == [pc |-> "idle", session |-> NoSession, purpose |-> "login",
            count |-> 0, ended |-> FALSE, left |-> {}, due |-> {}]

AdminTypeOK ==
    /\ fails \in Nat /\ windows \in Nat /\ wrongs \in Nat /\ stale \in Nat
    /\ visit \in [Visitors -> [pc: Steps \union {"idle"},
                               session: Sessions \union {NoSession},
                               purpose: Purposes, count: Nat, ended: BOOLEAN,
                               left: SUBSET Sessions, due: SUBSET Sessions]]
    /\ record \in [Sessions -> {"none", "live", "deleted"}]
    /\ hidden \subseteq Sessions
    /\ compared \in Nat /\ uncounted \in Nat /\ tooSoon \in BOOLEAN /\ overlap \in BOOLEAN
    /\ swept \subseteq Sessions /\ zombies \subseteq Sessions

AdminInit ==
    /\ fails = 0 /\ windows = 0 /\ wrongs = 0 /\ stale = 0
    /\ visit = [v \in Visitors |-> NoVisit]
    /\ record = [s \in Sessions |-> "none"] /\ hidden = {}
    /\ compared = 0 /\ uncounted = 0 /\ tooSoon = FALSE /\ overlap = FALSE
    /\ swept = {} /\ zombies = {}

Move(v, pc) == visit' = [visit EXCEPT ![v].pc = pc]
Answer(v)  == visit' = [visit EXCEPT ![v] = NoVisit]
OtherLogin(v) == \E w \in Visitors \ {v} : visit[w].pc \in LoggingIn

Late == stale < MaxStale /\ stale' = stale + 1

(* A put or a delete of a session record: reads may miss it for a while.   *)
Write(s, value) ==
    /\ record' = [record EXCEPT ![s] = value]
    /\ \/ hidden' = hidden \ {s} /\ UNCHANGED stale
       \/ record[s] # value /\ hidden' = hidden \union {s} /\ Late

-----------------------------------------------------------------------------
(* POST /login.  The failures of the IP are read before the secret is.     *)
Login(v) ==
    /\ visit[v].pc = "idle"
    /\ Move(v, "gate")
    /\ overlap' = (overlap \/ OtherLogin(v))
    /\ UNCHANGED <<fails, windows, wrongs, record, hidden, stale, compared, uncounted,
                   tooSoon, swept, zombies>>

(* What a read of the counter may return.                                  *)
Reads(n) ==
    \/ n = fails /\ UNCHANGED <<stale, overlap>>
    \/ n \in 0..fails /\ Late /\ overlap' = TRUE

(* The mutant lets one more through.                                       *)
LockedLate(n) == n > Threshold
Locked(n) == n >= Threshold

Gate(v) ==
    /\ visit[v].pc = "gate"
    /\ \E n \in 0..fails :
          /\ Reads(n)
          /\ \/ /\ Locked(n)
                /\ Answer(v)
                /\ tooSoon' = (tooSoon \/ compared < Threshold)
                /\ UNCHANGED <<wrongs, compared>>
             \/ /\ ~Locked(n) /\ wrongs < MaxWrong
                /\ Move(v, "count")
                /\ wrongs' = wrongs + 1 /\ compared' = compared + 1
                /\ UNCHANGED tooSoon
             \/ /\ ~Locked(n)
                /\ Move(v, "clear")
                /\ UNCHANGED <<wrongs, compared, tooSoon>>
    /\ UNCHANGED <<fails, windows, record, hidden, uncounted, swept, zombies>>

(* recordLoginFailure: a get, and a put of one more.                       *)
CountFailure(v) ==
    /\ visit[v].pc = "count"
    /\ \E n \in 0..fails :
          /\ Reads(n)
          /\ visit' = [visit EXCEPT ![v].pc = "put", ![v].count = n + 1]
    /\ UNCHANGED <<fails, windows, wrongs, record, hidden, compared, uncounted, tooSoon,
                   swept, zombies>>

PutFailure(v) ==
    /\ visit[v].pc = "put"
    /\ fails' = visit[v].count
    /\ Answer(v)
    /\ UNCHANGED <<windows, wrongs, record, hidden, stale, compared, uncounted, tooSoon,
                   overlap, swept, zombies>>

ClearFailures(v) ==
    /\ visit[v].pc = "clear"
    /\ fails' = 0 /\ compared' = 0 /\ uncounted' = 0
    /\ overlap' = (overlap \/ OtherLogin(v))
    /\ Move(v, "create")
    /\ UNCHANGED <<windows, wrongs, record, hidden, stale, tooSoon, swept, zombies>>

(* The TTL of the counter, which every put renews, runs out.               *)
WindowEnds ==
    /\ fails > 0 /\ windows < MaxWindows
    /\ windows' = windows + 1
    /\ fails' = 0 /\ compared' = 0 /\ uncounted' = 0
    /\ overlap' = (overlap \/ \E v \in Visitors : visit[v].pc \in LoggingIn)
    /\ UNCHANGED <<wrongs, visit, record, hidden, stale, tooSoon, swept, zombies>>

(* createSession: the end of a login and of a revoke-all.  Which UUID is   *)
(* drawn is immaterial, as sweeps list them in any order.                  *)
Unused == {s \in Sessions : record[s] = "none"}
CreateSession(v) ==
    /\ visit[v].pc = "create" /\ Unused # {}
    /\ Write(CHOOSE s \in Unused : TRUE, "live")
    /\ Answer(v)
    /\ UNCHANGED <<counter, swept, zombies>>

-----------------------------------------------------------------------------
(* Any other request, with the cookie of a session: settings, preflight    *)
(* checks, revoke-all, logout.                                             *)
Arrive(v, s, purpose) ==
    /\ visit[v].pc = "idle" /\ record[s] # "none" /\ purpose # "login"
    /\ visit' = [visit EXCEPT ![v] =
                   [NoVisit EXCEPT !.pc = "validate", !.session = s,
                                   !.purpose = purpose,
                                   !.ended = record[s] = "deleted" /\ s \notin hidden]]
    /\ UNCHANGED <<counter, record, hidden, stale, swept, zombies>>

(* validateSession: the signature and the expiry of the cookie hold, and   *)
(* the record must be in the store.                                        *)
Found(s) == record[s] = "live" \/ s \in hidden
Missing(s) == record[s] # "live" \/ s \in hidden

Validate(v) ==
    LET s == visit[v].session
    IN  /\ visit[v].pc = "validate"
        /\ \/ Found(s) /\ Move(v, IF visit[v].purpose = "logout" THEN "logout" ELSE "csrf")
           \/ Missing(s) /\ Answer(v)
        /\ UNCHANGED <<counter, record, hidden, stale, swept, zombies>>

(* requireCsrf: the header, the CSRF cookie and the session's token agree, *)
(* or nothing happens.                                                     *)
RequireCsrf(v) ==
    /\ visit[v].pc = "csrf"
    /\ \/ Answer(v)
       \/ visit[v].purpose = "save" /\ Move(v, "save")
       \/ /\ visit[v].purpose = "sweep"
          /\ visit' = [visit EXCEPT
                ![v].pc = "sweep", ![v].left = Sessions,
                ![v].due = {s \in Sessions : record[s] = "live" /\ s \notin hidden}]
    /\ UNCHANGED <<counter, record, hidden, stale, swept, zombies>>

(* A setting is saved or reset, or checks are run with a user's token.     *)
Save(v) ==
    /\ visit[v].pc = "save"
    /\ zombies' = zombies \union (IF visit[v].ended THEN {visit[v].session} ELSE {})
    /\ Answer(v)
    /\ UNCHANGED <<counter, record, hidden, stale, swept>>

Logout(v) ==
    /\ visit[v].pc = "logout"
    /\ Write(visit[v].session, "deleted")
    /\ Answer(v)
    /\ UNCHANGED <<counter, swept, zombies>>

(* revokeAllSessions: one page of the listing, of one key here, and the    *)
(* deletes of what it lists.  UUIDs are listed in an order that says       *)
(* nothing of their age.                                                   *)
SweepPage(v) ==
    /\ visit[v].pc = "sweep"
    /\ \E s \in visit[v].left :
          /\ visit' = [visit EXCEPT ![v].left = @ \ {s}]
          /\ \/ Found(s) /\ Write(s, "deleted")
             \/ Missing(s) /\ UNCHANGED <<record, hidden, stale>>
    /\ UNCHANGED <<counter, swept, zombies>>

(* Its last page, after which the caller gets a new session; the mutant    *)
(* does not follow the cursor.                                             *)
FirstPageRead(v) == visit[v].left # Sessions
AllPagesRead(v) == visit[v].left = {}

SweepDone(v) ==
    /\ visit[v].pc = "sweep" /\ AllPagesRead(v)
    /\ swept' = swept \union visit[v].due
    /\ Move(v, "create")
    /\ UNCHANGED <<counter, record, hidden, stale, zombies>>

(* A list or a delete throws: the rest of the sessions stay.               *)
SweepFails(v) ==
    /\ visit[v].pc = "sweep" /\ ~AllPagesRead(v)
    /\ Answer(v)
    /\ UNCHANGED <<counter, record, hidden, stale, swept, zombies>>

(* Any other access to the store throws: Hono answers 500, and nothing that*)
(* was to follow happens.  A login that was to count its failure does not; *)
(* a put or a delete that throws after it took effect is the step itself.  *)
Accessing == LoggingIn \union {"create", "validate", "save", "logout"}
AccessThrows(v) ==
    /\ visit[v].pc \in Accessing
    /\ uncounted' = uncounted + (IF visit[v].pc \in Counting THEN 1 ELSE 0)
    /\ Answer(v)
    /\ UNCHANGED <<fails, windows, wrongs, record, hidden, stale, compared, tooSoon,
                   overlap, swept, zombies>>

SessionsSettle ==
    /\ hidden # {} /\ hidden' = {}
    /\ UNCHANGED <<counter, visit, record, stale, swept, zombies>>

AdminNext ==
    \/ \E v \in Visitors :
          \/ Login(v) \/ Gate(v) \/ CountFailure(v) \/ PutFailure(v)
          \/ ClearFailures(v) \/ CreateSession(v)
          \/ \E s \in Sessions, p \in {"save", "sweep", "logout"} : Arrive(v, s, p)
          \/ Validate(v) \/ RequireCsrf(v) \/ Save(v) \/ Logout(v)
          \/ SweepPage(v) \/ SweepDone(v) \/ SweepFails(v) \/ AccessThrows(v)
    \/ WindowEnds \/ SessionsSettle

AdminSpec == AdminInit /\ [][AdminNext]_adminVars
-----------------------------------------------------------------------------
(* admin-handler.ts:33-38 and 52-58: logins that follow one another are    *)
(* refused after exactly LOGIN_FAIL_THRESHOLD failures within the window,  *)
(* not sooner, and later only by those whose count threw: such a secret was*)
(* compared all the same, and each lets one more through.                  *)
LockoutExact == ~overlap => compared <= Threshold + uncounted /\ ~tooSoon

(* Logins handled together lose counts, and a late put sets the counter    *)
(* back: what gets through before the IP is locked out is bounded by the   *)
(* number of ways to put Threshold counts and the Visitors in a row, which *)
(* begins with the one or with the other, and by one more for every count  *)
(* that threw.  While the store only fails there is no bound.              *)
Ways[row \in Nat \X Nat] ==
    IF row[1] = 0 \/ row[2] = 0 THEN 1
    ELSE Ways[<<row[1] - 1, row[2]>>] + Ways[<<row[1], row[2] - 1>>]
LockoutBounded ==
    stale = 0 => compared < Ways[<<Threshold, Cardinality(Visitors)>>] + uncounted

(* admin-handler.ts:134 and 715-718: a session that was in the store when  *)
(* revoke-all began to list is gone when it has ended, and neither logout  *)
(* nor revoke-all leaves a cookie anything to act with, however valid its  *)
(* signature, once the deletion is everywhere.                             *)
RevokedStayDead ==
    /\ \A s \in swept : record[s] = "deleted"
    /\ zombies = {}
=============================================================================
