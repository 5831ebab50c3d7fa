----------------------------- MODULE MCHandlers -----------------------------
(* What happens in one isolate and in none of the Durable Objects: a       *)
(* user's OAuth login, the admin console's logins and sessions, its log    *)
(* viewer and its preflight page, and the decisions of the tools about     *)
(* inquiries and lists.  They share no record of the store, and in the     *)
(* console failed logins and session cookies meet only where a login       *)
(* succeeds.  A behaviour is of one part, so that the run's size is a sum. *)
(* Where the sessions are looked at, logins do not overlap before they     *)
(* create one: the counter is the other part's, and the counter only.      *)
EXTENDS OAuthLogin, AdminSession, MCLogSearch, MCPreflight,
        MCGiAlign, MCGiInquiry, MCEntityList, TLC

CONSTANTS f1, f2, b1, b2, u1, u2, r1, r2, s1, s2, s3
MCFlows == {f1, f2}
MCBrowsers == {b1, b2}
MCUsers == {u1, u2}
MCRequests == {r1, r2}
MCSessions == {s1, s2, s3}
Symmetry ==
    Permutations(MCBrowsers) \union Permutations(MCUsers) \union Permutations(MCRequests)

VARIABLE part

MCInit ==
    /\ LoginInit /\ AdminInit /\ SearchInit /\ PreflightInit
    /\ AlignInit /\ InquiryInit /\ ListInit
    /\ part \in {"login", "lockout", "sessions", "logs", "preflight", "fields", "inquiry", "list"}

Rest(vars) == UNCHANGED <<part, vars>>
decisionVars == <<searchVars, preflightVars, alignVars, inquiryVars, listVars>>

MCNext ==
    \/ part = "login" /\ LoginNext /\ Rest(<<adminVars, decisionVars>>)
    \/ part = "lockout" /\ AdminNext /\ Rest(<<loginVars, decisionVars>>)
         /\ \A v \in Visitors : visit'[v].purpose = "login"
    \/ part = "sessions" /\ AdminNext /\ Rest(<<loginVars, decisionVars>>)
         /\ wrongs' = 0 /\ ~overlap'
    \/ /\ UNCHANGED <<loginVars, adminVars>>
       /\ \/ part = "logs" /\ SearchNext
               /\ Rest(<<preflightVars, alignVars, inquiryVars, listVars>>)
          \/ part = "preflight" /\ PreflightNext
               /\ Rest(<<searchVars, alignVars, inquiryVars, listVars>>)
          \/ part = "fields" /\ BuildFields
               /\ Rest(<<searchVars, preflightVars, inquiryVars, listVars>>)
          \/ part = "inquiry" /\ InquiryNext
               /\ Rest(<<searchVars, preflightVars, alignVars, listVars>>)
          \/ part = "list" /\ CallList
               /\ Rest(<<searchVars, preflightVars, alignVars, inquiryVars>>)

MCSpec == MCInit /\ [][MCNext]_<<part, loginVars, adminVars, decisionVars>>

-----------------------------------------------------------------------------
(* A tool that hands rows to the model without a word of doubt hands it    *)
(* every row: a run inquiry (generic-inquiries.ts:203-239) and a list of   *)
(* entities (entity-list.ts:193-238).                                      *)
BareRowsComplete == InquiryComplete /\ ListComplete
=============================================================================
