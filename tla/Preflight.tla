----------------------------- MODULE Preflight -----------------------------
(***************************************************************************)
(* The preflight page of the admin console: src/src/lib/preflight.ts and   *)
(* its two routes in src/src/admin/admin-handler.ts.  Its checks certify   *)
(* values of the configuration by what the configured host answers, and    *)
(* Acumatica refuses a request without a token before it looks at the path. *)
(***************************************************************************)
EXTENDS FiniteSets

CONSTANTS Hosts    \* what ACUMATICA_URL may point at, see HostType

VARIABLES
    host,          \* the configuration, as it is in truth
    shown,         \* the status of every check the administrator has run
    unreachable    \* the checks whose request got no answer

preflightVars == <<host, shown, unreachable>>

-----------------------------------------------------------------------------
Settings == {"url", "tenant", "version", "id", "secret", "cookie key", "admin secret"}
Unauthenticated == {"discovery", "client", "tenant", "version"}
Authenticated == {"tenant with token", "version with token"}
Probes == {"reachable"} \union Unauthenticated \union Authenticated

(* `is': an Acumatica, or another site that answers every path alike.      *)
(* What the settings name exists or not; `grant': the Connected App may    *)
(* use client_credentials; `routesFirst': a path is looked up before the   *)
(* token is; `token': what the TokenManager has for the user that the      *)
(* administrator named.                                                    *)
HostType(h) ==
    /\ h.is \in {"acumatica", "page", "error page", "login page"}
    /\ h.set \in SUBSET Settings
    /\ h.identity \in {"on", "no endpoint", "off"}
    /\ {h.client, h.grant, h.tenant, h.version, h.routesFirst, h.odata} \subseteq BOOLEAN
    /\ h.token \in {"none", "expired", "ok"}

ASSUME HostAssumption == \A h \in Hosts : HostType(h)

-----------------------------------------------------------------------------
(* The host: a status and what the body says.  An overloaded host may      *)
(* answer anything else with a 500, or not within CHECK_TIMEOUT_MS.        *)
Response(code, says) == [code |-> code, says |-> says]
NoResponse == Response("none", "nothing")

Path(h, exists, readable, token) ==
    IF token # "ok" /\ ~h.routesFirst THEN Response("401", "nothing")
    ELSE IF ~exists THEN Response("404", "nothing")
    ELSE IF token # "ok" THEN Response("401", "nothing")
    ELSE IF ~readable THEN Response("403", "nothing")
    ELSE Response("200", "nothing")

ByAcumatica(h, probe) ==
    CASE probe = "reachable" -> Response("302", "nothing")
      [] probe = "discovery" ->
           CASE h.identity = "on"          -> Response("200", "token_endpoint")
             [] h.identity = "no endpoint" -> Response("200", "json")
             [] OTHER                      -> Response("404", "nothing")
      [] probe = "client" ->
           IF h.identity = "off" THEN Response("404", "nothing")
           ELSE IF ~h.client THEN Response("400", "invalid_client")
           ELSE IF ~h.grant THEN Response("400", "unauthorized_client")
           ELSE Response("200", "json")
      [] probe = "tenant"              -> Path(h, h.tenant, h.odata, "none")
      [] probe = "version"             -> Path(h, h.version, TRUE, "none")
      [] probe = "tenant with token"   -> Path(h, h.tenant, h.odata, h.token)
      [] probe = "version with token"  -> Path(h, h.version, TRUE, h.token)

ByAnotherSite(h) ==
    CASE h.is = "page" -> Response("200", "html")
      [] h.is = "error page" -> Response("404", "html")
      [] OTHER -> Response("401", "html")

Answers(h, probe) ==
    {NoResponse, Response("500", "nothing")} \union
      {IF h.is = "acumatica" THEN ByAcumatica(h, probe) ELSE ByAnotherSite(h)}

-----------------------------------------------------------------------------
(* checkOidcDiscovery, checkClientCredentials.                             *)
DiscoveryStatus(a) ==
    CASE a.code = "none" -> "fail"
      [] a.code = "200" /\ a.says = "token_endpoint" -> "pass"
      [] a.code = "200" /\ a.says = "json" -> "warn"
      [] OTHER -> "fail"

ClientStatus(a) ==
    CASE a.code = "none" -> "fail"
      [] a.code = "200" \/ a.says \in {"unsupported_grant_type", "unauthorized_client"} -> "pass"
      [] a.says = "invalid_client" \/ a.code = "401" -> "fail"
      [] OTHER -> "warn"

(* checkTenantPath, checkEndpointVersion.  The mutant takes a 401 for a    *)
(* path that is there, as the checks once did.                             *)
PathStatus401Passes(a) ==
    CASE a.code = "none" -> "fail"
      [] a.code \in {"200", "401", "403"} -> "pass"
      [] a.code = "404" -> "fail"
      [] OTHER -> "warn"
PathStatus(a) ==
    CASE a.code = "none" -> "fail"
      [] a.code = "200" -> "pass"
      [] a.code = "404" -> "fail"
      [] OTHER -> "warn"

(* interpretTenantAuthed, interpretEndpointAuthed, and the network error   *)
(* that runAuthenticatedChecks does not take for a failure.                *)
PathStatusWithToken(a) ==
    CASE a.code = "200" -> "pass"
      [] a.code = "404" -> "fail"
      [] OTHER -> "warn"

Status(probe, a) ==
    CASE probe = "reachable" -> IF a.code = "none" THEN "fail" ELSE "pass"
      [] probe = "discovery" -> DiscoveryStatus(a)
      [] probe = "client" -> ClientStatus(a)
      [] probe \in {"tenant", "version"} -> PathStatus(a)
      [] OTHER -> PathStatusWithToken(a)

(* A probe whose settings are missing is skipped.                          *)
Needs(probe) ==
    CASE probe \in {"reachable", "discovery"} -> {"url"}
      [] probe = "client" -> {"url", "id", "secret"}
      [] probe \in {"tenant", "tenant with token"} -> {"url", "tenant"}
      [] OTHER -> {"url", "version"}
Asked(probes) == {p \in probes : Needs(p) \subseteq host'.set}

(* Every request of one click is made by itself; each gets its answer.     *)
Probe(probes) ==
    \E answer \in [Asked(probes) -> UNION {Answers(host', p) : p \in Asked(probes)}] :
      /\ \A p \in Asked(probes) : answer[p] \in Answers(host', p)
      /\ shown' = [p \in DOMAIN shown \union probes |->
                     IF p \in Asked(probes) THEN Status(p, answer[p])
                     ELSE IF p \in probes THEN "skip" ELSE shown[p]]
      /\ unreachable' =
           (unreachable \ probes) \union {p \in Asked(probes) : answer[p] = NoResponse}

-----------------------------------------------------------------------------
NoHost == [is |-> "none"]
PreflightInit == host = NoHost /\ shown = << >> /\ unreachable = {}

(* runPreflight.                                                           *)
RunPreflight ==
    /\ host = NoHost
    /\ host' \in Hosts
    /\ Probe({"reachable"} \union Unauthenticated)

(* POST /preflight/authed-checks, with the token of a user; a token that   *)
(* is not `ok' gives no row.  With no tenant set there is no request.      *)
RunAuthenticatedChecks ==
    /\ host # NoHost /\ host.token # "none" /\ {"url", "tenant"} \subseteq host.set
    /\ Authenticated \intersect DOMAIN shown = {}
    /\ UNCHANGED host
    /\ Probe(IF "version" \in host.set THEN Authenticated ELSE {"tenant with token"})

PreflightNext == RunPreflight \/ RunAuthenticatedChecks
PreflightSpec == PreflightInit /\ [][PreflightNext]_preflightVars
-----------------------------------------------------------------------------
(* What the value that a check is about is in truth.                       *)
Right(probe) ==
    CASE probe \in {"reachable"} -> TRUE
      [] probe = "discovery" -> host.is = "acumatica" /\ host.identity = "on"
      [] probe = "client" -> host.client
      [] probe \in {"tenant", "tenant with token"} -> host.tenant
      [] OTHER -> host.version

(* preflight.ts:225-229, 256-259: a value that a check passes is right, if *)
(* the host is an Acumatica at all, as discovery finds out; and a value    *)
(* that a check fails, though its request was answered, is wrong.          *)
(* Discovery itself fails whenever it is not answered with 200.            *)
PreflightHonest ==
    \A p \in DOMAIN shown :
       /\ shown[p] = "pass" /\ shown["discovery"] = "pass" => Right(p)
       /\ shown[p] = "fail" /\ p \notin unreachable \union {"discovery"}
            /\ host.is = "acumatica" => ~Right(p)
=============================================================================
