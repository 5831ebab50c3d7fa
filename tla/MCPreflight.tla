---------------------------- MODULE MCPreflight ----------------------------
EXTENDS Preflight
AHost == [is |-> "acumatica", set |-> Settings, identity |-> "on", client |-> TRUE,
          grant |-> FALSE, tenant |-> TRUE, version |-> TRUE, routesFirst |-> FALSE,
          odata |-> TRUE, token |-> "ok"]
MCHosts ==
    {[AHost EXCEPT !.tenant = tenant, !.version = version, !.routesFirst = first,
                   !.odata = odata, !.token = token] :
        tenant \in BOOLEAN, version \in BOOLEAN, first \in BOOLEAN, odata \in BOOLEAN,
        token \in {"none", "expired", "ok"}}
      \union
    {[AHost EXCEPT !.identity = identity, !.client = client, !.grant = grant, !.token = "none"] :
        identity \in {"on", "no endpoint", "off"}, client \in BOOLEAN, grant \in BOOLEAN}
      \union
    {[AHost EXCEPT !.is = is, !.tenant = FALSE, !.set = set, !.token = "none"] :
        is \in {"acumatica", "page", "error page", "login page"},
        set \in {Settings, Settings \ {"url"}, Settings \ {"tenant"}, Settings \ {"version"}}}
=============================================================================
