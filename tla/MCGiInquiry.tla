---------------------------- MODULE MCGiInquiry ----------------------------
EXTENDS GiInquiry

Name(id, key, addressable) == [id |-> id, key |-> key, addressable |-> addressable]
MCNames == {Name("Stock", "stock", TRUE), Name("Sto/ck", "stock", FALSE), Name("Bins", "bins", TRUE)}
MCAsked == MCNames \union {Name("STOCK", "stock", TRUE), Name("MCPGIs", "mcpgis", TRUE)}

Param(name, low, required, type) ==
    [name |-> name, low |-> low, required |-> required, type |-> type]
Site == <<Param("Site", "site", FALSE, "text")>>
Member(name, low, form, fits) == [name |-> name, low |-> low, form |-> form, fits |-> fits]
Object(members) == [is |-> "object", members |-> members]
NoArg == [is |-> "absent", members |-> << >>]

Copy(functions) == [read |-> TRUE, functions |-> functions]
NoCopy == [read |-> FALSE, functions |-> << >>]
NoRegistry == [built |-> FALSE, params |-> << >>]
RegistryWith(names) ==
    [built |-> TRUE, params |-> [n \in MCNames |-> IF n \in names THEN Site ELSE << >>]]

Bins == Name("Bins", "bins", TRUE)
AWorld ==
    [takes |-> << >>, names |-> MCAsked, metadata |-> Copy(<< >>), registry |-> NoRegistry,
     enabled |-> TRUE, asked |-> Bins, arg |-> NoArg,
     filter |-> "none", flagged |-> FALSE, topN |-> {}, maxRecords |-> 2,
     counts |-> FALSE, matching |-> 1, served |-> "rows", cached |-> FALSE]

(* Which inquiries take parameters, what the copies say, which is asked for.*)
Stocks == {n \in MCNames : n.key = "stock"}
Sets == {{}, {Bins}, Stocks}
RoutedWorlds ==
    {[AWorld EXCEPT
        !.takes = [n \in takes |-> [parsed |-> TRUE, params |-> Site]],
        !.metadata = metadata,
        !.registry = registry, !.enabled = enabled, !.asked = asked, !.arg = arg,
        !.cached = cached] :
       takes \in Sets, enabled \in BOOLEAN, asked \in MCAsked,
       metadata \in {NoCopy} \union
          {Copy([n \in listed |-> [parsed |-> n # Bins \/ readable, params |-> Site]]) :
             listed \in Sets \union {{n} : n \in Stocks}, readable \in BOOLEAN},
       registry \in {NoRegistry} \union {RegistryWith(s) : s \in {{}, {Bins}, MCNames}},
       cached \in BOOLEAN,
       arg \in {NoArg, Object(<<Member("site", "site", "scalar", {"text"})>>)}}

(* What the model may give for two parameters whose names may differ by    *)
(* case alone.                                                             *)
MCMembers ==
    {Member(key[1], key[2], value[1], value[2]) :
        key \in {<<"Site", "site">>, <<"site", "site">>, <<"Day", "day">>, <<"Qty", "qty">>},
        value \in {<<"null", {}>>, <<"blank", {"text"}>>, <<"list", {}>>,
                   <<"scalar", {"text"}>>, <<"scalar", {"text", "date"}>>}}
MCArgs ==
    {[NoArg EXCEPT !.is = is] : is \in {"absent", "garbled", "no object", "object"}}
      \union {Object(<<m>>) : m \in MCMembers}
      \union {Object(pair) :
                pair \in {p \in MCMembers \X MCMembers : p[1].name # p[2].name}}

GivenWorlds ==
    {LET function == [parsed |-> TRUE, params |-> <<first, second>>]
     IN  [AWorld EXCEPT !.takes = [n \in {Bins} |-> function],
                        !.metadata = Copy([n \in {Bins} |-> function]), !.arg = arg,
                        !.served = served] :
       first \in {Param("Site", "site", r, "text") : r \in BOOLEAN},
       second \in {Param("site", "site", FALSE, "date"), Param("Day", "day", TRUE, "date"),
                   Param("Day", "day", FALSE, "other")},
       arg \in MCArgs, served \in {"rows", "404"}}

ServedWorlds ==
    {[AWorld EXCEPT !.filter = filter, !.flagged = flagged, !.topN = topN,
                    !.maxRecords = most, !.counts = counts, !.matching = matching,
                    !.served = served] :
       filter \in {"none", "stored", "calculated", "wrong"}, flagged \in BOOLEAN,
       topN \in {{}, {0}, {1}, {3}}, most \in 1..2, counts \in BOOLEAN, matching \in 0..3,
       served \in {"rows", "404", "error"}}

MCWorlds == [routed |-> RoutedWorlds, given |-> GivenWorlds, served |-> ServedWorlds]
MCExcluded == {"MCPGIs"}
=============================================================================
