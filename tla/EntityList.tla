---------------------------- MODULE EntityList ----------------------------
(***************************************************************************)
(* acumatica_list_entities: src/src/tools/entity-list.ts with lib/odata-   *)
(* filter.ts and lib/complex-entities.ts.  Acumatica's contract API counts *)
(* no rows, and answers some filters with an empty set and no error, so    *)
(* the tool has to say when its rows may not be all there are.             *)
(***************************************************************************)
EXTENDS Naturals, Sequences, FiniteSetsExt

CONSTANTS
    Lists,         \* the calls the tool may get, see ListType
    DefaultRows    \* topN when the model gives none

VARIABLES
    list,          \* the call, and what Acumatica would do with it
    listed         \* what the tool replied

listVars == <<list, listed>>

-----------------------------------------------------------------------------
(* An entity: denied; or complex, with the key field known or not; or none *)
(* of these.  A clause of a filter tests the key field for equality, is a  *)
(* string function alone or compared with true or false, or is something   *)
(* else; a function's literal may have a parenthesis in it.                *)
Entities == {"none", "path", "denied", "keyed", "keyless", "other"}
Clauses ==
    [test: {"key"}, paren: {FALSE}] \union [test: {"other"}, paren: {FALSE}]
      \union [test: {"bare", "true", "false"}, paren: BOOLEAN]
Filters == [join: {"and", "or"}, clauses: Seq(Clauses)]
NoFilter == [join |-> "and", clauses |-> << >>]

(* `matching' rows in truth.  `fails' is how Acumatica answers this query: *)
(* not with rows where it cannot bind the filter, or the $select, or for   *)
(* another reason.  `drops': it cannot optimise the filter and says so by  *)
(* an empty set.                                                           *)
ListType(l) ==
    /\ l.entity \in Entities /\ l.filter \in Filters
    /\ l.short \in BOOLEAN /\ l.expand \in {"none", "single", "nested"}
    /\ l.select \in BOOLEAN /\ l.maxRows \in Nat \ {0}
    /\ l.topN \in SUBSET Nat /\ \A m, n \in l.topN : m = n
    /\ l.matching \in Nat /\ l.drops \in BOOLEAN
    /\ l.fails \in {"no", "collection", "filter", "select", "other"}

ASSUME ListAssumption == DefaultRows \in Nat /\ \A l \in Lists : ListType(l)

Nothing == [kind |-> "none"]
Failed(why) == [kind |-> "error", why |-> why]
RowsWith(rows, word) == [kind |-> "rows", rows |-> rows, word |-> word]

-----------------------------------------------------------------------------
(* normalizeODataFilter: `eq true' behind a function is taken off, unless  *)
(* there is a parenthesis between the function's own.                      *)
Normal(filter) ==
    [filter EXCEPT !.clauses =
        [i \in DOMAIN filter.clauses |->
           LET c == filter.clauses[i]
           IN  IF c.test = "true" /\ ~c.paren THEN [c EXCEPT !.test = "bare"] ELSE c]]

(* isKeyedFilter, with the entity's key field, if that is known.           *)
KeyedFilter(l) ==
    l.entity = "keyed" /\ \E i \in DOMAIN l.filter.clauses : l.filter.clauses[i].test = "key"

(* Acumatica: no row matches a function compared with a literal, and none  *)
(* a filter that it drops.                                                 *)
ComparesFunction(filter) ==
    \E i \in DOMAIN filter.clauses : filter.clauses[i].test \in {"true", "false"}
Served(l, top) ==
    IF ComparesFunction(Normal(l.filter)) \/ l.drops THEN 0 ELSE Min({l.matching, top})

Top(l) == Min({IF l.topN = {} THEN DefaultRows ELSE Max(l.topN), l.maxRows})

(* The mutant takes a full page for all there is.                          *)
FullWhenOver(rows, top) == rows > top
Full(rows, top) == rows >= top

(* A failure of the filter comes before the retry without $select, and the *)
(* retry's rows are given without a word on whether they are all.          *)
AfterFailure(l) ==
    CASE l.filter # NoFilter /\ l.fails = "collection" -> Failed("child_collection")
      [] l.filter # NoFilter /\ l.fails = "filter"     -> Failed("not_filterable")
      [] l.select /\ l.fails = "select"                -> RowsWith(Served(l, Top(l)), "unselected")
      [] OTHER                                         -> Failed("thrown")

(* handleListEntities.                                                     *)
ListEntities(l) ==
    LET rows == Served(l, Top(l))
    IN  IF l.entity \in {"none", "path"} THEN Failed("entityName")
        ELSE IF ~l.short THEN Failed("length")
        ELSE IF l.entity = "denied" THEN Failed("denied")
        ELSE IF l.expand = "nested" THEN Failed("expand")
        ELSE IF l.fails # "no" THEN AfterFailure(l)
        ELSE IF /\ l.entity \in {"keyed", "keyless"} /\ rows = 0
                /\ l.filter # NoFilter /\ ~KeyedFilter(l)
             THEN RowsWith(0, "possible_miss")
        ELSE IF Full(rows, Top(l)) THEN RowsWith(rows, "truncated")
        ELSE RowsWith(rows, "none")

-----------------------------------------------------------------------------
NoList == [entity |-> "none"]
ListInit == list = NoList /\ listed = Nothing

CallList ==
    /\ listed = Nothing
    /\ list' \in Lists
    /\ listed' = ListEntities(list')

ListSpec == ListInit /\ [][CallList]_listVars
-----------------------------------------------------------------------------
(* What complex-entities.ts takes for granted: only a complex entity's     *)
(* filter is dropped, and none that a test of the key narrows.             *)
DropsAsDocumented(l) ==
    l.drops => /\ l.entity \in {"keyed", "keyless"} /\ l.filter # NoFilter
               /\ KeyedFilter(l) => l.filter.join = "or"

(* A filter that Acumatica cannot answer and the tool does not repair: a   *)
(* function compared with false, or with true where a literal has a        *)
(* parenthesis; a key test joined to the rest by `or'.                     *)
Unrepaired(l) ==
    ComparesFunction(Normal(l.filter)) \/ (l.drops /\ KeyedFilter(l))

(* entity-list.ts:193-238: rows given without a word of doubt are all the  *)
(* rows that match, and an empty set is never such a word-less reply when  *)
(* Acumatica had dropped the filter.                                       *)
ListComplete ==
    listed.kind = "rows" /\ listed.word = "none"
      /\ DropsAsDocumented(list) /\ ~Unrepaired(list) => listed.rows = list.matching
=============================================================================
