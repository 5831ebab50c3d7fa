--------------------------- MODULE MCEntityList ---------------------------
EXTENDS EntityList

MCFilters ==
    {NoFilter} \union
      {[join |-> j, clauses |-> c] : j \in {"and", "or"},
          c \in {<<a>> : a \in Clauses} \union {<<[test |-> "key", paren |-> FALSE], a>> : a \in Clauses}}

AList ==
    [entity |-> "other", filter |-> NoFilter, short |-> TRUE, expand |-> "none", select |-> FALSE,
     topN |-> {}, maxRows |-> 2, matching |-> 1, drops |-> FALSE, fails |-> "no"]

MCLists ==
    {[AList EXCEPT !.entity = entity, !.short = short, !.expand = expand] :
        entity \in Entities, short \in BOOLEAN, expand \in {"none", "single", "nested"}}
      \union
    {[AList EXCEPT !.entity = entity, !.filter = filter, !.drops = drops, !.matching = matching] :
        entity \in Entities \ {"none", "path"}, filter \in MCFilters, drops \in BOOLEAN, matching \in 0..1}
      \union
    {[AList EXCEPT !.filter = filter, !.select = select, !.fails = fails, !.entity = entity] :
        filter \in {NoFilter, [join |-> "and", clauses |-> <<[test |-> "other", paren |-> FALSE]>>]},
        select \in BOOLEAN, fails \in {"no", "collection", "filter", "select", "other"},
        entity \in {"keyed", "keyless", "other"}}
      \union
    {[AList EXCEPT !.topN = topN, !.maxRows = most, !.matching = matching, !.select = select,
                   !.fails = IF select THEN "select" ELSE "no"] :
        topN \in {{}, {0}, {1}, {3}}, most \in 1..3, matching \in 0..4, select \in BOOLEAN}
=============================================================================
