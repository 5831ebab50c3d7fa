----------------------------- MODULE MCGiAlign -----------------------------
EXTENDS GiAlign
Props == {"P1", "P2", "P3", "K"}
Own == <<"P1", "P2", "P3">>
NoLikes == [p \in Props |-> "none"]
Plain(c) == [column |-> c, line |-> 4 - c, sort |-> c, active |-> "yes", captioned |-> FALSE,
             names |-> {}, family |-> "none", likes |-> NoLikes]

(* The properties of the active columns, of which `first' were hoisted.    *)
Layout(first, columns) ==
    LET rest == SetToSortSeq(columns \ ToSet(first), <)
    IN  [i \in DOMAIN first |-> Own[first[i]]] \o [i \in DOMAIN rest |-> Own[rest[i]]] \o <<"K">>

FeedOf(rows, first, columns, types) ==
    [rows |-> rows, order |-> Layout(first, columns),
     keys |-> {Own[first[i]] : i \in DOMAIN first} \union {"K"},
     types |-> [p \in Props |-> types[p]],
     owner |-> [p \in {Own[c] : c \in columns} \union {"K"} |->
                  IF p = "K" THEN 0 ELSE CHOOSE c \in columns : Own[c] = p]]

Text == [p \in Props |-> "string"]

(* Rows in any order, one of them twice, some inactive, without flags,     *)
(* numbers or sort orders; the keys captioned or not.                      *)
FeedsOfDesigns ==
    UNION {{FeedOf([i \in 1..Len(order) |->
                LET c == order[i]
                IN  [Plain(c) EXCEPT
                       !.active = IF flags = "none" THEN "absent"
                                  ELSE IF c \in columns THEN "yes" ELSE "no",
                       !.line = IF numbered THEN @ ELSE Unnumbered,
                       !.sort = IF sorted THEN @ ELSE Unnumbered,
                       !.captioned = captions /\ c \in ToSet(first),
                       !.names = IF captions /\ c \in ToSet(first) THEN {Own[c]} ELSE {}]],
              first, columns, Text) :
            order \in {<<1, 2, 3>>, <<3, 1, 2>>, <<2, 3, 2, 1>>, <<1, 3, 2, 1>>},
            first \in {<< >>} \union {<<c>> : c \in columns}
                      \union {<<c, d>> : c, d \in {e \in columns : Cardinality(columns) = 3}},
            flags \in {"set", "none"}, numbered \in BOOLEAN, sorted \in BOOLEAN,
            captions \in BOOLEAN} : columns \in SUBSET (1..3) \ {{}}}

Liked(c, one, other) ==
    [Plain(c) EXCEPT !.likes = [p \in Props |-> IF p = one THEN "same"
                                                ELSE IF p = other THEN "part" ELSE "none"]]
CaptionedAs(c, names) == [Plain(c) EXCEPT !.captioned = TRUE, !.names = names]
Numeric(c) == [Plain(c) EXCEPT !.family = "numeric"]
AnyProp == {"P1", "P2", "P3"}
RowsFor(c) ==
    {Plain(c), Numeric(c), CaptionedAs(c, {Own[c]}), CaptionedAs(c, {"P1", "P2"})}
      \union {Liked(c, p, q) : p \in AnyProp, q \in AnyProp \union {"none"}}
FewRowsFor(c) == {Plain(c), Numeric(c), CaptionedAs(c, {Own[c]}), Liked(c, "P1", "P2"), Liked(c, "P3", "none")}

FeedsOfLikenesses ==
    {FeedOf(<<a, b, c>>, first, {1, 2, 3}, [Text EXCEPT !["P2"] = t]) :
        a \in RowsFor(1), b \in RowsFor(2), c \in FewRowsFor(3),
        first \in {<< >>, <<1>>, <<3>>, <<2>>, <<1, 2>>, <<3, 1>>},
        t \in {"string", "decimal"}}

MCFeeds ==
    [design |-> {f \in FeedsOfDesigns : Cardinality(ToSet(f.order)) = Len(f.order)},
     likeness |-> FeedsOfLikenesses]
=============================================================================
