------------------------------ MODULE GiAlign ------------------------------
(***************************************************************************)
(* How src/src/lib/gi-registry.ts joins the design rows of a generic       *)
(* inquiry (feed MCPGIFields) to the properties that OData $metadata       *)
(* declares for it.  The join is by position; captions, declared types and *)
(* likeness of names decide which leading properties are keys that were    *)
(* moved to the front, and where they decide nothing no property is        *)
(* annotated.                                                              *)
(***************************************************************************)
EXTENDS Integers, SequencesExt

CONSTANTS
    Feeds,         \* what the build may be given, sort by sort, see FeedType
    Unnumbered     \* Number.MAX_SAFE_INTEGER

VARIABLES
    feed,          \* the rows and the metadata of one inquiry
    fields         \* what the registry says of its properties

alignVars == <<feed, fields>>

-----------------------------------------------------------------------------
(* A row: the column of the design it describes; LineNbr and SortOrder, or *)
(* Unnumbered; the active flag; the properties its caption names, if it    *)
(* has one; the family of types its source field suggests; and how its     *)
(* source field resembles a property's name.                               *)
Likenesses == {"none", "token", "part", "same"}
Families == {"none", "datetime", "boolean", "numeric", "text"}

RowOf(props) ==
    [column: Nat \ {0}, line: 0..Unnumbered, sort: 0..Unnumbered,
     active: {"yes", "no", "absent"},
     captioned: BOOLEAN, names: SUBSET props, family: Families,
     likes: [props -> Likenesses]]

(* The metadata: the properties in order, the keys among them, and the     *)
(* declared types; no property where the inquiry has no entity type.       *)
(* `owner' is no part of it: the column that a property is of in truth, 0  *)
(* for a key that is no column.                                            *)
FeedType(f) ==
    LET props == DOMAIN f.types
    IN  /\ f.rows \in Seq(RowOf(props))
        /\ f.order \in Seq(props) /\ IsInjective(f.order) /\ f.keys \subseteq props
        /\ f.types \in [props -> {"integer", "decimal", "boolean", "datetime",
                                  "string", "none"}]
        /\ f.owner \in [ToSet(f.order) -> Nat]

ASSUME FeedAssumption ==
    Unnumbered \in Nat /\ \A sort \in DOMAIN Feeds : \A f \in Feeds[sort] : FeedType(f)

NoFeed == [rows |-> << >>, order |-> << >>, keys |-> {}, types |-> << >>, owner |-> << >>]
Bare(status) == [status |-> status, annotated |-> << >>]

-----------------------------------------------------------------------------
(* isActiveRow, hasActiveFlag, sortOrder.                                  *)
Active(row) == row.active # "no"
Flagged(row) == row.active # "absent"
SortOrder(row) == IF row.sort = Unnumbered THEN row.line ELSE row.sort

(* gridOrderedRows: of the rows with one LineNbr the last stays; the rest  *)
(* in grid order, rows without a number in the order of the feed.          *)
Kept(rows) ==
    {k \in DOMAIN rows :
        /\ Active(rows[k])
        /\ rows[k].line # Unnumbered =>
              \A j \in DOMAIN rows : j > k => rows[j].line # rows[k].line}

Before(rows, j, k) ==
    LET a == rows[j]
        b == rows[k]
    IN  \/ SortOrder(a) < SortOrder(b)
        \/ SortOrder(a) = SortOrder(b) /\ a.line < b.line
        \/ SortOrder(a) = SortOrder(b) /\ a.line = b.line /\ j < k
Place(rows, k) == 1 + Cardinality({j \in Kept(rows) : Before(rows, j, k)})

GridOrdered(rows) ==
    [i \in 1..Cardinality(Kept(rows)) |-> rows[CHOOSE k \in Kept(rows) : Place(rows, k) = i]]

-----------------------------------------------------------------------------
(* columnScore.  A caption is a constraint, and so is a declared type that *)
(* the source field cannot have; likeness breaks ties.                     *)
VIOLATION == -1000000

TypeConflicts(family, type) ==
    /\ family # "none" /\ type \notin {"none", "integer"}
    /\ CASE family = "numeric" -> type # "decimal"
         [] family = "text"    -> type \in {"decimal", "boolean", "datetime"}
         [] OTHER              -> type # family

Likeness == [none |-> 0, token |-> 1, part |-> 3, same |-> 10]

Score(row, prop, types) ==
    IF row.captioned THEN IF prop \in row.names THEN 100 ELSE VIOLATION
    ELSE IF TypeConflicts(row.family, types[prop]) THEN VIOLATION
    ELSE Likeness[row.likes[prop]]

(* An entry of either table: the best score, the number of ways to it,     *)
(* which is 2 if there are more, and one of them.  Dead: there is none.    *)
Entry(score, ways, way) == [score |-> score, ways |-> ways, way |-> way]
Dead == Entry(0, 0, {})

(* relax, for all that a cell may be reached from; the mutant keeps one of *)
(* two equals as if there were no other.                                   *)
Foremost(entries) ==
    LET open == {e \in entries : e.ways > 0}
    IN  {e \in open : \A d \in open : e.score >= d.score}
RelaxedToOne(entries) ==
    IF Foremost(entries) = {} THEN Dead ELSE CHOOSE e \in Foremost(entries) : TRUE
Relaxed(entries) ==
    LET one == CHOOSE e \in Foremost(entries) : TRUE
    IN  IF Foremost(entries) = {} THEN Dead
        ELSE IF Foremost(entries) = {one} THEN one ELSE [one EXCEPT !.ways = 2]

Impossible(entry) == entry.score <= VIOLATION \div 2

(* The first table: which rows are hoisted, from the i-th on, if h were    *)
(* before.  A hoisted row counts as much as it would on the hoisted        *)
(* property that suits it best.  A way is the set of hoisted rows.         *)
BestHoisted(row, hoisted, types) ==
    Max({Score(row, hoisted[j], types) : j \in DOMAIN hoisted})

HoistTable(rows, rest, hoisted, types) ==
    LET n == Len(rows)
        H == Len(hoisted)
        dp[i \in 1..n + 1] ==
          IF i = n + 1 THEN [h \in 0..H |-> IF h = H THEN Entry(0, 1, {}) ELSE Dead]
          ELSE [h \in 0..H |-> Relaxed(
            {Entry(dp[i + 1][h].score + Score(rows[i], rest[j], types),
                   dp[i + 1][h].ways, dp[i + 1][h].way) : j \in {i - h} \intersect DOMAIN rest}
            \union {Entry(dp[i + 1][g].score + BestHoisted(rows[i], hoisted, types),
                          dp[i + 1][g].ways, dp[i + 1][g].way \union {i}) :
                      g \in {h + 1} \intersect 0..H})]
    IN  dp

(* The second: which of the first hoisted rows goes to which of as many    *)
(* hoisted properties.  A way is the sequence of properties they take.     *)
AssignTable(rows, hoisted, types) ==
    LET best[used \in SUBSET DOMAIN hoisted] ==
          IF used = {} THEN Entry(0, 1, << >>)
          ELSE Relaxed({LET before == best[used \ {j}]
                            score == Score(rows[Cardinality(used)], hoisted[j], types)
                        IN  Entry(before.score + score, before.ways,
                                  Append(before.way, hoisted[j])) : j \in used})
    IN  best

(* alignRows: the property each row takes, or nothing where a constraint   *)
(* cannot be met or two ways are equally good.                             *)
Refused == << >>
AlignRows(rows, rest, hoisted, types) ==
    LET first == HoistTable(rows, rest, hoisted, types)[1][0]
        before(i) == Cardinality({m \in first.way : m < i})
        moved == [k \in DOMAIN hoisted |->
                    rows[CHOOSE i \in first.way : before(i) = k - 1]]
        second == AssignTable(moved, hoisted, types)[DOMAIN hoisted]
        placed == [i \in DOMAIN rows |-> IF i \in first.way THEN second.way[before(i) + 1]
                                         ELSE rest[i - before(i)]]
    IN  IF \/ first.ways # 1 \/ Impossible(first)
           \/ second.ways # 1 \/ Impossible(second)
           \/ \E i \in DOMAIN rows : Score(rows[i], placed[i], types) <= VIOLATION \div 2
        THEN Refused ELSE placed

-----------------------------------------------------------------------------
(* resolveFields.  The leading keys among the properties that have a row   *)
(* were hoisted; trailing properties without a row are keys too.  Without  *)
(* metadata the rows are listed by guessed names, and annotate nothing.    *)
Hoisted(head, keys) ==
    LET plain == {i \in DOMAIN head : head[i] \notin keys}
    IN  IF plain = {} THEN head ELSE SubSeq(head, 1, Min(plain) - 1)

ResolveFields(f) ==
    LET rows == GridOrdered(f.rows)
        head == SubSeq(f.order, 1, Len(rows))
        hoisted == Hoisted(head, f.keys)
        placed == AlignRows(rows, SubSeq(head, Len(hoisted) + 1, Len(head)), hoisted, f.types)
    IN  IF rows = << >> THEN Bare("noFieldRows")
        ELSE IF f.order = << >> THEN Bare("noMetadata")
        ELSE IF \A k \in DOMAIN f.rows : ~Flagged(f.rows[k]) THEN Bare("feedMissingActiveFlag")
        ELSE IF Len(f.order) < Len(rows) THEN Bare("feedRowsExceedProperties")
        ELSE IF placed = Refused THEN Bare("alignmentAmbiguous")
        ELSE [status |-> "aligned",
              annotated |-> [p \in ToSet(head) |->
                               rows[CHOOSE i \in DOMAIN rows : placed[i] = p].column]]

AlignInit == feed = NoFeed /\ fields = Bare("unbuilt")

BuildFields ==
    /\ fields.status = "unbuilt"
    /\ \E sort \in DOMAIN Feeds : feed' \in Feeds[sort]
    /\ fields' = ResolveFields(feed')

AlignSpec == AlignInit /\ [][BuildFields]_alignVars
-----------------------------------------------------------------------------
(* The layout of a design, as the comment above resolveFields has it:      *)
(* columns that are keys, the other columns in grid order, other keys.     *)
(* Columns are numbered as the grid has them.                              *)
LaidOut(f) ==
    LET col(i) == f.owner[f.order[i]]
        key(i) == f.order[i] \in f.keys
    IN  \A i, j \in DOMAIN f.order : i < j /\ col(j) # 0 =>
           /\ col(i) # 0 /\ col(i) # col(j)
           /\ ~key(i) => ~key(j) /\ col(i) < col(j)

(* A feed is whole if it has every column of the layout and no other that  *)
(* is active, flagged and ordered as the grid is, and repeats only rows    *)
(* that it numbers; and if it is not so long that likenesses could make up *)
(* for a violation.                                                        *)
Whole(f) ==
    /\ 100 * Len(f.rows) + (VIOLATION \div 2) < 0
    /\ \A k \in DOMAIN f.rows :
          /\ f.rows[k].sort # Unnumbered /\ Flagged(f.rows[k])
          /\ Active(f.rows[k]) <=> \E p \in DOMAIN f.owner : f.owner[p] = f.rows[k].column
    /\ \A p \in DOMAIN f.owner : f.owner[p] # 0 =>
          \E k \in DOMAIN f.rows : f.rows[k].column = f.owner[p]
    /\ \A j, k \in DOMAIN f.rows :
          LET a == f.rows[j]
              b == f.rows[k]
          IN  /\ a.column = b.column => a = b /\ (j # k => a.line # Unnumbered)
              /\ a.line = b.line => a.column = b.column \/ a.line = Unnumbered
              /\ a.column < b.column => a.sort < b.sort \/ (a.sort = b.sort /\ a.line < b.line)

(* No constraint rules a column's own property out, and each column that is *)
(* a key has a caption that names its property and no other.               *)
Captioned(f) ==
    \A k \in DOMAIN f.rows : \A p \in DOMAIN f.owner : f.owner[p] = f.rows[k].column =>
       /\ Score(f.rows[k], p, f.types) >= 0
       /\ p \in f.keys => f.rows[k].captioned /\ f.rows[k].names = {p}

(* Every way to place rows on properties that keeps the order of the rest. *)
Alignments(rows, head, hoisted) ==
    {a \in [DOMAIN rows -> ToSet(head)] :
        /\ \A i, j \in DOMAIN rows : i # j => a[i] # a[j]
        /\ \A i, j \in DOMAIN rows :
              i < j /\ a[i] \notin ToSet(hoisted) /\ a[j] \notin ToSet(hoisted)
                => \E q, r \in DOMAIN head : q < r /\ head[q] = a[i] /\ head[r] = a[j]}

TotalFrom(rows, a, types) ==
    LET sum[i \in 1..Len(rows) + 1] ==
          IF i = Len(rows) + 1 THEN 0 ELSE Score(rows[i], a[i], types) + sum[i + 1]
    IN  sum
Total(rows, a, types) == TotalFrom(rows, a, types)[1]

-----------------------------------------------------------------------------
(* The alignments that do best, and whether the fields are annotated by a. *)
Best ==
    LET rows == GridOrdered(feed.rows)
        head == SubSeq(feed.order, 1, Len(rows))
        all == Alignments(rows, head, Hoisted(head, feed.keys))
    IN  {a \in all : \A b \in all : Total(rows, a, feed.types) >= Total(rows, b, feed.types)}

AnnotatedBy(a) ==
    LET rows == GridOrdered(feed.rows)
    IN  \A i \in DOMAIN rows : fields.annotated[a[i]] = rows[i].column

Breaks(a) ==
    LET rows == GridOrdered(feed.rows)
    IN  \E i \in DOMAIN rows : Score(rows[i], a[i], feed.types) <= VIOLATION \div 2

(* gi-registry.ts:715-728: "a mis-shifted annotation is worse than none".  *)
(* A whole feed whose keys are captioned is annotated, every property with *)
(* its own column.  Otherwise, an annotation is one that breaks no         *)
(* constraint; and where at most one property is hoisted, there is one     *)
(* exactly if a single alignment is the best.                              *)
AlignmentTruthful ==
    fields.status # "unbuilt" =>
      LET rows == GridOrdered(feed.rows)
          head == SubSeq(feed.order, 1, Len(rows))
          hoisted == Hoisted(head, feed.keys)
      IN  /\ LaidOut(feed) /\ Whole(feed) /\ Captioned(feed) /\ rows # << >> =>
               /\ fields.status = "aligned"
               /\ \A p \in DOMAIN fields.annotated : fields.annotated[p] = feed.owner[p]
          /\ fields.status = "aligned" =>
               \E a \in Alignments(rows, head, hoisted) : AnnotatedBy(a) /\ ~Breaks(a)
          /\ fields.status \in {"aligned", "alignmentAmbiguous"} /\ Len(hoisted) <= 1 =>
               (fields.status = "aligned" <=>
                   Cardinality(Best) = 1 /\ \A a \in Best : ~Breaks(a))

(* gi-registry.ts:723-726: "the best alignment must break no constraint,   *)
(* and the optimum must be unique": an annotation is by the only best      *)
(* alignment, however many properties are hoisted.                         *)
OptimumUnique ==
    fields.status = "aligned" => \A a \in Best : AnnotatedBy(a)
=============================================================================
