---------------------------- MODULE GiAlignProofs ----------------------------
(***************************************************************************)
(* Proofs about GiAlign, for any feeds: AlignmentTruthful, which the run   *)
(* handlers checks.  The argument goes by the parts of the property:       *)
(*   - the tables are what their recursion says (HoistTableIs,             *)
(*     AssignTableIs, TotalFromIs), and what they find is a placing of the *)
(*     rows that keeps the order of the rest and breaks no constraint      *)
(*     (HoistCells, AssignCells, PlacedWell, PlacedAligns);                *)
(*   - with one property hoisted or none the first table finds every       *)
(*     alignment that is best, and counts them (LastColumn, FirstColumn,   *)
(*     SinglePlaced, OneHoisted, NoneHoisted);                             *)
(*   - with captions on the keys, whoever else a row could go to is ruled  *)
(*     out by a violation that no likeness makes up for, in both tables    *)
(*     (OwnedFirst, SecondFits, OwnedAligns), and what a whole feed is     *)
(*     aligned by is its own layout (WholeColumns, OwnPlaces, OwnOrder,    *)
(*     OwnPlacing, OwnAnnotation).                                         *)
(***************************************************************************)
EXTENDS GiAlign, FiniteSetTheorems, WellFoundedInduction, TLAPS

-----------------------------------------------------------------------------
(* Of naturals there is a least.                                           *)
LEMMA LeastNatural ==
    ASSUME NEW T \in SUBSET Nat, T # {}
    PROVE  \E n \in T : \A m \in T : n <= m
<1> DEFINE R == {ss \in Nat \X Nat : ss[1] < ss[2]}
<1>1. IsWellFoundedOn(R, Nat)
    BY NatLessThanWellFounded DEF OpToRel
<1>2. \E n \in T : \A m \in T : ~ (<<m, n>> \in R)
  <2> HIDE DEF R
  <2> QED
    BY <1>1, WFMin
<1>3. \A m, n \in Nat : m < n => <<m, n>> \in R
    OBVIOUS
<1>4. PICK n \in T : \A m \in T : ~ (<<m, n>> \in R)
    BY <1>2
<1>5. \A m \in T : n <= m
  <2> HIDE DEF R
  <2>1. SUFFICES ASSUME NEW m \in T, m < n PROVE FALSE
    OBVIOUS
  <2>2. <<m, n>> \in R
    BY <2>1, <1>3
  <2>3. QED
    BY <1>4, <2>2
<1>6. QED
    BY <1>5

LEMMA FirstOf ==
    ASSUME NEW T, T \in SUBSET Nat, T # {}
    PROVE  \E n \in T : n \in Nat /\ \A m \in Nat : m < n => m \notin T
<1>1. PICK n \in T : \A m \in T : n <= m
    BY LeastNatural
<1>2. QED
    BY <1>1

-----------------------------------------------------------------------------
(* The alignment of fields: scores and cells.                              *)

LEMMA ScoreFacts ==
    ASSUME NEW props, NEW row \in RowOf(props), NEW prop \in props, NEW types
    PROVE  LET s == Score(row, prop, types)
           IN  s \in Int /\ s <= 100 /\ (s = VIOLATION \/ s >= 0)
<1>1. Likeness[row.likes[prop]] \in {0, 1, 3, 10}
    BY DEF RowOf, Likeness, Likenesses
<1>2. VIOLATION \in Int /\ VIOLATION <= 100
    BY DEF VIOLATION
<1>3. QED
    BY <1>1, <1>2 DEF Score

LEMMA Halfway == VIOLATION = -1000000 /\ VIOLATION \div 2 = -500000
    BY DEF VIOLATION

Cell(W) == [score: Int, ways: 0..2, way: W]

LEMMA RelaxedFacts ==
    ASSUME NEW W, NEW E, E \subseteq Cell(W), {} \in W
    PROVE  /\ Relaxed(E) \in Cell(W)
           /\ Relaxed(E).ways = 0 \/
              \E e \in E : /\ e.ways > 0 /\ \A d \in E : d.ways > 0 => e.score >= d.score
                           /\ Relaxed(E).score = e.score /\ Relaxed(E).way = e.way
           /\ \A e \in E :
                 e.ways > 0 /\ (\A d \in E : d.ways > 0 => e.score >= d.score) =>
                    /\ Relaxed(E).ways > 0 /\ Relaxed(E).score = e.score
                    /\ Relaxed(E).ways = 1 <=>
                          e.ways = 1 /\ \A d \in E : d.ways > 0 /\ d # e => e.score > d.score
                    /\ (\A d \in E : d.ways > 0 /\ d # e => e.score > d.score) =>
                          Relaxed(E) = e
<1> DEFINE F == Foremost(E)
           one == CHOOSE e \in F : TRUE
<1>1. F = {e \in E : e.ways > 0 /\ \A d \in E : d.ways > 0 => e.score >= d.score}
    BY DEF Foremost
<1>2. F = {} => Relaxed(E) = Dead
    BY DEF Relaxed
<1>3. F # {} => /\ one \in F
                /\ Relaxed(E) = IF F = {one} THEN one ELSE [one EXCEPT !.ways = 2]
    BY DEF Relaxed
<1>4. Dead \in Cell(W) /\ Dead.ways = 0
    BY DEF Dead, Entry, Cell
<1> HIDE DEF F, one
<1>5. CASE F = {}
    BY <1>1, <1>2, <1>4, <1>5
<1>6. CASE F # {}
  <2>1. one \in E /\ one \in Cell(W) /\ one.ways > 0
        /\ \A d \in E : d.ways > 0 => one.score >= d.score
    BY <1>1, <1>3, <1>6
  <2>2. /\ Relaxed(E) \in Cell(W) /\ Relaxed(E).score = one.score
        /\ Relaxed(E).way = one.way
        /\ Relaxed(E).ways = IF F = {one} THEN one.ways ELSE 2
        /\ Relaxed(E) = one <=> F = {one} \/ one.ways = 2
    BY <1>3, <1>6, <2>1 DEF Cell
  <2>3. ASSUME NEW e \in E, e.ways > 0, \A d \in E : d.ways > 0 => e.score >= d.score
        PROVE  /\ Relaxed(E).ways > 0 /\ Relaxed(E).score = e.score
               /\ (\A d \in E : d.ways > 0 /\ d # e => e.score > d.score) <=> F = {e}
               /\ F = {e} => one = e
               /\ Relaxed(E).ways = 1 <=> F = {e} /\ e.ways = 1
    <3>1. e \in F /\ e.score = one.score /\ e \in Cell(W)
        BY <1>1, <2>1, <2>3 DEF Cell
    <3>2. \A d \in E : d \in F <=> d.ways > 0 /\ d.score = e.score
        BY <1>1, <2>3, <3>1 DEF Cell
    <3>3. (\A d \in E : d.ways > 0 /\ d # e => e.score > d.score) <=> F = {e}
      <4>1. \A d \in E : d.ways > 0 => e.score \in Int /\ d.score \in Int /\ e.score >= d.score
        BY <2>3 DEF Cell
      <4>2. F = {e} <=> \A d \in F : d = e
        BY <3>1
      <4>3. F \subseteq E
        BY <1>1
      <4>4. QED
        BY <3>2, <4>1, <4>2, <4>3
    <3>4. Relaxed(E).ways > 0 /\ Relaxed(E).score = e.score
        BY <2>1, <2>2, <3>1
    <3>5. F = {e} => one = e
        BY <1>3, <1>6
    <3>6. Relaxed(E).ways = 1 <=> F = {e} /\ e.ways = 1
        BY <2>1, <2>2, <3>1, <3>5
    <3>7. QED
        BY <3>3, <3>4, <3>5, <3>6
  <2>4. \A e \in E : F = {e} => Relaxed(E) = e
    BY <1>3
  <2>5. QED
    BY <2>1, <2>2, <2>3, <2>4
<1>7. QED
    BY <1>5, <1>6

(* Downwards and by size: what holds at the end and passes on, holds.      *)
LEMMA DownwardInduction ==
    ASSUME NEW n \in Nat, NEW S, n + 1 \in S, \A i \in 1..n : i + 1 \in S => i \in S
    PROVE  \A i \in 1..n + 1 : i \in S
<1> DEFINE T == {d \in Nat : d <= n /\ n + 1 - d \notin S}
<1>1. SUFFICES ASSUME NEW i \in 1..n + 1, i \notin S PROVE FALSE
    OBVIOUS
<1>2. n + 1 - i \in T
    BY <1>1
<1>3. PICK d \in T : d \in Nat /\ \A m \in Nat : m < d => m \notin T
  <2>1. T \in SUBSET Nat /\ T # {}
    BY <1>2
  <2> HIDE DEF T
  <2>2. QED
    BY <2>1, FirstOf
<1>4. d # 0
    BY <1>3
<1>5. d - 1 \in Nat /\ d - 1 \notin T /\ n + 1 - d \in 1..n /\ n + 1 - (d - 1) = n + 1 - d + 1
    BY <1>3, <1>4
<1>6. n + 1 - d + 1 \in S
    BY <1>5
<1>7. QED
    BY <1>3, <1>5, <1>6

BySize(D, S) ==
    \A used \in SUBSET D : used # {} /\ (\A j \in used : used \ {j} \in S) => used \in S

LEMMA SubsetInduction ==
    ASSUME NEW D, IsFiniteSet(D), NEW S, {} \in S, BySize(D, S)
    PROVE  \A used \in SUBSET D : used \in S
<1> DEFINE T == {k \in Nat : \E used \in SUBSET D : Cardinality(used) = k /\ used \notin S}
<1>1. SUFFICES ASSUME NEW used \in SUBSET D, used \notin S PROVE FALSE
    OBVIOUS
<1>2. \A u \in SUBSET D : IsFiniteSet(u) /\ Cardinality(u) \in Nat
    BY FS_Subset, FS_CardinalityType
<1>3. PICK k \in T : k \in Nat /\ \A m \in Nat : m < k => m \notin T
  <2>1. T \in SUBSET Nat /\ T # {}
    BY <1>1, <1>2
  <2> HIDE DEF T
  <2>2. QED
    BY <2>1, FirstOf
<1>4. PICK u \in SUBSET D : Cardinality(u) = k /\ u \notin S
    BY <1>3
<1>5. ASSUME NEW j \in u PROVE u \ {j} \in S
  <2>1. Cardinality(u \ {j}) = k - 1 /\ u \ {j} \in SUBSET D
    BY <1>2, <1>4, FS_RemoveElement
  <2>2. k - 1 \in Nat /\ k - 1 \notin T
    BY <1>2, <1>3, <2>1
  <2>3. QED
    BY <2>1, <2>2
<1>6. u # {}
    BY <1>4
<1>7. QED
    BY <1>4, <1>5, <1>6 DEF BySize

(* Of integers that none exceeds 100 there is a largest.                   *)
LEMMA LargestIsMax ==
    ASSUME NEW S \in SUBSET Int, S # {}, \A s \in S : s <= 100
    PROVE  Max(S) \in S /\ \A s \in S : Max(S) >= s
<1> DEFINE T == {100 - s : s \in S}
<1>1. T \in SUBSET Nat /\ T # {}
    OBVIOUS
<1>2. PICK n \in T : \A m \in T : n <= m
  <2> HIDE DEF T
  <2> QED
    BY <1>1, LeastNatural
<1>3. PICK s \in S : n = 100 - s
    BY <1>2
<1>4. ASSUME NEW r \in S PROVE s >= r
  <2>1. 100 - r \in T
    OBVIOUS
  <2>2. n <= 100 - r
    BY <1>2, <2>1
  <2>3. QED
    BY <1>3, <2>2
<1>5. QED
    BY <1>4 DEF Max

(* In a finite set with a strict order, the ranks are all the numbers      *)
(* below the cardinality.                                                  *)
Orders(R, S) ==
    /\ \A d \in S : <<d, d>> \notin R
    /\ \A c, d, e \in S : <<c, d>> \in R /\ <<d, e>> \in R => <<c, e>> \in R
    /\ \A d, e \in S : d = e \/ <<d, e>> \in R \/ <<e, d>> \in R
Under(R, S, e) == Cardinality({d \in S : <<d, e>> \in R})

RanksFill(R, S) ==
    /\ Cardinality(S) \in Nat
    /\ \A e \in S : Under(R, S, e) \in 0..Cardinality(S) - 1
    /\ \A d, e \in S : <<d, e>> \in R <=> Under(R, S, d) < Under(R, S, e)
    /\ \A d, e \in S : Under(R, S, d) = Under(R, S, e) => d = e
    /\ \A k \in 0..Cardinality(S) - 1 : \E e \in S : Under(R, S, e) = k

LEMMA OrderedRanks ==
    ASSUME NEW S, IsFiniteSet(S), NEW R, Orders(R, S)
    PROVE  RanksFill(R, S)
<1> DEFINE n == Cardinality(S)
           below(e) == {d \in S : <<d, e>> \in R}
           rank == [e \in S |-> Under(R, S, e)]
<1>1. n \in Nat
    BY FS_CardinalityType
<1>2. ASSUME NEW e \in S PROVE IsFiniteSet(below(e)) /\ Under(R, S, e) \in 0..n - 1
  <2>1. IsFiniteSet(S \ {e}) /\ Cardinality(S \ {e}) = n - 1
    BY <1>1, FS_RemoveElement
  <2>2. below(e) \in SUBSET (S \ {e})
    BY DEF Orders
  <2>3. IsFiniteSet(below(e)) /\ Cardinality(below(e)) <= n - 1
    <3> HIDE DEF below
    <3>1. IsFiniteSet(below(e)) /\ Cardinality(below(e)) <= Cardinality(S \ {e})
        BY <2>1, <2>2, FS_Subset
    <3>2. QED
        BY <2>1, <3>1
  <2>4. Cardinality(below(e)) \in Nat
    BY <2>3, FS_CardinalityType
  <2>5. QED
    BY <1>1, <2>3, <2>4 DEF Under
<1>3. \A e \in S : Under(R, S, e) \in 0..n - 1 /\ Under(R, S, e) \in Int
  <2> HIDE DEF below, n
  <2>1. \A e \in S : Under(R, S, e) \in 0..n - 1
    BY <1>2
  <2>2. QED
    BY <1>1, <2>1
<1>4. ASSUME NEW d \in S, NEW e \in S, <<d, e>> \in R PROVE Under(R, S, d) < Under(R, S, e)
  <2>1. below(d) \in SUBSET below(e) /\ d \in below(e) /\ d \notin below(d)
    BY <1>4 DEF Orders
  <2>2. Cardinality(below(d)) <= Cardinality(below(e)) /\ Cardinality(below(d)) # Cardinality(below(e))
    <3> HIDE DEF below
    <3>1. IsFiniteSet(below(e))
        BY <1>2
    <3>2. QED
        BY <2>1, <3>1, FS_Subset
  <2>3. Under(R, S, d) = Cardinality(below(d)) /\ Under(R, S, e) = Cardinality(below(e))
    BY DEF Under
  <2>4. Under(R, S, d) \in Int /\ Under(R, S, e) \in Int
    BY <1>3
  <2> HIDE DEF below
  <2>5. QED
    BY <2>2, <2>3, <2>4
<1>5. ASSUME NEW d \in S, NEW e \in S
      PROVE  /\ <<d, e>> \in R <=> Under(R, S, d) < Under(R, S, e)
             /\ Under(R, S, d) = Under(R, S, e) => d = e
  <2>1. d = e \/ <<d, e>> \in R \/ <<e, d>> \in R
    BY DEF Orders
  <2>2. Under(R, S, d) \in Int /\ Under(R, S, e) \in Int
    BY <1>3
  <2>3. QED
    BY <1>4, <2>1, <2>2
<1>6. rank \in Injection(S, 0..n - 1)
    BY <1>3, <1>5 DEF Injection, IsInjective
<1>7. IsFiniteSet(0..n - 1) /\ Cardinality(0..n - 1) = n
    BY <1>1, FS_Interval
<1>8. rank \in Surjection(S, 0..n - 1)
  <2> HIDE DEF rank
  <2> QED
    BY <1>6, <1>7, FS_Injection
<1>9. \A k \in 0..n - 1 : \E e \in S : rank[e] = k
  <2> HIDE DEF rank
  <2> QED
    BY <1>8 DEF Surjection
<1>10. QED
    BY <1>1, <1>3, <1>5, <1>9 DEF RanksFill

-----------------------------------------------------------------------------
(* What the tables hold.  HoistTable is filled from the last row, and each *)
(* cell from two of the row after it.                                      *)
Onward(rows, rest, hoisted, types, next, i, h) ==
    {Entry(next[h].score + Score(rows[i], rest[j], types), next[h].ways, next[h].way) :
        j \in {i - h} \intersect DOMAIN rest}
    \union {Entry(next[g].score + BestHoisted(rows[i], hoisted, types),
                  next[g].ways, next[g].way \union {i}) :
              g \in {h + 1} \intersect 0..Len(hoisted)}

LEMMA HoistTableIs ==
    ASSUME NEW rows, NEW rest, NEW hoisted, NEW types, Len(rows) \in Nat
    PROVE  LET n == Len(rows)
               H == Len(hoisted)
               dp == HoistTable(rows, rest, hoisted, types)
           IN  /\ \A h \in 0..H : dp[n + 1][h] = IF h = H THEN Entry(0, 1, {}) ELSE Dead
               /\ \A i \in 1..n : \A h \in 0..H :
                     dp[i][h] = Relaxed(Onward(rows, rest, hoisted, types, dp[i + 1], i, h))
<1> DEFINE n == Len(rows)
           H == Len(hoisted)
           last == [h \in 0..H |-> IF h = H THEN Entry(0, 1, {}) ELSE Dead]
           at(f, k) == IF k = n + 1 THEN last
                       ELSE [h \in 0..H |->
                               Relaxed(Onward(rows, rest, hoisted, types, f[k + 1], k, h))]
           dp == HoistTable(rows, rest, hoisted, types)
           S == {i \in 1..n + 1 : \E f : f = [k \in i..n + 1 |-> at(f, k)]}
<1>1. n + 1 \in S
  <2> DEFINE f == [k \in n + 1..n + 1 |-> last]
  <2>1. f = [k \in n + 1..n + 1 |-> at(f, k)]
    OBVIOUS
  <2> HIDE DEF f
  <2>2. QED
    BY <2>1
<1>2. ASSUME NEW i \in 1..n, i + 1 \in S PROVE i \in S
  <2>1. PICK g : g = [k \in i + 1..n + 1 |-> at(g, k)]
    BY <1>2
  <2> DEFINE f == [k \in i..n + 1 |-> IF k = i THEN at(g, i) ELSE g[k]]
  <2>2. ASSUME NEW k \in i..n + 1 PROVE f[k] = at(f, k)
    <3>1. k # n + 1 => f[k + 1] = g[k + 1]
      <4> HIDE DEF at
      <4> QED
        OBVIOUS
    <3>2. at(f, k) = at(g, k)
      <4> HIDE DEF f
      <4> QED
        BY <3>1
    <3>3. k # i => g[k] = at(g, k)
      <4> HIDE DEF at
      <4>1. k # i => k \in i + 1..n + 1
        OBVIOUS
      <4> QED
        BY <2>1, <4>1
    <3>4. QED
      <4> HIDE DEF at
      <4> QED
        BY <3>2, <3>3
  <2>3. f = [k \in i..n + 1 |-> at(f, k)]
    <3> HIDE DEF at
    <3>1. f = [k \in i..n + 1 |-> f[k]]
        OBVIOUS
    <3> HIDE DEF f
    <3>2. QED
        BY <2>2, <3>1
  <2>4. i \in 1..n + 1
    OBVIOUS
  <2> HIDE DEF f, at
  <2>5. QED
    BY <2>3, <2>4
<1>3. 1 \in S
  <2> HIDE DEF S, n
  <2> QED
    BY <1>1, <1>2, DownwardInduction DEF n
<1>4. \E f : f = [k \in 1..n + 1 |-> at(f, k)]
  <2> HIDE DEF at
  <2> QED
    BY <1>3
<1>5. dp = [k \in 1..n + 1 |-> at(dp, k)]
  <2>1. dp = CHOOSE f : f = [k \in 1..n + 1 |-> at(f, k)]
    BY DEF HoistTable, Onward
  <2> HIDE DEF at, dp
  <2>2. QED
    BY <1>4, <2>1
<1>6. \A k \in 1..n + 1 : dp[k] = at(dp, k)
  <2> HIDE DEF dp, at
  <2> QED
    BY <1>5
<1>7. dp[n + 1] = last
  <2>1. n + 1 \in 1..n + 1
    OBVIOUS
  <2>2. dp[n + 1] = at(dp, n + 1)
    <3> HIDE DEF dp, at
    <3> QED
        BY <1>6, <2>1
  <2>3. at(dp, n + 1) = last
    <3> HIDE DEF dp, last
    <3> QED
        OBVIOUS
  <2>4. QED
    <3> HIDE DEF dp, last, at
    <3> QED
        BY <2>2, <2>3
<1>8. ASSUME NEW i \in 1..n, NEW h \in 0..H
      PROVE  dp[i][h] = Relaxed(Onward(rows, rest, hoisted, types, dp[i + 1], i, h))
  <2>1. i \in 1..n + 1 /\ i # n + 1
    OBVIOUS
  <2>2. dp[i] = at(dp, i)
    <3> HIDE DEF dp, at
    <3> QED
        BY <1>6, <2>1
  <2>3. QED
    <3> HIDE DEF dp, last
    <3> QED
        BY <2>1, <2>2
<1>9. QED
  <2>1. \A h \in 0..H : dp[n + 1][h] = IF h = H THEN Entry(0, 1, {}) ELSE Dead
    <3> HIDE DEF dp
    <3> QED
        BY <1>7
  <2>2. QED
    BY <1>8, <2>1

(* The scores of an alignment, from each row on.                           *)
LEMMA TotalFromIs ==
    ASSUME NEW rows, NEW a, NEW types, Len(rows) \in Nat
    PROVE  LET n == Len(rows)
               sum == TotalFrom(rows, a, types)
           IN  /\ sum[n + 1] = 0
               /\ \A i \in 1..n : sum[i] = Score(rows[i], a[i], types) + sum[i + 1]
<1> DEFINE n == Len(rows)
           at(f, k) == IF k = n + 1 THEN 0 ELSE Score(rows[k], a[k], types) + f[k + 1]
           sum == TotalFrom(rows, a, types)
           S == {i \in 1..n + 1 : \E f : f = [k \in i..n + 1 |-> at(f, k)]}
<1>1. n + 1 \in S
  <2> DEFINE f == [k \in n + 1..n + 1 |-> 0]
  <2>1. f = [k \in n + 1..n + 1 |-> at(f, k)]
    OBVIOUS
  <2> HIDE DEF f
  <2>2. QED
    BY <2>1
<1>2. ASSUME NEW i \in 1..n, i + 1 \in S PROVE i \in S
  <2>1. PICK g : g = [k \in i + 1..n + 1 |-> at(g, k)]
    BY <1>2
  <2> DEFINE f == [k \in i..n + 1 |-> IF k = i THEN at(g, i) ELSE g[k]]
  <2>2. ASSUME NEW k \in i..n + 1 PROVE f[k] = at(f, k)
    <3>1. k # n + 1 => f[k + 1] = g[k + 1]
        OBVIOUS
    <3>2. at(f, k) = at(g, k)
      <4> HIDE DEF f
      <4> QED
        BY <3>1
    <3>3. k # i => g[k] = at(g, k)
      <4> HIDE DEF at
      <4>1. k # i => k \in i + 1..n + 1
        OBVIOUS
      <4> QED
        BY <2>1, <4>1
    <3>4. QED
      <4> HIDE DEF at
      <4> QED
        BY <3>2, <3>3
  <2>3. f = [k \in i..n + 1 |-> at(f, k)]
    <3> HIDE DEF at
    <3>1. f = [k \in i..n + 1 |-> f[k]]
        OBVIOUS
    <3> HIDE DEF f
    <3>2. QED
        BY <2>2, <3>1
  <2>4. i \in 1..n + 1
    OBVIOUS
  <2> HIDE DEF f, at
  <2>5. QED
    BY <2>3, <2>4
<1>3. 1 \in S
  <2> HIDE DEF S, n
  <2> QED
    BY <1>1, <1>2, DownwardInduction DEF n
<1>4. \E f : f = [k \in 1..n + 1 |-> at(f, k)]
  <2> HIDE DEF at
  <2> QED
    BY <1>3
<1>5. sum = [k \in 1..n + 1 |-> at(sum, k)]
  <2>1. sum = CHOOSE f : f = [k \in 1..n + 1 |-> at(f, k)]
    BY DEF TotalFrom
  <2> HIDE DEF at, sum
  <2>2. QED
    BY <1>4, <2>1
<1>6. \A k \in 1..n + 1 : sum[k] = at(sum, k)
  <2> HIDE DEF sum, at
  <2> QED
    BY <1>5
<1>7. QED
  <2> HIDE DEF sum
  <2>1. QED
    BY <1>6 DEF sum

(* AssignTable is filled by the size of the set of properties.             *)
Taking(rows, hoisted, types, best, used) ==
    {LET before == best[used \ {j}]
         score == Score(rows[Cardinality(used)], hoisted[j], types)
     IN  Entry(before.score + score, before.ways, Append(before.way, hoisted[j])) : j \in used}

LEMMA AssignTableIs ==
    ASSUME NEW rows, NEW hoisted, NEW types, IsFiniteSet(DOMAIN hoisted)
    PROVE  LET best == AssignTable(rows, hoisted, types)
           IN  /\ best[{}] = Entry(0, 1, << >>)
               /\ \A used \in SUBSET DOMAIN hoisted :
                     used # {} => best[used] = Relaxed(Taking(rows, hoisted, types, best, used))
<1> DEFINE D == DOMAIN hoisted
           upto(k) == {u \in SUBSET D : Cardinality(u) <= k}
           at(f, u) == IF u = {} THEN Entry(0, 1, << >>)
                       ELSE Relaxed(Taking(rows, hoisted, types, f, u))
           best == AssignTable(rows, hoisted, types)
           T == {k \in Nat : ~ \E f : f = [u \in upto(k) |-> at(f, u)]}
<1>1. \A u \in SUBSET D : IsFiniteSet(u) /\ Cardinality(u) \in Nat
    BY FS_Subset, FS_CardinalityType
<1>2. \A u \in SUBSET D : \A j \in u : Cardinality(u \ {j}) = Cardinality(u) - 1
    BY <1>1, FS_RemoveElement
<1>3. T = {}
  <2>1. SUFFICES ASSUME T # {} PROVE FALSE
    OBVIOUS
  <2>2. PICK k \in T : k \in Nat /\ \A m \in Nat : m < k => m \notin T
    <3>1. T \in SUBSET Nat
        OBVIOUS
    <3> HIDE DEF T
    <3>2. QED
        BY <2>1, <3>1, FirstOf
  <2>3. CASE k = 0
    <3> DEFINE f == [u \in upto(0) |-> Entry(0, 1, << >>)]
    <3>1. \A u \in upto(0) : u = {}
        BY <1>1, FS_EmptySet
    <3>2. f = [u \in upto(0) |-> at(f, u)]
        BY <3>1
    <3> HIDE DEF f, at, upto
    <3>3. QED
        BY <2>2, <2>3, <3>2
  <2>4. CASE k # 0
    <3>1. k - 1 \in Nat /\ k - 1 \notin T
      <4> HIDE DEF T
      <4> QED
        BY <2>2, <2>4
    <3>2. PICK g : g = [u \in upto(k - 1) |-> at(g, u)]
      <4> HIDE DEF at, upto
      <4> QED
        BY <3>1
    <3> DEFINE f == [u \in upto(k) |-> IF u \in upto(k - 1) THEN g[u] ELSE at(g, u)]
    <3>3. ASSUME NEW u \in upto(k) PROVE \A j \in u : u \ {j} \in upto(k - 1) /\ u \ {j} \in upto(k)
        BY <1>1, <1>2, <3>1
    <3>4. ASSUME NEW u \in upto(k) PROVE at(f, u) = at(g, u)
      <4>1. \A j \in u : f[u \ {j}] = g[u \ {j}]
        <5> HIDE DEF upto, at
        <5> QED
            BY <3>3
      <4>2. QED
        <5> HIDE DEF f
        <5> QED
            BY <4>1 DEF Taking
    <3>5. \A u \in upto(k) : f[u] = at(f, u)
      <4>1. \A u \in upto(k - 1) : g[u] = at(g, u)
        <5> HIDE DEF upto, at
        <5> QED
            BY <3>2
      <4> HIDE DEF upto, at
      <4>2. QED
        BY <3>4, <4>1
    <3>6. f = [u \in upto(k) |-> f[u]]
        OBVIOUS
    <3> HIDE DEF f, at, upto
    <3>7. f = [u \in upto(k) |-> at(f, u)]
        BY <3>5, <3>6
    <3>8. QED
        BY <2>2, <3>7
  <2>5. QED
    BY <2>3, <2>4
<1>4. upto(Cardinality(D)) = SUBSET D /\ Cardinality(D) \in Nat
  <2>1. \A u \in SUBSET D : Cardinality(u) <= Cardinality(D)
    BY FS_Subset
  <2>2. QED
    BY <1>1, <2>1
<1>5. \E f : f = [u \in SUBSET D |-> at(f, u)]
  <2>1. \E f : f = [u \in upto(Cardinality(D)) |-> at(f, u)]
    <3> HIDE DEF at, upto
    <3> QED
        BY <1>3, <1>4
  <2> HIDE DEF at, upto
  <2>2. QED
    BY <1>4, <2>1
<1>6. best = [u \in SUBSET D |-> at(best, u)]
  <2>1. best = CHOOSE f : f = [u \in SUBSET D |-> at(f, u)]
    BY DEF AssignTable, Taking
  <2> HIDE DEF at, best
  <2>2. QED
    BY <1>5, <2>1
<1>7. \A u \in SUBSET D : best[u] = at(best, u)
  <2> HIDE DEF best, at
  <2> QED
    BY <1>6
<1>8. QED
  <2> HIDE DEF best
  <2>1. QED
    BY <1>7 DEF best

-----------------------------------------------------------------------------
(* Places among the rows.  M are the rows that are hoisted.                *)
Earlier(M, i) == Cardinality({m \in M : m < i})

LEMMA EarlierFacts ==
    ASSUME NEW n \in Nat, NEW M \in SUBSET (1..n)
    PROVE  /\ IsFiniteSet(M) /\ Cardinality(M) \in Nat
           /\ \A i \in 1..n + 1 : Earlier(M, i) \in Nat /\ Earlier(M, i) <= Cardinality(M)
           /\ Earlier(M, 1) = 0 /\ Earlier(M, n + 1) = Cardinality(M)
           /\ \A i, j \in 1..n + 1 : i <= j =>
                 Earlier(M, i) <= Earlier(M, j) /\ Earlier(M, j) <= Earlier(M, i) + (j - i)
           /\ \A i \in 1..n : Earlier(M, i + 1) = IF i \in M THEN Earlier(M, i) + 1
                                                 ELSE Earlier(M, i)
           /\ \A i, j \in M : Earlier(M, i) = Earlier(M, j) => i = j
           /\ \A k \in 0..Cardinality(M) - 1 : \E m \in M : Earlier(M, m) = k
<1> DEFINE below(i) == {m \in M : m < i}
<1>1. IsFiniteSet(M) /\ Cardinality(M) \in Nat
  <2>1. IsFiniteSet(1..n)
    BY FS_Interval
  <2>2. QED
    BY <2>1, FS_Subset, FS_CardinalityType
<1>2. \A m \in M : m \in Int /\ 1 <= m /\ m <= n
    OBVIOUS
<1>3. ASSUME NEW i \in 1..n + 1
      PROVE  /\ IsFiniteSet(below(i)) /\ Earlier(M, i) = Cardinality(below(i))
             /\ Earlier(M, i) \in Nat /\ Earlier(M, i) <= Cardinality(M)
  <2>1. below(i) \in SUBSET M
    OBVIOUS
  <2>2. IsFiniteSet(below(i)) /\ Cardinality(below(i)) <= Cardinality(M)
    <3> HIDE DEF below
    <3> QED
        BY <1>1, <2>1, FS_Subset
  <2>3. Cardinality(below(i)) \in Nat
    <3> HIDE DEF below
    <3> QED
        BY <2>2, FS_CardinalityType
  <2>4. QED
    BY <2>2, <2>3 DEF Earlier
<1>4. \A i \in 1..n + 1 : Earlier(M, i) \in Nat
  <2> HIDE DEF below
  <2> QED
    BY <1>3
<1>5. Earlier(M, 1) = 0 /\ Earlier(M, n + 1) = Cardinality(M)
  <2>1. below(1) = {} /\ below(n + 1) = M
    <3>1. \A m \in M : ~ (m < 1) /\ m < n + 1
        BY <1>2
    <3>2. QED
        BY <3>1, Zenon
  <2>2. Earlier(M, 1) = Cardinality({}) /\ Earlier(M, n + 1) = Cardinality(M)
    BY <2>1 DEF Earlier
  <2>3. QED
    BY <2>2, FS_EmptySet
<1>6. ASSUME NEW i \in 1..n
      PROVE  Earlier(M, i + 1) = IF i \in M THEN Earlier(M, i) + 1 ELSE Earlier(M, i)
  <2>1. i \in 1..n + 1 /\ i + 1 \in 1..n + 1
    OBVIOUS
  <2>2. CASE i \in M
    <3>1. below(i + 1) = below(i) \union {i} /\ i \notin below(i)
      <4>1. \A m \in M : (m < i + 1 <=> m < i \/ m = i) /\ ~ (i < i)
        BY <1>2
      <4>2. QED
        BY <2>2, <4>1, Zenon
    <3> HIDE DEF below
    <3>2. Cardinality(below(i + 1)) = Cardinality(below(i)) + 1
        BY <1>3, <2>1, <3>1, FS_AddElement
    <3>3. QED
        BY <1>3, <2>1, <2>2, <3>2
  <2>3. CASE i \notin M
    <3>1. below(i + 1) = below(i)
      <4>1. \A m \in M : m # i => (m < i + 1 <=> m < i)
        BY <1>2
      <4>2. QED
        BY <2>3, <4>1, Zenon
    <3> HIDE DEF below
    <3>2. QED
        BY <1>3, <2>1, <2>3, <3>1
  <2>4. QED
    BY <2>2, <2>3
<1>7. ASSUME NEW i \in 1..n + 1, NEW j \in 1..n + 1, i <= j
      PROVE  Earlier(M, i) <= Earlier(M, j) /\ Earlier(M, j) <= Earlier(M, i) + (j - i)
  <2> DEFINE S == {k \in 1..j : /\ Earlier(M, k) <= Earlier(M, j)
                                /\ Earlier(M, j) <= Earlier(M, k) + (j - k)}
  <2>1. j - 1 \in Nat /\ j - 1 + 1 = j
    OBVIOUS
  <2>2. j \in S
    BY <1>4
  <2>3. ASSUME NEW k \in 1..j - 1, k + 1 \in S PROVE k \in S
    <3>1. k \in 1..n /\ k \in 1..n + 1 /\ k + 1 \in 1..n + 1
        OBVIOUS
    <3>2. Earlier(M, k) \in Nat /\ Earlier(M, j) \in Nat /\ Earlier(M, k + 1) \in Nat
        BY <1>4, <3>1
    <3>3. Earlier(M, k + 1) = Earlier(M, k) \/ Earlier(M, k + 1) = Earlier(M, k) + 1
        BY <1>6, <3>1
    <3>4. Earlier(M, k + 1) <= Earlier(M, j) /\ Earlier(M, j) <= Earlier(M, k + 1) + (j - (k + 1))
        BY <2>3
    <3>5. k \in 1..j
        OBVIOUS
    <3>6. QED
        BY <3>2, <3>3, <3>4, <3>5
  <2>4. i \in S
    <3> HIDE DEF S
    <3>1. \A k \in 1..j - 1 + 1 : k \in S
        BY <2>1, <2>2, <2>3, DownwardInduction
    <3>2. QED
        BY <1>7, <2>1, <3>1
  <2>5. QED
    BY <2>4
<1>8. ASSUME NEW i \in M, NEW j \in M, i < j PROVE Earlier(M, i) < Earlier(M, j)
  <2>1. /\ i \in 1..n /\ i \in 1..n + 1 /\ i + 1 \in 1..n + 1 /\ j \in 1..n + 1 /\ i + 1 <= j
    BY <1>8
  <2>2. Earlier(M, i + 1) = Earlier(M, i) + 1 /\ Earlier(M, i + 1) <= Earlier(M, j)
    BY <1>6, <1>7, <2>1
  <2>3. Earlier(M, i) \in Nat /\ Earlier(M, j) \in Nat
    BY <1>4, <2>1
  <2>4. QED
    BY <2>2, <2>3
<1>9. \A i, j \in M : Earlier(M, i) = Earlier(M, j) => i = j
  <2>1. SUFFICES ASSUME NEW i \in M, NEW j \in M, i # j PROVE Earlier(M, i) # Earlier(M, j)
    OBVIOUS
  <2>2. Earlier(M, i) \in Nat /\ Earlier(M, j) \in Nat /\ (i < j \/ j < i)
    BY <1>2, <1>4, <2>1
  <2>3. QED
    BY <1>8, <2>2
<1>10. \A k \in 0..Cardinality(M) - 1 : \E m \in M : Earlier(M, m) = k
  <2> DEFINE R == {ss \in M \X M : ss[1] < ss[2]}
  <2>1. Orders(R, M)
    <3>1. \A d, e \in M : <<d, e>> \in R <=> d < e
        OBVIOUS
    <3> HIDE DEF R
    <3>2. QED
        BY <1>2, <3>1 DEF Orders
  <2>2. \A m \in M : Under(R, M, m) = Earlier(M, m)
    <3>1. \A m \in M : {d \in M : <<d, m>> \in R} = below(m)
        OBVIOUS
    <3>2. QED
        BY <3>1 DEF Under, Earlier
  <2>3. \A k \in 0..Cardinality(M) - 1 : \E m \in M : Under(R, M, m) = k
    <3> HIDE DEF R
    <3>1. RanksFill(R, M)
        BY <1>1, <2>1, OrderedRanks
    <3>2. QED
        BY <3>1 DEF RanksFill
  <2>4. QED
    BY <2>2, <2>3
<1>11. QED
  <2> HIDE DEF below
  <2> QED
    BY <1>1, <1>3, <1>5, <1>6, <1>7, <1>9, <1>10

(* The rows that are not hoisted take the places left, in their order.     *)
LEMMA PlacesLeft ==
    ASSUME NEW n \in Nat, NEW M \in SUBSET (1..n)
    PROVE  /\ \A i \in (1..n) \ M : i - Earlier(M, i) \in 1..n - Cardinality(M)
           /\ \A i, j \in (1..n) \ M : i < j => i - Earlier(M, i) < j - Earlier(M, j)
<1>1. ASSUME NEW i \in (1..n) \ M, NEW j \in 1..n + 1, i < j
      PROVE  i - Earlier(M, i) < j - Earlier(M, j)
  <2>1. i \in 1..n /\ i \in 1..n + 1 /\ i + 1 \in 1..n + 1 /\ i + 1 <= j
    BY <1>1
  <2>2. /\ Earlier(M, i + 1) = Earlier(M, i)
        /\ Earlier(M, j) <= Earlier(M, i + 1) + (j - (i + 1))
    BY <2>1, EarlierFacts
  <2>3. Earlier(M, i) \in Nat /\ Earlier(M, j) \in Nat
    BY <2>1, EarlierFacts
  <2>4. QED
    BY <2>2, <2>3
<1>2. ASSUME NEW i \in (1..n) \ M PROVE i - Earlier(M, i) \in 1..n - Cardinality(M)
  <2>1. /\ 1 \in 1..n + 1 /\ i \in 1..n + 1 /\ n + 1 \in 1..n + 1 /\ 1 <= i /\ i < n + 1
    OBVIOUS
  <2>2. Earlier(M, 1) = 0 /\ Earlier(M, n + 1) = Cardinality(M) /\ Cardinality(M) \in Nat
    BY EarlierFacts
  <2>3. Earlier(M, i) <= Earlier(M, 1) + (i - 1) /\ Earlier(M, i) \in Nat
    BY <2>1, EarlierFacts
  <2>4. i - Earlier(M, i) < (n + 1) - Earlier(M, n + 1)
    <3>1. \A k \in 1..n + 1 : i < k => i - Earlier(M, i) < k - Earlier(M, k)
        BY <1>1
    <3>2. QED
        BY <2>1, <3>1, Zenon
  <2>5. QED
    BY <2>2, <2>3, <2>4
<1>3. QED
    BY <1>1, <1>2

LEMMA NotBelow ==
    ASSUME NEW m \in Nat, NEW f \in [1..m -> 1..m],
           \A i, j \in 1..m : i < j => f[i] < f[j]
    PROVE  \A i \in 1..m : f[i] >= i
<1> DEFINE T == {i \in 1..m : f[i] < i}
<1>1. SUFFICES ASSUME T # {} PROVE FALSE
    OBVIOUS
<1>2. PICK i \in T : i \in Nat /\ \A k \in Nat : k < i => k \notin T
  <2>1. T \in SUBSET Nat
    OBVIOUS
  <2> HIDE DEF T
  <2>2. QED
    BY <1>1, <2>1, FirstOf
<1>3. i \in 1..m /\ f[i] \in 1..m /\ f[i] < i /\ f[f[i]] < f[i]
    OBVIOUS
<1>4. QED
    BY <1>2, <1>3

(* Only the identity keeps the order of 1..m.                              *)
LEMMA IncreasingIsIdentity ==
    ASSUME NEW m \in Nat, NEW f \in [1..m -> 1..m],
           \A i, j \in 1..m : i < j => f[i] < f[j]
    PROVE  \A i \in 1..m : f[i] = i
<1> DEFINE g == [i \in 1..m |-> m + 1 - f[m + 1 - i]]
<1>1. \A i \in 1..m : m + 1 - i \in 1..m
    OBVIOUS
<1>2. g \in [1..m -> 1..m]
    BY <1>1
<1>3. ASSUME NEW i \in 1..m, NEW j \in 1..m, i < j PROVE g[i] < g[j]
  <2>1. m + 1 - j < m + 1 - i
    BY <1>3
  <2>2. f[m + 1 - j] < f[m + 1 - i] /\ f[m + 1 - j] \in 1..m /\ f[m + 1 - i] \in 1..m
    BY <1>1, <2>1
  <2>3. QED
    BY <2>2
<1>4. \A i \in 1..m : g[i] >= i
  <2> HIDE DEF g
  <2> QED
    BY <1>2, <1>3, NotBelow
<1>5. ASSUME NEW i \in 1..m PROVE f[i] <= i
  <2>1. m + 1 - i \in 1..m /\ m + 1 - (m + 1 - i) = i
    OBVIOUS
  <2>2. g[m + 1 - i] = m + 1 - f[i] /\ g[m + 1 - i] >= m + 1 - i
    BY <1>4, <2>1
  <2>3. f[i] \in 1..m
    OBVIOUS
  <2> HIDE DEF g
  <2>4. QED
    BY <2>2, <2>3
<1>6. \A i \in 1..m : f[i] >= i
    BY NotBelow
<1>7. QED
    BY <1>5, <1>6

-----------------------------------------------------------------------------
(* What alignRows finds is a placing of the rows.                          *)
Given(rows, rest, hoisted, props) ==
    rows \in Seq(RowOf(props)) /\ rest \in Seq(props) /\ hoisted \in Seq(props)

LEMMA BestHoistedIs ==
    ASSUME NEW props, NEW row \in RowOf(props), NEW hoisted \in Seq(props), NEW types,
           Len(hoisted) # 0
    PROVE  LET best == BestHoisted(row, hoisted, types)
           IN  /\ best \in Int /\ best <= 100
               /\ \E j \in DOMAIN hoisted : best = Score(row, hoisted[j], types)
               /\ \A j \in DOMAIN hoisted : best >= Score(row, hoisted[j], types)
<1> DEFINE S == {Score(row, hoisted[j], types) : j \in DOMAIN hoisted}
<1>1. \A j \in DOMAIN hoisted : hoisted[j] \in props
    OBVIOUS
<1>2. S \in SUBSET Int /\ \A s \in S : s <= 100
    BY <1>1, ScoreFacts
<1>3. 1 \in DOMAIN hoisted
    OBVIOUS
<1>4. S # {}
    BY <1>3
<1>5. Max(S) \in S /\ \A s \in S : Max(S) >= s
  <2> HIDE DEF S
  <2> QED
    BY <1>2, <1>4, LargestIsMax
<1>6. BestHoisted(row, hoisted, types) = Max(S)
    BY DEF BestHoisted
<1>7. Max(S) \in Int /\ Max(S) <= 100
  <2> HIDE DEF S
  <2> QED
    BY <1>2, <1>5
<1>8. QED
    BY <1>5, <1>6, <1>7

FromRest(rows, rest, types, next, i, h) ==
    Entry(next[h].score + Score(rows[i], rest[i - h], types), next[h].ways, next[h].way)
FromHoist(rows, hoisted, types, next, i, h) ==
    Entry(next[h + 1].score + BestHoisted(rows[i], hoisted, types),
          next[h + 1].ways, next[h + 1].way \union {i})

LEMMA OnwardIs ==
    ASSUME NEW props, NEW rows, NEW rest, NEW hoisted, NEW types, NEW next,
           Given(rows, rest, hoisted, props),
           NEW i \in 1..Len(rows), NEW h \in 0..Len(hoisted)
    PROVE  \A e : e \in Onward(rows, rest, hoisted, types, next, i, h) <=>
              \/ i - h \in DOMAIN rest /\ e = FromRest(rows, rest, types, next, i, h)
              \/ h + 1 <= Len(hoisted) /\ e = FromHoist(rows, hoisted, types, next, i, h)
<1>1. h + 1 \in 0..Len(hoisted) <=> h + 1 <= Len(hoisted)
    BY DEF Given
<1>2. QED
    BY <1>1, Zenon DEF Onward, FromRest, FromHoist

(* A cell of the first table: a way hoists the rows that are due.          *)
Due(c, n, H, i, h) ==
    /\ c \in Cell(SUBSET (1..n))
    /\ c.ways > 0 => c.way \subseteq i..n /\ Cardinality(c.way) = H - h

LEMMA HoistCells ==
    ASSUME NEW props, NEW rows, NEW rest, NEW hoisted, NEW types,
           Given(rows, rest, hoisted, props)
    PROVE  \A i \in 1..Len(rows) + 1 : \A h \in 0..Len(hoisted) :
              Due(HoistTable(rows, rest, hoisted, types)[i][h], Len(rows), Len(hoisted), i, h)
<1> DEFINE n == Len(rows)
           H == Len(hoisted)
           dp == HoistTable(rows, rest, hoisted, types)
           S == {i \in 1..n + 1 : \A h \in 0..H : Due(dp[i][h], n, H, i, h)}
<1>1. n \in Nat /\ H \in Nat
    BY DEF Given
<1>2. /\ \A h \in 0..H : dp[n + 1][h] = IF h = H THEN Entry(0, 1, {}) ELSE Dead
      /\ \A i \in 1..n : \A h \in 0..H :
            dp[i][h] = Relaxed(Onward(rows, rest, hoisted, types, dp[i + 1], i, h))
    BY <1>1, HoistTableIs
<1> HIDE DEF dp
<1>3. n + 1 \in S
  <2>1. \A h \in 0..H : Due(dp[n + 1][h], n, H, n + 1, h)
    <3> SUFFICES ASSUME NEW h \in 0..H PROVE Due(dp[n + 1][h], n, H, n + 1, h)
        OBVIOUS
    <3>1. CASE h = H
      <4>1. dp[n + 1][h] = Entry(0, 1, {})
        BY <1>2, <3>1
      <4>2. Cardinality({}) = 0 /\ H - h = 0
        BY <1>1, <3>1, FS_EmptySet
      <4>3. QED
        BY <4>1, <4>2 DEF Due, Cell, Entry
    <3>2. CASE h # H
      <4>1. dp[n + 1][h] = Dead
        BY <1>2, <3>2
      <4>2. QED
        BY <4>1 DEF Due, Cell, Entry, Dead
    <3>3. QED
        BY <3>1, <3>2
  <2>2. n + 1 \in 1..n + 1
    BY <1>1
  <2>3. QED
    BY <2>1, <2>2
<1>4. ASSUME NEW i \in 1..n, i + 1 \in S PROVE i \in S
  <2> DEFINE next == [g \in 0..H |-> dp[i + 1][g]]
  <2>1. \A g \in 0..H : Due(dp[i + 1][g], n, H, i + 1, g)
    BY <1>4
  <2>2. next \in [0..H -> Cell(SUBSET (1..n))]
    BY <2>1 DEF Due
  <2>3. ASSUME NEW h \in 0..H PROVE Due(dp[i][h], n, H, i, h)
    <3> DEFINE E == Onward(rows, rest, hoisted, types, next, i, h)
    <3>1. dp[i][h] = Relaxed(E)
      <4>1. h + 1 \in 0..H => next[h + 1] = dp[i + 1][h + 1]
        OBVIOUS
      <4>2. next[h] = dp[i + 1][h]
        OBVIOUS
      <4>3. E = Onward(rows, rest, hoisted, types, dp[i + 1], i, h)
        <5> HIDE DEF next
        <5> QED
            BY <4>1, <4>2 DEF Onward
      <4>4. QED
        BY <1>2, <4>3
    <3> HIDE DEF next
    <3>2. ASSUME NEW e \in E PROVE Due(e, n, H, i, h)
      <4>1. rows[i] \in RowOf(props) /\ \A j \in DOMAIN rest : rest[j] \in props
        BY DEF Given
      <4>2. CASE i - h \in DOMAIN rest /\ e = FromRest(rows, rest, types, next, i, h)
        <5>1. Score(rows[i], rest[i - h], types) \in Int
            BY <4>1, <4>2, ScoreFacts
        <5>2. next[h] = dp[i + 1][h]
            BY DEF next
        <5>3. Due(next[h], n, H, i + 1, h)
            BY <2>1, <5>2
        <5>4. (i + 1)..n \subseteq i..n
            BY <1>1
        <5>5. QED
            BY <4>2, <5>1, <5>3, <5>4 DEF Due, Cell, Entry, FromRest
      <4>3. CASE h + 1 <= H /\ e = FromHoist(rows, hoisted, types, next, i, h)
        <5>1. BestHoisted(rows[i], hoisted, types) \in Int
          <6>1. hoisted \in Seq(props) /\ Len(hoisted) # 0
            BY <1>1, <4>3 DEF Given
          <6>2. QED
            BY <4>1, <6>1, BestHoistedIs
        <5>2. h + 1 \in 0..H
            BY <1>1, <4>3
        <5>3. next[h + 1] = dp[i + 1][h + 1]
            BY <5>2 DEF next
        <5>4. Due(next[h + 1], n, H, i + 1, h + 1)
            BY <2>1, <5>2, <5>3
        <5>5. ASSUME next[h + 1].ways > 0
              PROVE  /\ next[h + 1].way \union {i} \subseteq i..n
                     /\ Cardinality(next[h + 1].way \union {i}) = H - h
          <6> DEFINE w == next[h + 1].way
          <6>1. w \subseteq (i + 1)..n /\ Cardinality(w) = H - (h + 1)
            BY <5>4, <5>5 DEF Due
          <6>2. /\ i \notin (i + 1)..n /\ (i + 1)..n \subseteq i..n /\ i \in i..n
                /\ i + 1 \in Int /\ n \in Int
            BY <1>1
          <6>8. IsFiniteSet((i + 1)..n)
            BY <6>2, FS_Interval
          <6> HIDE DEF w
          <6>3. IsFiniteSet(w) /\ i \notin w
            BY <6>1, <6>2, <6>8, FS_Subset
          <6>4. Cardinality(w \union {i}) = Cardinality(w) + 1
            BY <6>3, FS_AddElement
          <6>5. w \union {i} \subseteq i..n
            BY <6>1, <6>2
          <6>6. Cardinality(w \union {i}) = H - h
            BY <1>1, <6>1, <6>4
          <6>7. QED
            BY <6>5, <6>6 DEF w
        <5>6. next[h + 1].way \union {i} \in SUBSET (1..n)
          <6>1. next[h + 1].way \in SUBSET (1..n)
            BY <5>4 DEF Due, Cell
          <6>2. QED
            BY <6>1
        <5>7. next[h + 1].score \in Int /\ next[h + 1].ways \in 0..2
            BY <5>4 DEF Due, Cell
        <5>8. QED
            BY <4>3, <5>1, <5>5, <5>6, <5>7 DEF Due, Cell, Entry, FromHoist
      <4>4. QED
        BY <2>2, <3>2, <4>2, <4>3, OnwardIs
    <3>3. E \subseteq Cell(SUBSET (1..n)) /\ {} \in SUBSET (1..n)
        BY <3>2 DEF Due
    <3> HIDE DEF E
    <3>4. /\ Relaxed(E) \in Cell(SUBSET (1..n))
          /\ Relaxed(E).ways = 0 \/ \E e \in E : e.ways > 0 /\ Relaxed(E).way = e.way
        BY <3>3, RelaxedFacts
    <3>5. QED
        BY <3>1, <3>2, <3>4 DEF Due
  <2>4. QED
    BY <2>3
<1>5. QED
  <2>1. \A i \in 1..n + 1 : i \in S
    <3> HIDE DEF S, n
    <3> QED
        BY <1>1, <1>3, <1>4, DownwardInduction DEF n
  <2>2. QED
    BY <2>1 DEF dp

(* The parts of alignRows, named.                                          *)
First(rows, rest, hoisted, types) == HoistTable(rows, rest, hoisted, types)[1][0]
Moved(rows, M, hoisted) ==
    [k \in DOMAIN hoisted |-> rows[CHOOSE i \in M : Earlier(M, i) = k - 1]]
Second(rows, M, hoisted, types) ==
    AssignTable(Moved(rows, M, hoisted), hoisted, types)[DOMAIN hoisted]
Placing(rows, rest, M, taken) ==
    [i \in DOMAIN rows |-> IF i \in M THEN taken[Earlier(M, i) + 1] ELSE rest[i - Earlier(M, i)]]

LEMMA AlignRowsIs ==
    ASSUME NEW rows, NEW rest, NEW hoisted, NEW types
    PROVE  LET first == First(rows, rest, hoisted, types)
               second == Second(rows, first.way, hoisted, types)
               placed == Placing(rows, rest, first.way, second.way)
           IN  AlignRows(rows, rest, hoisted, types) =
                 IF \/ first.ways # 1 \/ Impossible(first)
                    \/ second.ways # 1 \/ Impossible(second)
                    \/ \E i \in DOMAIN rows : Score(rows[i], placed[i], types) <= VIOLATION \div 2
                 THEN Refused ELSE placed
    BY DEF AlignRows, First, Moved, Second, Placing, Earlier

(* A cell of the second table: a way gives the first rows one property of  *)
(* the set each.                                                           *)
Taken(c, hoisted, used) ==
    /\ c.score \in Int /\ c.ways \in 0..2
    /\ c = Entry(c.score, c.ways, c.way)
    /\ c.ways > 0 =>
         /\ c.way \in Seq(ToSet(hoisted)) /\ Len(c.way) = Cardinality(used)
         /\ \A k \in 1..Cardinality(used) : \E j \in used : c.way[k] = hoisted[j]
         /\ \A k, l \in 1..Cardinality(used) : k # l => c.way[k] # c.way[l]

LEMMA AppendIs ==
    ASSUME NEW T, NEW w \in Seq(T), NEW x \in T
    PROVE  /\ Append(w, x) \in Seq(T) /\ Len(Append(w, x)) = Len(w) + 1
           /\ \A k \in 1..Len(w) + 1 : Append(w, x)[k] = IF k = Len(w) + 1 THEN x ELSE w[k]
    OBVIOUS

LEMMA CountTo ==
    ASSUME NEW n \in Nat
    PROVE  IsFiniteSet(1..n) /\ Cardinality(1..n) = n
    BY FS_Interval

LEMMA TakenByOneMore ==
    ASSUME NEW hoisted, IsInjective(hoisted), NEW used \in SUBSET DOMAIN hoisted,
           IsFiniteSet(used), NEW j \in used, NEW c, Taken(c, hoisted, used \ {j}),
           NEW score \in Int
    PROVE  Taken(Entry(c.score + score, c.ways, Append(c.way, hoisted[j])), hoisted, used)
<1> DEFINE e == Entry(c.score + score, c.ways, Append(c.way, hoisted[j]))
           k0 == Cardinality(used)
<1>1. k0 \in Nat /\ Cardinality(used \ {j}) = k0 - 1 /\ k0 - 1 \in Nat
  <2>1. k0 \in Nat /\ Cardinality(used \ {j}) = k0 - 1 /\ IsFiniteSet(used \ {j})
    BY FS_CardinalityType, FS_RemoveElement
  <2>2. Cardinality(used \ {j}) \in Nat
    BY <2>1, FS_CardinalityType
  <2>3. QED
    BY <2>1, <2>2
<1>2. /\ e.score = c.score + score /\ e.ways = c.ways /\ e.way = Append(c.way, hoisted[j])
      /\ e = Entry(e.score, e.ways, e.way)
    BY DEF Entry
<1>3. ASSUME c.ways > 0
      PROVE  /\ e.way \in Seq(ToSet(hoisted)) /\ Len(e.way) = k0
             /\ \A k \in 1..k0 : e.way[k] = IF k = k0 THEN hoisted[j] ELSE c.way[k]
  <2>1. c.way \in Seq(ToSet(hoisted)) /\ Len(c.way) = k0 - 1
    BY <1>1, <1>3 DEF Taken
  <2>2. hoisted[j] \in ToSet(hoisted)
    BY DEF ToSet
  <2>3. /\ Append(c.way, hoisted[j]) \in Seq(ToSet(hoisted))
        /\ Len(Append(c.way, hoisted[j])) = Len(c.way) + 1
        /\ \A k \in 1..Len(c.way) + 1 : Append(c.way, hoisted[j])[k] =
              IF k = Len(c.way) + 1 THEN hoisted[j] ELSE c.way[k]
    BY <2>1, <2>2, AppendIs
  <2>4. Len(c.way) + 1 = k0
    BY <1>1, <2>1
  <2> HIDE DEF k0, e
  <2>5. QED
    BY <1>2, <2>3, <2>4
<1>4. ASSUME c.ways > 0, NEW k \in 1..k0 - 1
      PROVE  \E m \in used : m # j /\ c.way[k] = hoisted[m] /\ hoisted[m] # hoisted[j]
  <2>1. PICK m \in used \ {j} : c.way[k] = hoisted[m]
    BY <1>1, <1>4 DEF Taken
  <2>2. hoisted[m] # hoisted[j]
    BY <2>1 DEF IsInjective
  <2>3. QED
    BY <2>1, <2>2
<1>5. ASSUME c.ways > 0
      PROVE  \A k, l \in 1..k0 - 1 : k # l => c.way[k] # c.way[l]
    BY <1>1, <1>5 DEF Taken
<1>6. ASSUME c.ways > 0
      PROVE  \A k, l \in 1..k0 : k # l => e.way[k] # e.way[l]
  <2> HIDE DEF e
  <2>1. \A k \in 1..k0 : k # k0 => k \in 1..k0 - 1
    BY <1>1
  <2>2. \A k \in 1..k0 : e.way[k] = IF k = k0 THEN hoisted[j] ELSE c.way[k]
    BY <1>3, <1>6
  <2>3. \A k \in 1..k0 - 1 : c.way[k] # hoisted[j]
    BY <1>4, <1>6
  <2>4. \A k, l \in 1..k0 - 1 : k # l => c.way[k] # c.way[l]
    BY <1>5, <1>6
  <2> HIDE DEF k0
  <2>5. QED
    BY <2>1, <2>2, <2>3, <2>4
<1>7. ASSUME c.ways > 0
      PROVE  \A k \in 1..k0 : \E m \in used : e.way[k] = hoisted[m]
  <2> HIDE DEF e
  <2>1. \A k \in 1..k0 : k # k0 => k \in 1..k0 - 1
    BY <1>1
  <2>2. \A k \in 1..k0 : e.way[k] = IF k = k0 THEN hoisted[j] ELSE c.way[k]
    BY <1>3, <1>7
  <2>3. \A k \in 1..k0 - 1 : \E m \in used : c.way[k] = hoisted[m]
    BY <1>4, <1>7
  <2> HIDE DEF k0
  <2>4. QED
    BY <2>1, <2>2, <2>3
<1>8. e.score \in Int /\ e.ways \in 0..2
    BY <1>2 DEF Taken
<1>9. QED
  <2> HIDE DEF e
  <2>1. Taken(e, hoisted, used)
    BY <1>2, <1>3, <1>6, <1>7, <1>8 DEF Taken
  <2>2. QED
    BY <2>1 DEF e

LEMMA AssignCells ==
    ASSUME NEW props, NEW moved, NEW hoisted \in Seq(props), NEW types, IsInjective(hoisted),
           moved \in [DOMAIN hoisted -> RowOf(props)]
    PROVE  \A used \in SUBSET DOMAIN hoisted :
              Taken(AssignTable(moved, hoisted, types)[used], hoisted, used)
<1> DEFINE D == DOMAIN hoisted
           best == AssignTable(moved, hoisted, types)
           S == {used \in SUBSET D : Taken(best[used], hoisted, used)}
<1>1. IsFiniteSet(D) /\ D = 1..Len(hoisted) /\ Len(hoisted) \in Nat /\ Cardinality(D) = Len(hoisted)
  <2>1. D = 1..Len(hoisted) /\ Len(hoisted) \in Nat
    OBVIOUS
  <2>2. IsFiniteSet(1..Len(hoisted)) /\ Cardinality(1..Len(hoisted)) = Len(hoisted)
    BY <2>1, CountTo
  <2>3. QED
    BY <2>1, <2>2
<1>2. /\ best[{}] = Entry(0, 1, << >>)
      /\ \A used \in SUBSET D :
            used # {} => best[used] = Relaxed(Taking(moved, hoisted, types, best, used))
    BY <1>1, AssignTableIs
<1> HIDE DEF best
<1>3. {} \in S
  <2>1. Cardinality({}) = 0
    BY FS_EmptySet
  <2>2. Taken(best[{}], hoisted, {})
    <3>1. << >> \in Seq(ToSet(hoisted)) /\ Len(<< >>) = 0
        OBVIOUS
    <3>2. QED
        BY <1>2, <2>1, <3>1 DEF Taken, Entry
  <2>3. QED
    BY <2>2
<1>4. ASSUME NEW used \in SUBSET D, used # {}, \A j \in used : used \ {j} \in S
      PROVE  used \in S
  <2> DEFINE E == Taking(moved, hoisted, types, best, used)
             W == {e.way : e \in E} \union {{}}
  <2>1. IsFiniteSet(used) /\ Cardinality(used) \in D
    <3>1. IsFiniteSet(used) /\ Cardinality(used) <= Len(hoisted)
        BY <1>1, FS_Subset
    <3>2. Cardinality(used) \in Nat /\ Cardinality(used) # 0
        BY <1>4, <3>1, FS_CardinalityType, FS_EmptySet
    <3>3. QED
        BY <1>1, <3>1, <3>2
  <2>2. ASSUME NEW e \in E PROVE Taken(e, hoisted, used)
    <3>1. PICK j \in used :
            e = Entry(best[used \ {j}].score + Score(moved[Cardinality(used)], hoisted[j], types),
                      best[used \ {j}].ways, Append(best[used \ {j}].way, hoisted[j]))
        BY DEF Taking
    <3>2. Score(moved[Cardinality(used)], hoisted[j], types) \in Int
      <4>1. moved[Cardinality(used)] \in RowOf(props) /\ hoisted[j] \in props
        BY <1>1, <2>1
      <4>2. QED
        BY <4>1, ScoreFacts
    <3>3. Taken(best[used \ {j}], hoisted, used \ {j})
        BY <1>4
    <3>4. QED
        BY <2>1, <3>1, <3>2, <3>3, TakenByOneMore
  <2> HIDE DEF E
  <2>3. E \subseteq Cell(W)
    <3> SUFFICES ASSUME NEW e \in E PROVE e \in Cell(W)
        OBVIOUS
    <3>1. e = Entry(e.score, e.ways, e.way) /\ e.score \in Int /\ e.ways \in 0..2
        BY <2>2 DEF Taken
    <3>2. e.way \in W
        OBVIOUS
    <3> HIDE DEF W
    <3>3. Entry(e.score, e.ways, e.way) \in Cell(W)
        BY <3>1, <3>2 DEF Entry, Cell
    <3>4. QED
        BY <3>1, <3>3
  <2>4. {} \in W
    OBVIOUS
  <2> HIDE DEF W
  <2>5. /\ Relaxed(E) \in Cell(W)
        /\ Relaxed(E).ways = 0 \/ \E e \in E : e.ways > 0 /\ Relaxed(E).way = e.way
    BY <2>3, <2>4, RelaxedFacts
  <2>6. Taken(Relaxed(E), hoisted, used)
    <3>1. SUFFICES ASSUME NEW c, c = Relaxed(E) PROVE Taken(c, hoisted, used)
        OBVIOUS
    <3>2. c.score \in Int /\ c.ways \in 0..2 /\ c = Entry(c.score, c.ways, c.way)
        BY <2>5, <3>1 DEF Cell, Entry
    <3>3. CASE c.ways = 0
        BY <3>2, <3>3 DEF Taken
    <3>4. CASE \E e \in E : e.ways > 0 /\ c.way = e.way
      <4>1. PICK e \in E : e.ways > 0 /\ c.way = e.way
        BY <3>4
      <4>2. Taken(e, hoisted, used)
        BY <2>2
      <4>3. QED
        BY <3>2, <4>1, <4>2 DEF Taken
    <3>5. QED
        BY <2>5, <3>1, <3>3, <3>4
  <2>7. best[used] = Relaxed(E)
    BY <1>2, <1>4 DEF E
  <2>8. QED
    BY <2>6, <2>7
<1>5. QED
  <2>1. \A used \in SUBSET D : used \in S
    <3> HIDE DEF S, D
    <3>1. BySize(D, S)
        BY <1>4 DEF BySize
    <3>2. QED
        BY <1>1, <1>3, <3>1, SubsetInduction
  <2>2. QED
    BY <2>1 DEF best

(* The properties that alignRows is given, in two sequences without        *)
(* repetition.                                                             *)
Apart(rest, hoisted) ==
    /\ IsInjective(rest) /\ IsInjective(hoisted)
    /\ \A j \in DOMAIN hoisted : \A k \in DOMAIN rest : hoisted[j] # rest[k]

MovesEach(rows, M, hoisted, props) ==
    /\ Moved(rows, M, hoisted) \in [DOMAIN hoisted -> RowOf(props)]
    /\ \A k \in DOMAIN hoisted : \E i \in M :
          Earlier(M, i) = k - 1 /\ Moved(rows, M, hoisted)[k] = rows[i]

LEMMA MovedTyped ==
    ASSUME NEW props, NEW rows \in Seq(RowOf(props)), NEW hoisted \in Seq(props),
           NEW M \in SUBSET (1..Len(rows)), Cardinality(M) = Len(hoisted)
    PROVE  MovesEach(rows, M, hoisted, props)
<1> DEFINE at(k) == CHOOSE i \in M : Earlier(M, i) = k - 1
<1>1. Len(rows) \in Nat /\ Len(hoisted) \in Nat /\ DOMAIN hoisted = 1..Len(hoisted)
    OBVIOUS
<1>2. \A k \in 0..Cardinality(M) - 1 : \E i \in M : Earlier(M, i) = k
    BY <1>1, EarlierFacts
<1>3. ASSUME NEW k \in DOMAIN hoisted PROVE at(k) \in M /\ Earlier(M, at(k)) = k - 1
  <2>1. k - 1 \in 0..Cardinality(M) - 1
    BY <1>1
  <2>2. \E i \in M : Earlier(M, i) = k - 1
    BY <1>2, <2>1
  <2>3. QED
    BY <2>2
<1>4. \A i \in M : rows[i] \in RowOf(props)
    OBVIOUS
<1>5. Moved(rows, M, hoisted) = [k \in DOMAIN hoisted |-> rows[at(k)]]
    BY DEF Moved
<1> HIDE DEF at
<1>6. QED
    BY <1>3, <1>4, <1>5 DEF MovesEach

LEMMA PlacedWell ==
    ASSUME NEW props, NEW rows, NEW rest, NEW hoisted, NEW types,
           Given(rows, rest, hoisted, props), Apart(rest, hoisted),
           Len(rest) = Len(rows) - Len(hoisted),
           NEW placed, placed = AlignRows(rows, rest, hoisted, types), placed # Refused
    PROVE  /\ placed \in [DOMAIN rows -> ToSet(hoisted) \union ToSet(rest)]
           /\ \A i, j \in DOMAIN rows : i # j => placed[i] # placed[j]
           /\ \A i, j \in DOMAIN rows :
                 i < j /\ placed[i] \notin ToSet(hoisted) /\ placed[j] \notin ToSet(hoisted) =>
                    \E q, r \in DOMAIN rest : q < r /\ rest[q] = placed[i] /\ rest[r] = placed[j]
           /\ \A i \in DOMAIN rows : ~ (Score(rows[i], placed[i], types) <= VIOLATION \div 2)
<1> DEFINE n == Len(rows)
           H == Len(hoisted)
           first == First(rows, rest, hoisted, types)
           M == first.way
           second == Second(rows, M, hoisted, types)
           taken == second.way
<1>1. /\ n \in Nat /\ H \in Nat /\ Len(rest) = n - H /\ n - H \in Nat
      /\ DOMAIN rows = 1..n /\ DOMAIN hoisted = 1..H /\ DOMAIN rest = 1..n - H
      /\ rows \in Seq(RowOf(props)) /\ hoisted \in Seq(props) /\ rest \in Seq(props)
    BY DEF Given
<1>2. /\ first.ways = 1 /\ second.ways = 1
      /\ placed = Placing(rows, rest, M, taken)
      /\ \A i \in DOMAIN rows : ~ (Score(rows[i], placed[i], types) <= VIOLATION \div 2)
  <2> HIDE DEF first, second
  <2>1. placed = IF \/ first.ways # 1 \/ Impossible(first)
                    \/ second.ways # 1 \/ Impossible(second)
                    \/ \E i \in DOMAIN rows :
                          Score(rows[i], Placing(rows, rest, M, taken)[i], types) <= VIOLATION \div 2
                 THEN Refused ELSE Placing(rows, rest, M, taken)
    BY AlignRowsIs DEF first, second
  <2>2. QED
    BY <2>1
<1>3. M \in SUBSET (1..n) /\ Cardinality(M) = H
  <2>1. Due(first, n, H, 1, 0)
    <3>1. 1 \in 1..n + 1 /\ 0 \in 0..H
        BY <1>1
    <3>2. QED
        BY <3>1, HoistCells DEF First
  <2> HIDE DEF first
  <2>2. QED
    BY <1>1, <1>2, <2>1 DEF Due, Cell
<1> HIDE DEF first
<1>4. /\ taken \in Seq(ToSet(hoisted)) /\ Len(taken) = H
      /\ \A k, l \in 1..H : k # l => taken[k] # taken[l]
  <2>1. Moved(rows, M, hoisted) \in [DOMAIN hoisted -> RowOf(props)]
    <3>1. MovesEach(rows, M, hoisted, props)
        BY <1>1, <1>3, MovedTyped
    <3>2. QED
        BY <3>1 DEF MovesEach
  <2>2. Taken(second, hoisted, DOMAIN hoisted)
    BY <1>1, <2>1, AssignCells DEF Second, Apart
  <2>3. Cardinality(DOMAIN hoisted) = H
    BY <1>1, CountTo
  <2> HIDE DEF second
  <2>4. QED
    BY <1>2, <2>2, <2>3 DEF Taken
<1> HIDE DEF second
<1>5. ASSUME NEW i \in M
      PROVE  /\ i \in 1..n /\ Earlier(M, i) + 1 \in 1..H
             /\ placed[i] = taken[Earlier(M, i) + 1] /\ placed[i] \in ToSet(hoisted)
  <2>1. i \in 1..n /\ i \in 1..n + 1 /\ i + 1 \in 1..n + 1
    BY <1>1, <1>3
  <2>2. /\ Earlier(M, i) \in Nat /\ Earlier(M, i + 1) = Earlier(M, i) + 1
        /\ Earlier(M, i + 1) <= Cardinality(M)
    BY <1>1, <1>3, <2>1, EarlierFacts
  <2>3. Earlier(M, i) + 1 \in 1..H
    BY <1>1, <1>3, <2>2
  <2>4. placed[i] = taken[Earlier(M, i) + 1]
    BY <1>1, <1>2, <2>1 DEF Placing
  <2>5. QED
    BY <1>4, <2>1, <2>3, <2>4
<1>6. ASSUME NEW i \in (1..n) \ M
      PROVE  /\ i - Earlier(M, i) \in DOMAIN rest
             /\ placed[i] = rest[i - Earlier(M, i)]
             /\ placed[i] \in ToSet(rest) /\ placed[i] \notin ToSet(hoisted)
  <2>1. i - Earlier(M, i) \in 1..n - H
    BY <1>1, <1>3, PlacesLeft
  <2>2. placed[i] = rest[i - Earlier(M, i)]
    BY <1>1, <1>2 DEF Placing
  <2>3. QED
    BY <1>1, <2>1, <2>2 DEF ToSet, Apart
<1>7. placed \in [DOMAIN rows -> ToSet(hoisted) \union ToSet(rest)]
  <2>1. placed = [i \in DOMAIN rows |-> placed[i]]
    BY <1>2 DEF Placing
  <2>2. \A i \in DOMAIN rows : placed[i] \in ToSet(hoisted) \union ToSet(rest)
    BY <1>1, <1>5, <1>6
  <2>3. QED
    BY <2>1, <2>2
<1>8. ASSUME NEW i \in DOMAIN rows, NEW j \in DOMAIN rows, i # j
      PROVE  placed[i] # placed[j]
  <2>1. CASE i \in M /\ j \in M
    <3>1. Earlier(M, i) # Earlier(M, j)
      <4>1. \A k, l \in M : Earlier(M, k) = Earlier(M, l) => k = l
        <5> HIDE DEF M
        <5> QED
            BY <1>1, <1>3, EarlierFacts
      <4>2. QED
        BY <1>8, <2>1, <4>1
    <3>2. Earlier(M, i) \in Nat /\ Earlier(M, j) \in Nat
      <4>1. i \in 1..n + 1 /\ j \in 1..n + 1
        BY <1>1
      <4>2. QED
        BY <1>1, <1>3, <4>1, EarlierFacts
    <3>3. /\ Earlier(M, i) + 1 \in 1..H /\ placed[i] = taken[Earlier(M, i) + 1]
          /\ Earlier(M, j) + 1 \in 1..H /\ placed[j] = taken[Earlier(M, j) + 1]
        BY <1>5, <2>1
    <3>4. Earlier(M, i) + 1 # Earlier(M, j) + 1
        BY <3>1, <3>2
    <3>5. \A k, l \in 1..H : k # l => taken[k] # taken[l]
        BY <1>4
    <3> HIDE DEF M, taken, H
    <3>6. QED
        BY <3>3, <3>4, <3>5
  <2>2. CASE i \notin M /\ j \notin M
    <3>1. i \in (1..n) \ M /\ j \in (1..n) \ M /\ (i < j \/ j < i)
        BY <1>1, <1>8, <2>2
    <3>2. i - Earlier(M, i) # j - Earlier(M, j)
      <4>1. /\ i < j => i - Earlier(M, i) < j - Earlier(M, j)
            /\ j < i => j - Earlier(M, j) < i - Earlier(M, i)
        BY <1>1, <1>3, <3>1, PlacesLeft
      <4>2. i - Earlier(M, i) \in 1..n - H /\ j - Earlier(M, j) \in 1..n - H
        BY <1>1, <1>6, <3>1
      <4>3. QED
        BY <3>1, <4>1, <4>2
    <3>3. /\ i - Earlier(M, i) \in DOMAIN rest /\ placed[i] = rest[i - Earlier(M, i)]
          /\ j - Earlier(M, j) \in DOMAIN rest /\ placed[j] = rest[j - Earlier(M, j)]
        BY <1>6, <3>1
    <3>4. QED
        BY <3>2, <3>3 DEF Apart, IsInjective
  <2>3. CASE (i \in M) # (j \in M)
    BY <1>1, <1>5, <1>6, <2>3
  <2>4. QED
    BY <2>1, <2>2, <2>3
<1>9. ASSUME NEW i \in DOMAIN rows, NEW j \in DOMAIN rows, i < j,
             placed[i] \notin ToSet(hoisted), placed[j] \notin ToSet(hoisted)
      PROVE  \E q, r \in DOMAIN rest : q < r /\ rest[q] = placed[i] /\ rest[r] = placed[j]
  <2>1. i \in (1..n) \ M /\ j \in (1..n) \ M
    BY <1>1, <1>5, <1>9
  <2>2. i - Earlier(M, i) < j - Earlier(M, j)
    BY <1>1, <1>3, <1>9, <2>1, PlacesLeft
  <2>3. QED
    BY <1>6, <2>1, <2>2
<1>10. QED
    BY <1>2, <1>7, <1>8, <1>9

-----------------------------------------------------------------------------
(* The rows in grid order.                                                 *)
LEMMA BeforeOrders ==
    ASSUME NEW props, NEW rows \in Seq(RowOf(props))
    PROVE  LET R == {ss \in Kept(rows) \X Kept(rows) : Before(rows, ss[1], ss[2])}
           IN  /\ IsFiniteSet(Kept(rows)) /\ Cardinality(Kept(rows)) <= Len(rows)
               /\ Orders(R, Kept(rows))
               /\ \A k \in Kept(rows) : Place(rows, k) = 1 + Under(R, Kept(rows), k)
<1> DEFINE K == Kept(rows)
           R == {ss \in K \X K : Before(rows, ss[1], ss[2])}
<1>1. Len(rows) \in Nat /\ DOMAIN rows = 1..Len(rows) /\ K \in SUBSET DOMAIN rows
    BY DEF Kept
<1>2. IsFiniteSet(K) /\ Cardinality(K) <= Len(rows)
  <2>1. IsFiniteSet(1..Len(rows)) /\ Cardinality(1..Len(rows)) = Len(rows)
    BY <1>1, CountTo
  <2> HIDE DEF K
  <2>2. QED
    BY <1>1, <2>1, FS_Subset
<1>3. \A k \in K : k \in Int /\ rows[k].line \in Int /\ SortOrder(rows[k]) \in Int
  <2>1. \A row \in RowOf(props) : row.line \in Int /\ row.sort \in Int
    BY FeedAssumption DEF RowOf
  <2>2. \A k \in K : rows[k] \in RowOf(props)
    BY <1>1
  <2> HIDE DEF K
  <2>3. QED
    BY <1>1, <2>1, <2>2 DEF SortOrder
<1>4. \A j, k \in K : <<j, k>> \in R <=> Before(rows, j, k)
  <2> HIDE DEF K
  <2> QED
    OBVIOUS
<1>5. /\ \A d \in K : ~ Before(rows, d, d)
      /\ \A c, d, e \in K : Before(rows, c, d) /\ Before(rows, d, e) => Before(rows, c, e)
      /\ \A d, e \in K : d = e \/ Before(rows, d, e) \/ Before(rows, e, d)
  <2> HIDE DEF K
  <2> QED
    BY <1>3 DEF Before
<1>6. Orders(R, K)
  <2> HIDE DEF K, R
  <2> QED
    BY <1>4, <1>5 DEF Orders
<1>7. ASSUME NEW k \in K PROVE Place(rows, k) = 1 + Under(R, K, k)
  <2>1. {j \in K : <<j, k>> \in R} = {j \in K : Before(rows, j, k)}
    <3> HIDE DEF K, R
    <3> QED
        BY <1>4
  <2>2. QED
    BY <2>1 DEF Place, Under
<1>8. QED
    BY <1>2, <1>6, <1>7

LEMMA GridIs ==
    ASSUME NEW props, NEW rows \in Seq(RowOf(props))
    PROVE  LET grid == GridOrdered(rows)
           IN  /\ grid \in Seq(RowOf(props)) /\ Len(grid) <= Len(rows)
               /\ \A k \in Kept(rows) : Place(rows, k) \in DOMAIN grid /\ grid[Place(rows, k)] = rows[k]
               /\ \A i \in DOMAIN grid : \E k \in Kept(rows) : Place(rows, k) = i /\ grid[i] = rows[k]
               /\ \A j, k \in Kept(rows) : Before(rows, j, k) <=> Place(rows, j) < Place(rows, k)
<1> DEFINE K == Kept(rows)
           R == {ss \in K \X K : Before(rows, ss[1], ss[2])}
           n == Cardinality(K)
           grid == GridOrdered(rows)
           at(i) == CHOOSE k \in K : Place(rows, k) = i
<1>1. /\ IsFiniteSet(K) /\ n <= Len(rows) /\ Orders(R, K)
      /\ \A k \in K : Place(rows, k) = 1 + Under(R, K, k)
    BY BeforeOrders
<1>2. RanksFill(R, K) /\ \A j, k \in K : <<j, k>> \in R <=> Before(rows, j, k)
  <2>1. RanksFill(R, K)
    <3> HIDE DEF R, K
    <3> QED
        BY <1>1, OrderedRanks
  <2>2. QED
    <3> HIDE DEF K
    <3> QED
        BY <2>1
<1> HIDE DEF R
<1>3. /\ n \in Nat
      /\ \A k \in K : Place(rows, k) \in 1..n
      /\ \A j, k \in K : Before(rows, j, k) <=> Place(rows, j) < Place(rows, k)
      /\ \A j, k \in K : Place(rows, j) = Place(rows, k) => j = k
      /\ \A i \in 1..n : \E k \in K : Place(rows, k) = i
  <2> HIDE DEF K
  <2>1. /\ n \in Nat
        /\ \A e \in K : Under(R, K, e) \in 0..n - 1
        /\ \A d, e \in K : <<d, e>> \in R <=> Under(R, K, d) < Under(R, K, e)
        /\ \A d, e \in K : Under(R, K, d) = Under(R, K, e) => d = e
        /\ \A k \in 0..n - 1 : \E e \in K : Under(R, K, e) = k
    BY <1>2 DEF RanksFill
  <2> HIDE DEF n
  <2>2. ASSUME NEW i \in 1..n PROVE \E k \in K : Place(rows, k) = i
    <3>1. i - 1 \in 0..n - 1 /\ i = 1 + (i - 1)
        BY <2>1
    <3>2. QED
        BY <1>1, <2>1, <3>1
  <2>3. \A k \in K : Place(rows, k) = 1 + Under(R, K, k) /\ Under(R, K, k) \in 0..n - 1
    BY <1>1, <2>1
  <2>4. \A k \in K : Place(rows, k) \in 1..n /\ Under(R, K, k) \in Int
    BY <2>1, <2>3
  <2>5. \A j, k \in K : Before(rows, j, k) <=> Place(rows, j) < Place(rows, k)
    <3> SUFFICES ASSUME NEW j \in K, NEW k \in K
                 PROVE  Before(rows, j, k) <=> Place(rows, j) < Place(rows, k)
        OBVIOUS
    <3>1. Before(rows, j, k) <=> Under(R, K, j) < Under(R, K, k)
        BY <1>2, <2>1
    <3>2. Place(rows, j) < Place(rows, k) <=> Under(R, K, j) < Under(R, K, k)
        BY <2>3, <2>4
    <3>3. QED
        BY <3>1, <3>2
  <2>6. \A j, k \in K : Place(rows, j) = Place(rows, k) => j = k
    BY <2>1, <2>3, <2>4
  <2>7. QED
    BY <2>1, <2>2, <2>4, <2>5, <2>6
<1>4. grid = [i \in 1..n |-> rows[at(i)]]
    BY DEF GridOrdered
<1>5. ASSUME NEW i \in 1..n PROVE at(i) \in K /\ Place(rows, at(i)) = i
    BY <1>3
<1>6. \A k \in K : rows[k] \in RowOf(props)
    BY DEF Kept
<1> HIDE DEF K, at, n
<1>7. \A i \in 1..n : grid[i] = rows[at(i)]
    BY <1>4
<1>8. grid \in Seq(RowOf(props)) /\ Len(grid) = n /\ DOMAIN grid = 1..n
  <2>1. grid \in [1..n -> RowOf(props)]
    BY <1>4, <1>5, <1>6
  <2> HIDE DEF grid
  <2>2. QED
    BY <1>3, <2>1
<1>9. ASSUME NEW k \in K PROVE grid[Place(rows, k)] = rows[k]
  <2>1. Place(rows, k) \in 1..n
    BY <1>3
  <2>2. at(Place(rows, k)) = k
    BY <1>3, <1>5, <2>1
  <2>3. QED
    BY <1>7, <2>1, <2>2
<1>10. \A i \in 1..n : at(i) \in K /\ Place(rows, at(i)) = i /\ grid[i] = rows[at(i)]
    BY <1>5, <1>7
<1> HIDE DEF grid, at
<1>11. QED
    BY <1>1, <1>3, <1>8, <1>9, <1>10 DEF K, grid

-----------------------------------------------------------------------------
(* The properties that have a row: those hoisted, then the rest.           *)
Heads(f) == SubSeq(f.order, 1, Len(GridOrdered(f.rows)))
Lead(f) == Hoisted(Heads(f), f.keys)
Rest(f) == SubSeq(Heads(f), Len(Lead(f)) + 1, Len(Heads(f)))

LEMMA PrefixIs ==
    ASSUME NEW S, NEW s \in Seq(S), NEW top \in Nat, top <= Len(s)
    PROVE  LET t == SubSeq(s, 1, top)
           IN  /\ t \in Seq(S) /\ Len(t) = top /\ DOMAIN t = 1..top
               /\ \A k \in 1..top : t[k] = s[k]
<1> DEFINE t == SubSeq(s, 1, top)
<1>1. t \in Seq(S)
    OBVIOUS
<1>2. Len(t) = top
    OBVIOUS
<1>3. DOMAIN t = 1..top
    BY <1>1, <1>2
<1>4. ASSUME NEW k \in 1..top PROVE t[k] = s[k]
    OBVIOUS
<1>5. QED
    BY <1>1, <1>2, <1>3, <1>4

LEMMA SuffixIs ==
    ASSUME NEW S, NEW s \in Seq(S), NEW start \in Nat, start <= Len(s),
           NEW t, t = SubSeq(s, start + 1, Len(s))
    PROVE  /\ t \in Seq(S) /\ Len(t) = Len(s) - start /\ DOMAIN t = 1..Len(s) - start
           /\ \A k \in 1..Len(s) - start : t[k] = s[start + k]
<1>1. t \in Seq(S)
    OBVIOUS
<1>2. Len(t) = Len(s) - start
    OBVIOUS
<1>3. DOMAIN t = 1..Len(s) - start
    BY <1>1, <1>2
<1>4. ASSUME NEW k \in 1..Len(s) - start PROVE t[k] = s[start + k]
    BY <1>2, <1>3
<1>5. QED
    BY <1>1, <1>2, <1>3, <1>4

LEMMA HeadIsSplit ==
    ASSUME NEW f, FeedType(f), Len(GridOrdered(f.rows)) <= Len(f.order)
    PROVE  LET rows == GridOrdered(f.rows)
               n == Len(rows)
               H == Len(Lead(f))
           IN  /\ n \in Nat /\ H \in Nat /\ H <= n /\ Len(Rest(f)) = n - H /\ Len(Heads(f)) = n
               /\ Given(rows, Rest(f), Lead(f), DOMAIN f.types) /\ Apart(Rest(f), Lead(f))
               /\ IsInjective(Heads(f))
               /\ \A i \in 1..n : Heads(f)[i] = f.order[i] /\ i \in DOMAIN f.order
               /\ \A i \in 1..H : Lead(f)[i] = Heads(f)[i] /\ Heads(f)[i] \in f.keys
               /\ \A i \in 1..n - H : Rest(f)[i] = Heads(f)[H + i] /\ H + i \in 1..n
               /\ H < n => Heads(f)[H + 1] \notin f.keys
<1> DEFINE rows == GridOrdered(f.rows)
           n == Len(rows)
           head == Heads(f)
           H == Len(Lead(f))
           props == DOMAIN f.types
           plain == {i \in DOMAIN head : head[i] \notin f.keys}
<1>1. /\ f.order \in Seq(props) /\ IsInjective(f.order) /\ Len(f.order) \in Nat
      /\ DOMAIN f.order = 1..Len(f.order)
    BY DEF FeedType
<1>2. rows \in Seq(RowOf(props)) /\ n \in Nat
  <2>1. f.rows \in Seq(RowOf(props))
    BY DEF FeedType
  <2>2. rows \in Seq(RowOf(props))
    BY <2>1, GridIs
  <2> HIDE DEF rows
  <2>3. QED
    BY <2>2
<1> HIDE DEF rows
<1>3. /\ head \in Seq(props) /\ Len(head) = n /\ DOMAIN head = 1..n
      /\ \A i \in 1..n : head[i] = f.order[i] /\ i \in DOMAIN f.order
  <2>1. head = SubSeq(f.order, 1, n)
    BY DEF Heads, rows
  <2>2. n <= Len(f.order)
    BY DEF rows
  <2>3. \A i \in 1..n : i \in 1..Len(f.order)
    BY <1>1, <1>2, <2>2
  <2> HIDE DEF head, n
  <2>4. LET t == SubSeq(f.order, 1, n)
        IN  /\ t \in Seq(props) /\ Len(t) = n /\ DOMAIN t = 1..n
            /\ \A k \in 1..n : t[k] = f.order[k]
    BY <1>1, <1>2, <2>2, PrefixIs, Zenon
  <2>5. QED
    BY <1>1, <2>1, <2>3, <2>4, Zenon
<1> HIDE DEF head
<1>4. IsInjective(head)
    BY <1>1, <1>3 DEF IsInjective
<1>5. /\ H \in Nat /\ H <= n /\ Lead(f) = SubSeq(head, 1, H)
      /\ \A i \in 1..H : head[i] \in f.keys
      /\ H < n => head[H + 1] \notin f.keys
  <2>1. Lead(f) = IF plain = {} THEN head ELSE SubSeq(head, 1, Min(plain) - 1)
    BY DEF Lead, Hoisted, head
  <2>2. CASE plain = {}
    <3>1. Lead(f) = head /\ SubSeq(head, 1, n) = head
        BY <1>2, <1>3, <2>1, <2>2
    <3>2. \A i \in 1..n : head[i] \in f.keys
        BY <1>3, <2>2
    <3>3. QED
        BY <1>2, <1>3, <3>1, <3>2
  <2>3. CASE plain # {}
    <3>1. PICK m \in plain : \A k \in plain : m <= k
      <4>1. plain \in SUBSET Nat
        BY <1>2, <1>3
      <4> HIDE DEF plain
      <4>2. QED
        BY <2>3, <4>1, LeastNatural
    <3>2. Min(plain) \in plain /\ \A k \in plain : Min(plain) <= k
        BY <3>1 DEF Min
    <3> DEFINE p == Min(plain)
    <3> HIDE DEF p
    <3>3. p \in 1..n /\ head[p] \notin f.keys /\ \A k \in 1..n : head[k] \notin f.keys => p <= k
        BY <1>3, <3>2 DEF p
    <3>4. Lead(f) = SubSeq(head, 1, p - 1)
        BY <2>1, <2>3 DEF p
    <3>5. p - 1 \in Nat /\ p - 1 <= n /\ p - 1 + 1 = p
        BY <1>2, <3>3
    <3>6. H = p - 1
        BY <1>2, <1>3, <3>4, <3>5
    <3>7. \A i \in 1..p - 1 : head[i] \in f.keys
        BY <1>2, <3>3
    <3> HIDE DEF plain, H
    <3>8. QED
        BY <3>3, <3>4, <3>5, <3>6, <3>7
  <2>4. QED
    BY <2>2, <2>3
<1>6. Lead(f) \in Seq(props) /\ DOMAIN Lead(f) = 1..H /\ \A i \in 1..H : Lead(f)[i] = head[i]
  <2> HIDE DEF H
  <2>1. H <= Len(head)
    BY <1>3, <1>5
  <2>2. LET t == SubSeq(head, 1, H)
        IN  /\ t \in Seq(props) /\ Len(t) = H /\ DOMAIN t = 1..H
            /\ \A k \in 1..H : t[k] = head[k]
    BY <1>3, <1>5, <2>1, PrefixIs, Zenon
  <2>3. Lead(f) = SubSeq(head, 1, H)
    BY <1>5
  <2> DEFINE t == SubSeq(head, 1, H)
  <2>4. /\ Lead(f) = t /\ t \in Seq(props) /\ DOMAIN t = 1..H
        /\ \A k \in 1..H : t[k] = head[k]
    BY <2>2, <2>3
  <2> HIDE DEF t
  <2>5. QED
    BY <2>4
<1>7. /\ Rest(f) \in Seq(props) /\ Len(Rest(f)) = n - H /\ DOMAIN Rest(f) = 1..n - H
      /\ \A i \in 1..n - H : Rest(f)[i] = head[H + i] /\ H + i \in 1..n
  <2>1. Rest(f) = SubSeq(head, H + 1, Len(head))
    BY DEF Rest, head
  <2> HIDE DEF H, n, props
  <2>2. \A i \in 1..n - H : H + i \in 1..n
    BY <1>2, <1>5
  <2>3. head \in Seq(props) /\ Len(head) = n /\ H \in Nat /\ H <= Len(head)
    BY <1>3, <1>5
  <2>4. /\ Rest(f) \in Seq(props) /\ Len(Rest(f)) = Len(head) - H
        /\ DOMAIN Rest(f) = 1..Len(head) - H
        /\ \A k \in 1..Len(head) - H : Rest(f)[k] = head[H + k]
    BY <2>1, <2>3, SuffixIs
  <2>5. QED
    BY <2>2, <2>3, <2>4
<1>8. Apart(Rest(f), Lead(f))
  <2>1. \A i, j \in 1..n : head[i] = head[j] => i = j
    BY <1>3, <1>4 DEF IsInjective
  <2> HIDE DEF H, n
  <2>2. \A j \in 1..H : j \in 1..n /\ \A k \in 1..n - H : j # H + k
    BY <1>2, <1>5
  <2>3. \A i, j \in 1..n - H : H + i = H + j => i = j
    BY <1>2, <1>5
  <2>4. IsInjective(Lead(f))
    BY <1>6, <2>1, <2>2 DEF IsInjective
  <2>5. IsInjective(Rest(f))
    BY <1>7, <2>1, <2>3 DEF IsInjective
  <2>6. \A j \in 1..H : \A k \in 1..n - H : Lead(f)[j] # Rest(f)[k]
    BY <1>6, <1>7, <2>1, <2>2
  <2>7. QED
    BY <1>6, <1>7, <2>4, <2>5, <2>6 DEF Apart
<1>9. QED
    BY <1>2, <1>3, <1>4, <1>5, <1>6, <1>7, <1>8 DEF Given, rows, head

(* What resolveFields reports, by whether it gets as far as alignRows and  *)
(* by what that returns.                                                   *)
Placed(f) == AlignRows(GridOrdered(f.rows), Rest(f), Lead(f), f.types)
Reached(f) ==
    /\ GridOrdered(f.rows) # << >> /\ f.order # << >>
    /\ \E k \in DOMAIN f.rows : Flagged(f.rows[k])
    /\ ~ (Len(f.order) < Len(GridOrdered(f.rows)))
Annotating(f) ==
    [p \in ToSet(Heads(f)) |->
       GridOrdered(f.rows)[CHOOSE i \in DOMAIN GridOrdered(f.rows) : Placed(f)[i] = p].column]

LEMMA Resolved ==
    ASSUME NEW f
    PROVE  /\ Reached(f) /\ Placed(f) # Refused =>
                ResolveFields(f) = [status |-> "aligned", annotated |-> Annotating(f)]
           /\ Reached(f) /\ Placed(f) = Refused => ResolveFields(f).status = "alignmentAmbiguous"
           /\ ~ Reached(f) => ResolveFields(f).status \notin {"aligned", "alignmentAmbiguous"}
<1>1. ResolveFields(f) =
        IF GridOrdered(f.rows) = << >> THEN Bare("noFieldRows")
        ELSE IF f.order = << >> THEN Bare("noMetadata")
        ELSE IF \A k \in DOMAIN f.rows : ~Flagged(f.rows[k]) THEN Bare("feedMissingActiveFlag")
        ELSE IF Len(f.order) < Len(GridOrdered(f.rows)) THEN Bare("feedRowsExceedProperties")
        ELSE IF Placed(f) = Refused THEN Bare("alignmentAmbiguous")
        ELSE [status |-> "aligned", annotated |-> Annotating(f)]
    BY DEF ResolveFields, Placed, Rest, Lead, Heads, Annotating
<1>2. \A s : Bare(s).status = s
    BY DEF Bare
<1>3. CASE Reached(f)
    BY <1>1, <1>2, <1>3 DEF Reached
<1>4. CASE ~ Reached(f)
    BY <1>1, <1>2, <1>4 DEF Reached
<1>5. QED
    BY <1>3, <1>4

(* Fields that are annotated are annotated by an alignment that breaks no  *)
(* constraint.                                                             *)
LEMMA PlacedAligns ==
    ASSUME NEW f, FeedType(f), Reached(f), Placed(f) # Refused
    PROVE  LET rows == GridOrdered(f.rows)
           IN  /\ Placed(f) \in Alignments(rows, Heads(f), Lead(f))
               /\ \A i \in DOMAIN rows : Annotating(f)[Placed(f)[i]] = rows[i].column
               /\ \A i \in DOMAIN rows :
                     ~ (Score(rows[i], Placed(f)[i], f.types) <= VIOLATION \div 2)
<1> DEFINE rows == GridOrdered(f.rows)
           n == Len(rows)
           H == Len(Lead(f))
           P == Placed(f)
           head == Heads(f)
<1>1. /\ n \in Nat /\ H \in Nat /\ H <= n /\ Len(Rest(f)) = n - H /\ Len(head) = n
      /\ Given(rows, Rest(f), Lead(f), DOMAIN f.types) /\ Apart(Rest(f), Lead(f))
      /\ \A i \in 1..H : Lead(f)[i] = head[i]
      /\ \A i \in 1..n - H : Rest(f)[i] = head[H + i] /\ H + i \in 1..n
  <2>1. Len(rows) <= Len(f.order)
    <3>1. Len(rows) \in Nat /\ Len(f.order) \in Nat
      <4>1. f.rows \in Seq(RowOf(DOMAIN f.types)) /\ f.order \in Seq(DOMAIN f.types)
        BY DEF FeedType
      <4>2. rows \in Seq(RowOf(DOMAIN f.types))
        BY <4>1, GridIs
      <4> HIDE DEF rows
      <4>3. QED
        BY <4>1, <4>2
    <3>2. QED
        BY <3>1 DEF Reached
  <2>2. QED
    BY <2>1, HeadIsSplit
<1>2. /\ P \in [DOMAIN rows -> ToSet(Lead(f)) \union ToSet(Rest(f))]
      /\ \A i, j \in DOMAIN rows : i # j => P[i] # P[j]
      /\ \A i, j \in DOMAIN rows :
            i < j /\ P[i] \notin ToSet(Lead(f)) /\ P[j] \notin ToSet(Lead(f)) =>
               \E q, r \in DOMAIN Rest(f) : q < r /\ Rest(f)[q] = P[i] /\ Rest(f)[r] = P[j]
      /\ \A i \in DOMAIN rows : ~ (Score(rows[i], P[i], f.types) <= VIOLATION \div 2)
    BY <1>1, PlacedWell DEF Placed
<1>3. DOMAIN rows = 1..n /\ DOMAIN Lead(f) = 1..H /\ DOMAIN Rest(f) = 1..n - H /\ DOMAIN head = 1..n
  <2>1. DOMAIN rows = 1..n /\ DOMAIN Lead(f) = 1..H /\ DOMAIN Rest(f) = 1..n - H
    <3>1. \A s : s \in Seq(DOMAIN f.types) => DOMAIN s = 1..Len(s)
        OBVIOUS
    <3>2. \A s : s \in Seq(RowOf(DOMAIN f.types)) => DOMAIN s = 1..Len(s)
        OBVIOUS
    <3> HIDE DEF rows
    <3>3. QED
        BY <1>1, <3>1, <3>2 DEF Given
  <2>2. DOMAIN head = 1..n
    <3>1. head = SubSeq(f.order, 1, n)
        BY DEF Heads
    <3> HIDE DEF n
    <3>2. head = [i \in 1..n |-> f.order[i]]
        BY <1>1, <3>1
    <3>3. QED
        BY <3>2
  <2>3. QED
    BY <2>1, <2>2
<1> HIDE DEF P, head, n, H
<1>4. ToSet(Lead(f)) \union ToSet(Rest(f)) \subseteq ToSet(head)
  <2>1. \A i \in 1..H : i \in 1..n
    BY <1>1
  <2>2. QED
    BY <1>1, <1>3, <2>1 DEF ToSet
<1>5. P \in Alignments(rows, head, Lead(f))
  <2>1. P \in [DOMAIN rows -> ToSet(head)]
    BY <1>2, <1>4
  <2>2. ASSUME NEW i \in DOMAIN rows, NEW j \in DOMAIN rows,
               i < j, P[i] \notin ToSet(Lead(f)), P[j] \notin ToSet(Lead(f))
        PROVE  \E q, r \in DOMAIN head : q < r /\ head[q] = P[i] /\ head[r] = P[j]
    <3>1. PICK q \in DOMAIN Rest(f), r \in DOMAIN Rest(f) :
            q < r /\ Rest(f)[q] = P[i] /\ Rest(f)[r] = P[j]
        BY <1>2, <2>2
    <3>2. /\ H + q \in DOMAIN head /\ H + r \in DOMAIN head /\ H + q < H + r
          /\ head[H + q] = P[i] /\ head[H + r] = P[j]
        BY <1>1, <1>3, <3>1
    <3>3. QED
        BY <3>2
  <2> HIDE DEF rows
  <2>3. QED
    BY <1>2, <2>1, <2>2 DEF Alignments
<1>6. ASSUME NEW i \in DOMAIN rows PROVE Annotating(f)[P[i]] = rows[i].column
  <2>1. P[i] \in ToSet(head)
    BY <1>2, <1>4
  <2>2. (CHOOSE k \in DOMAIN rows : P[k] = P[i]) = i
    <3> HIDE DEF rows
    <3> QED
        BY <1>2
  <2>3. Annotating(f) = [p \in ToSet(head) |-> rows[CHOOSE k \in DOMAIN rows : P[k] = p].column]
    BY DEF Annotating, head, P
  <2> HIDE DEF rows
  <2>4. Annotating(f)[P[i]] = rows[CHOOSE k \in DOMAIN rows : P[k] = P[i]].column
    BY <2>1, <2>3
  <2>5. QED
    BY <2>2, <2>4
<1>7. QED
    BY <1>2, <1>5, <1>6 DEF P, head

-----------------------------------------------------------------------------
(* Where at most one property is hoisted, the tables find all that is best *)
(* and no more.                                                            *)
LEMMA TotalBounds ==
    ASSUME NEW props, NEW rows \in Seq(RowOf(props)), NEW types, NEW a \in [DOMAIN rows -> props]
    PROVE  LET n == Len(rows)
               T == TotalFrom(rows, a, types)
           IN  \A i \in 1..n + 1 :
                  /\ T[i] \in Int /\ T[i] <= 100 * ((n + 1) - i)
                  /\ (\A r \in i..n : Score(rows[r], a[r], types) >= 0) => T[i] >= 0
<1> DEFINE n == Len(rows)
           T == TotalFrom(rows, a, types)
           fine(i) == \A r \in i..n : Score(rows[r], a[r], types) >= 0
           S == {i \in 1..n + 1 : /\ T[i] \in Int /\ T[i] <= 100 * ((n + 1) - i)
                                  /\ fine(i) => T[i] >= 0}
<1>1. n \in Nat /\ DOMAIN rows = 1..n
    OBVIOUS
<1>2. T[n + 1] = 0 /\ \A i \in 1..n : T[i] = Score(rows[i], a[i], types) + T[i + 1]
    BY <1>1, TotalFromIs
<1>3. \A i \in 1..n : Score(rows[i], a[i], types) \in Int /\ Score(rows[i], a[i], types) <= 100
  <2>1. \A i \in 1..n : rows[i] \in RowOf(props) /\ a[i] \in props
    BY <1>1
  <2>2. QED
    BY <2>1, ScoreFacts
<1> HIDE DEF n, T
<1>4. n + 1 \in S
    BY <1>1, <1>2
<1>5. ASSUME NEW i \in 1..n, i + 1 \in S PROVE i \in S
  <2>1. i \in 1..n + 1 /\ i \in i..n /\ \A r \in (i + 1)..n : r \in i..n
    BY <1>1
  <2>2. fine(i) => fine(i + 1) /\ Score(rows[i], a[i], types) >= 0
    BY <2>1
  <2>3. /\ T[i + 1] \in Int /\ T[i + 1] <= 100 * ((n + 1) - (i + 1))
        /\ fine(i + 1) => T[i + 1] >= 0
    BY <1>5
  <2> HIDE DEF fine
  <2>4. T[i] \in Int /\ T[i] <= 100 * ((n + 1) - i) /\ (fine(i) => T[i] >= 0)
    BY <1>1, <1>2, <1>3, <2>2, <2>3
  <2>5. QED
    BY <2>1, <2>4
<1>6. \A i \in 1..n + 1 : i \in S
  <2> HIDE DEF S
  <2> QED
    BY <1>1, <1>4, <1>5, DownwardInduction
<1>7. QED
    BY <1>6 DEF n, T

(* A total that is too low has a violation in it.                          *)
LEMMA LowTotal ==
    ASSUME NEW props, NEW rows \in Seq(RowOf(props)), NEW types, NEW a \in [DOMAIN rows -> props],
           TotalFrom(rows, a, types)[1] <= VIOLATION \div 2
    PROVE  \E i \in DOMAIN rows : Score(rows[i], a[i], types) <= VIOLATION \div 2
<1> DEFINE n == Len(rows)
<1>1. n \in Nat /\ DOMAIN rows = 1..n /\ 1 \in 1..n + 1
    OBVIOUS
<1>2. PICK i \in 1..n : ~ (Score(rows[i], a[i], types) >= 0)
  <2>1. (\A r \in 1..n : Score(rows[r], a[r], types) >= 0) => TotalFrom(rows, a, types)[1] >= 0
    BY <1>1, TotalBounds
  <2>2. TotalFrom(rows, a, types)[1] \in Int
    BY <1>1, TotalBounds
  <2>3. QED
    BY <2>1, <2>2, Halfway
<1>3. Score(rows[i], a[i], types) = VIOLATION
  <2>1. rows[i] \in RowOf(props) /\ a[i] \in props
    BY <1>1
  <2>2. QED
    BY <1>2, <2>1, ScoreFacts
<1>4. QED
    BY <1>1, <1>3, Halfway

LEMMA TotalAgrees ==
    ASSUME NEW rows, NEW types, NEW a, NEW b, Len(rows) \in Nat, NEW k \in 1..Len(rows) + 1,
           \A r \in k..Len(rows) : a[r] = b[r]
    PROVE  TotalFrom(rows, a, types)[k] = TotalFrom(rows, b, types)[k]
<1> DEFINE n == Len(rows)
           A == TotalFrom(rows, a, types)
           B == TotalFrom(rows, b, types)
           S == {i \in 1..n + 1 : i >= k => A[i] = B[i]}
<1>1. /\ A[n + 1] = 0 /\ \A i \in 1..n : A[i] = Score(rows[i], a[i], types) + A[i + 1]
      /\ B[n + 1] = 0 /\ \A i \in 1..n : B[i] = Score(rows[i], b[i], types) + B[i + 1]
    BY TotalFromIs
<1> HIDE DEF n, A, B
<1>2. n \in Nat
    BY DEF n
<1>3. n + 1 \in S
    BY <1>1, <1>2
<1>4. ASSUME NEW i \in 1..n, i + 1 \in S PROVE i \in S
  <2>1. i >= k => i \in k..n /\ i + 1 >= k
    BY <1>2
  <2>2. i >= k => a[i] = b[i] /\ A[i + 1] = B[i + 1]
    BY <1>4, <2>1 DEF n
  <2>3. QED
    BY <1>1, <1>2, <2>2
<1>5. \A i \in 1..n + 1 : i \in S
  <2> HIDE DEF S
  <2> QED
    BY <1>2, <1>3, <1>4, DownwardInduction
<1>6. QED
    BY <1>5 DEF n, A, B

LEMMA RelaxedAlone ==
    ASSUME NEW W, {} \in W, NEW e \in Cell(W), e.ways > 0
    PROVE  Relaxed({e}) = e
<1>1. {e} \subseteq Cell(W) /\ e.score \in Int
    BY DEF Cell
<1>2. e.ways > 0 /\ \A d \in {e} : d.ways > 0 => e.score >= d.score
    BY <1>1
<1>3. \A d \in {e} : d.ways > 0 /\ d # e => e.score > d.score
    OBVIOUS
<1>4. QED
    BY <1>1, <1>2, <1>3, RelaxedFacts

(* Once all are hoisted that are to be, the rows left take the rest.       *)
Trailing(a, rows, rest, hoisted, props) ==
    /\ Given(rows, rest, hoisted, props) /\ Len(rest) = Len(rows) - Len(hoisted)
    /\ a \in [DOMAIN rows -> props]
    /\ \A r \in 1..Len(rows) : r > Len(hoisted) => a[r] = rest[r - Len(hoisted)]

LEMMA LastColumn ==
    ASSUME NEW props, NEW rows, NEW rest, NEW hoisted, NEW types, NEW a,
           Trailing(a, rows, rest, hoisted, props)
    PROVE  \A i \in 1..Len(rows) + 1 : i > Len(hoisted) =>
              HoistTable(rows, rest, hoisted, types)[i][Len(hoisted)]
                = Entry(TotalFrom(rows, a, types)[i], 1, {})
<1> DEFINE n == Len(rows)
           H == Len(hoisted)
           dp == HoistTable(rows, rest, hoisted, types)
           T == TotalFrom(rows, a, types)
           S == {i \in 1..n + 1 : i > H => dp[i][H] = Entry(T[i], 1, {})}
<1>1. n \in Nat /\ H \in Nat /\ H \in 0..H /\ DOMAIN rest = 1..n - H /\ DOMAIN rows = 1..n
    BY DEF Given, Trailing
<1>2. /\ dp[n + 1][H] = Entry(0, 1, {})
      /\ \A i \in 1..n : dp[i][H] = Relaxed(Onward(rows, rest, hoisted, types, dp[i + 1], i, H))
    BY <1>1, HoistTableIs
<1>3. T[n + 1] = 0 /\ \A i \in 1..n : T[i] = Score(rows[i], a[i], types) + T[i + 1]
    BY <1>1, TotalFromIs
<1>4. \A i \in 1..n + 1 : T[i] \in Int
    BY TotalBounds DEF Given, Trailing
<1>5. \A i \in 1..n : \A e : e \in Onward(rows, rest, hoisted, types, dp[i + 1], i, H) <=>
         \/ i - H \in DOMAIN rest /\ e = FromRest(rows, rest, types, dp[i + 1], i, H)
         \/ H + 1 <= H /\ e = FromHoist(rows, hoisted, types, dp[i + 1], i, H)
    BY <1>1, OnwardIs DEF Trailing
<1>6. \A i \in 1..n : Score(rows[i], a[i], types) \in Int
  <2>1. \A i \in 1..n : rows[i] \in RowOf(props) /\ a[i] \in props
    BY <1>1 DEF Given, Trailing
  <2>2. QED
    BY <2>1, ScoreFacts
<1>7. \A r \in 1..n : r > H => a[r] = rest[r - H] /\ r - H \in DOMAIN rest
    BY <1>1 DEF Trailing
<1> HIDE DEF n, H, dp, T
<1>8. n + 1 \in S
    BY <1>1, <1>2, <1>3
<1>9. ASSUME NEW i \in 1..n, i + 1 \in S, i > H PROVE dp[i][H] = Entry(T[i], 1, {})
  <2> DEFINE e == Entry(T[i], 1, {})
  <2>1. dp[i + 1][H] = Entry(T[i + 1], 1, {})
    BY <1>1, <1>9
  <2>2. FromRest(rows, rest, types, dp[i + 1], i, H)
          = Entry(T[i + 1] + Score(rows[i], a[i], types), 1, {})
    <3>1. a[i] = rest[i - H]
        BY <1>7, <1>9
    <3>2. /\ dp[i + 1][H].score = T[i + 1] /\ dp[i + 1][H].ways = 1
          /\ dp[i + 1][H].way = {}
        BY <2>1 DEF Entry
    <3>3. QED
        BY <3>1, <3>2 DEF FromRest
  <2>3. i + 1 \in 1..n + 1 /\ i \in 1..n + 1
    BY <1>1
  <2>4. T[i + 1] + Score(rows[i], a[i], types) = T[i]
    BY <1>3, <1>4, <1>6, <2>3
  <2>5. Onward(rows, rest, hoisted, types, dp[i + 1], i, H) = {e}
    <3>1. ~ (H + 1 <= H) /\ i - H \in DOMAIN rest
        BY <1>1, <1>7, <1>9
    <3>2. FromRest(rows, rest, types, dp[i + 1], i, H) = e
        BY <2>2, <2>4
    <3> HIDE DEF e
    <3>3. \A x : x \in Onward(rows, rest, hoisted, types, dp[i + 1], i, H) <=> x = e
        BY <1>5, <3>1, <3>2
    <3>4. QED
        BY <3>3
  <2>6. e \in Cell({{}}) /\ e.ways > 0
    BY <1>4, <2>3 DEF Cell, Entry
  <2>7. Relaxed({e}) = e
    <3> HIDE DEF e
    <3>1. {} \in {{}}
        OBVIOUS
    <3>2. QED
        BY <2>6, <3>1, RelaxedAlone
  <2> HIDE DEF e
  <2>8. dp[i][H] = e
    BY <1>2, <2>5, <2>7
  <2>9. QED
    BY <2>8 DEF e
<1>10. \A i \in 1..n + 1 : i \in S
  <2>1. ASSUME NEW i \in 1..n, i + 1 \in S PROVE i \in S
    BY <1>1, <1>9, <2>1
  <2> HIDE DEF S
  <2>2. QED
    BY <1>1, <1>8, <2>1, DownwardInduction
<1>11. QED
    BY <1>10 DEF n, H, dp, T

(* What a cell says of the rows that may be hoisted from a set: t is what  *)
(* each comes to.                                                          *)
Alone(t, S, k) == \A l \in S : l # k => t[k] > t[l]
Wins(c, t, S) ==
    /\ c.score \in Int /\ c.ways \in 1..2
    /\ \A k \in S : c.score >= t[k]
    /\ \E k \in S : c.score = t[k]
    /\ c.ways = 1 <=> \E k \in S : Alone(t, S, k)
    /\ \A k \in S : Alone(t, S, k) => c.way = {k}

LEMMA BetterOfTwo ==
    ASSUME NEW W, {} \in W, NEW S, NEW i, i \notin S, NEW t \in [S -> Int],
           NEW u \in [S \union {i} -> Int], NEW s \in Int, NEW c, Wins(c, t, S),
           \A k \in S : u[k] = t[k] + s,
           NEW x, x = Entry(u[i], 1, {i}), x \in Cell(W),
           NEW y, y = Entry(c.score + s, c.ways, c.way), y \in Cell(W)
    PROVE  Wins(Relaxed({y, x}), u, S \union {i})
<1> DEFINE d == Relaxed({y, x})
           U == S \union {i}
<1>1. {y, x} \subseteq Cell(W) /\ x.ways = 1 /\ x.score = u[i] /\ x.way = {i}
      /\ y.ways = c.ways /\ y.score = c.score + s /\ y.way = c.way
    BY DEF Entry
<1>2. /\ c.score \in Int /\ c.ways \in 1..2
      /\ \A k \in S : c.score >= t[k]
      /\ \E k \in S : c.score = t[k]
      /\ c.ways = 1 <=> \E k \in S : Alone(t, S, k)
      /\ \A k \in S : Alone(t, S, k) => c.way = {k}
    BY DEF Wins
<1>3. \A k \in S : t[k] \in Int /\ u[k] \in Int /\ u[k] = t[k] + s /\ k # i
    OBVIOUS
<1>4. u[i] \in Int
    OBVIOUS
<1>5. /\ \A k \in S : y.score >= u[k]
      /\ \E k \in S : y.score = u[k]
      /\ y.score \in Int
    BY <1>1, <1>2, <1>3
<1>6. \A k, l \in S : t[k] > t[l] <=> u[k] > u[l]
    BY <1>3
<1>7. \A k \in S : Alone(t, S, k) <=> \A l \in S : l # k => u[k] > u[l]
    BY <1>6 DEF Alone
<1>8. \A k \in S : Alone(u, U, k) <=> Alone(t, S, k) /\ u[k] > u[i]
  <2>1. SUFFICES ASSUME NEW k \in S
                 PROVE  Alone(u, U, k) <=> Alone(t, S, k) /\ u[k] > u[i]
    OBVIOUS
  <2>2. Alone(u, U, k) <=> (\A l \in S : l # k => u[k] > u[l]) /\ u[k] > u[i]
    BY <1>3 DEF Alone
  <2>3. QED
    BY <1>7, <2>2
<1>9. Alone(u, U, i) <=> \A l \in S : u[i] > u[l]
    BY <1>3 DEF Alone
<1>10. x # y
  <2>1. SUFFICES ASSUME x = y PROVE FALSE
    OBVIOUS
  <2>2. c.ways = 1 /\ c.way = {i}
    BY <1>1, <2>1
  <2>3. PICK k \in S : Alone(t, S, k)
    BY <1>2, <2>2
  <2>4. {i} = {k}
    BY <1>2, <2>2, <2>3
  <2>5. QED
    BY <1>3, <2>4
<1>11. /\ d \in Cell(W)
       /\ \A e \in {y, x} :
             e.ways > 0 /\ (\A f \in {y, x} : f.ways > 0 => e.score >= f.score) =>
                /\ d.ways > 0 /\ d.score = e.score
                /\ d.ways = 1 <=>
                      e.ways = 1 /\ \A f \in {y, x} : f.ways > 0 /\ f # e => e.score > f.score
                /\ (\A f \in {y, x} : f.ways > 0 /\ f # e => e.score > f.score) => d = e
  <2> DEFINE E == {y, x}
  <2>1. E \subseteq Cell(W)
    BY <1>1
  <2> HIDE DEF E
  <2>2. /\ Relaxed(E) \in Cell(W)
        /\ \A e \in E :
              e.ways > 0 /\ (\A f \in E : f.ways > 0 => e.score >= f.score) =>
                 /\ Relaxed(E).ways > 0 /\ Relaxed(E).score = e.score
                 /\ Relaxed(E).ways = 1 <=>
                       e.ways = 1 /\ \A f \in E : f.ways > 0 /\ f # e => e.score > f.score
                 /\ (\A f \in E : f.ways > 0 /\ f # e => e.score > f.score) => Relaxed(E) = e
    BY <2>1, RelaxedFacts
  <2>3. QED
    BY <2>2, Zenon DEF E
<1>12. d.score \in Int /\ d.ways \in 0..2
    BY <1>11 DEF Cell
<1> SUFFICES Wins(d, u, U)
    OBVIOUS
<1> HIDE DEF d, U
<1>13. U = S \union {i}
    BY DEF U
<1>14. CASE y.score > u[i]
  <2>1. d = y
    BY <1>1, <1>2, <1>4, <1>5, <1>11, <1>14
  <2>2. \A k \in S : Alone(t, S, k) => u[k] = y.score
    <3>1. SUFFICES ASSUME NEW k \in S, Alone(t, S, k) PROVE u[k] = y.score
        OBVIOUS
    <3>2. PICK l \in S : y.score = u[l]
        BY <1>5
    <3>3. k = l \/ u[k] > u[l]
        BY <1>7, <3>1
    <3>4. QED
        BY <1>3, <1>5, <3>2, <3>3
  <2>3. \A k \in S : Alone(u, U, k) <=> Alone(t, S, k)
    BY <1>8, <1>14, <2>2
  <2>4. ~ Alone(u, U, i)
    <3>1. PICK l \in S : y.score = u[l]
        BY <1>5
    <3>2. QED
        BY <1>3, <1>4, <1>9, <1>14, <3>1
  <2>5. \A k \in U : d.score >= u[k]
    BY <1>4, <1>5, <1>13, <1>14, <2>1
  <2>6. \E k \in U : d.score = u[k]
    BY <1>5, <1>13, <2>1
  <2>7. d.ways = 1 <=> \E k \in U : Alone(u, U, k)
    BY <1>1, <1>2, <1>13, <2>1, <2>3, <2>4
  <2>8. \A k \in U : Alone(u, U, k) => d.way = {k}
    BY <1>1, <1>2, <1>13, <2>1, <2>3, <2>4
  <2>9. d.ways \in 1..2
    BY <1>1, <1>2, <2>1
  <2>10. QED
    BY <1>12, <2>5, <2>6, <2>7, <2>8, <2>9 DEF Wins
<1>15. CASE y.score < u[i]
  <2>1. d = x
    BY <1>1, <1>2, <1>4, <1>5, <1>11, <1>15
  <2>2. Alone(u, U, i)
    BY <1>3, <1>4, <1>5, <1>9, <1>15
  <2>3. \A k \in S : ~ Alone(u, U, k)
    BY <1>3, <1>4, <1>5, <1>8, <1>15
  <2>4. \A k \in U : d.score >= u[k]
    BY <1>1, <1>3, <1>4, <1>5, <1>13, <1>15, <2>1
  <2>5. (\E k \in U : d.score = u[k]) /\ d.ways = 1
    BY <1>1, <1>13, <2>1
  <2>6. \A k \in U : Alone(u, U, k) => d.way = {k}
    BY <1>1, <1>13, <2>1, <2>3
  <2>7. \E k \in U : Alone(u, U, k)
    BY <1>13, <2>2
  <2>8. QED
    BY <1>12, <2>4, <2>5, <2>6, <2>7 DEF Wins
<1>16. CASE y.score = u[i]
  <2>1. d.ways = 2 /\ d.score = u[i]
    <3>1. d.ways > 0 /\ d.score = x.score /\ d.ways # 1
        BY <1>1, <1>2, <1>4, <1>10, <1>11, <1>16
    <3>2. QED
        BY <1>1, <1>12, <3>1
  <2>2. \A k \in U : ~ Alone(u, U, k)
    <3>1. \A k \in S : ~ (u[k] > u[i])
        BY <1>3, <1>4, <1>5, <1>16
    <3>2. PICK l \in S : y.score = u[l]
        BY <1>5
    <3>3. ~ (u[i] > u[l])
        BY <1>3, <1>4, <1>16, <3>2
    <3>4. QED
        BY <1>8, <1>9, <1>13, <3>1, <3>3
  <2>3. \A k \in U : d.score >= u[k]
    BY <1>4, <1>5, <1>13, <1>16, <2>1
  <2>4. \E k \in U : d.score = u[k]
    BY <1>13, <2>1
  <2>5. QED
    BY <1>12, <2>1, <2>2, <2>3, <2>4 DEF Wins
<1>17. QED
    BY <1>4, <1>5, <1>14, <1>15, <1>16

(* One property is hoisted: the alignment in which row k has it.           *)
Shift(rest, hoisted, n, k) ==
    [i \in 1..n |-> IF i = k THEN hoisted[1] ELSE IF i < k THEN rest[i] ELSE rest[i - 1]]
Single(rows, rest, hoisted, props) ==
    Given(rows, rest, hoisted, props) /\ Len(hoisted) = 1 /\ Len(rest) = Len(rows) - 1
ShiftTotals(rows, rest, hoisted, types, i) ==
    [k \in i..Len(rows) |-> TotalFrom(rows, Shift(rest, hoisted, Len(rows), k), types)[i]]

LEMMA SingleFacts ==
    ASSUME NEW props, NEW rows, NEW rest, NEW hoisted, Single(rows, rest, hoisted, props)
    PROVE  LET n == Len(rows)
           IN  /\ n \in Nat /\ n >= 1 /\ DOMAIN rows = 1..n /\ DOMAIN rest = 1..n - 1
               /\ DOMAIN hoisted = {1} /\ hoisted[1] \in props
               /\ \A i \in 1..n : rows[i] \in RowOf(props)
               /\ \A i \in 1..n - 1 : rest[i] \in props
               /\ \A k \in 1..n : Shift(rest, hoisted, n, k) \in [DOMAIN rows -> props]
<1> DEFINE n == Len(rows)
<1>1. /\ n \in Nat /\ n >= 1 /\ DOMAIN rows = 1..n /\ DOMAIN rest = 1..n - 1
      /\ DOMAIN hoisted = {1} /\ hoisted[1] \in props
      /\ \A i \in 1..n : rows[i] \in RowOf(props)
      /\ \A i \in 1..n - 1 : rest[i] \in props
  <2>1. /\ rows \in Seq(RowOf(props)) /\ rest \in Seq(props) /\ hoisted \in Seq(props)
        /\ Len(hoisted) = 1 /\ Len(rest) = n - 1
    BY DEF Single, Given
  <2>2. n \in Nat /\ Len(rest) \in Nat /\ DOMAIN rows = 1..n /\ DOMAIN rest = 1..Len(rest)
        /\ DOMAIN hoisted = 1..1
    BY <2>1
  <2>3. n >= 1 /\ 1..1 = {1} /\ 1 \in 1..1
    BY <2>1, <2>2
  <2>4. \A i \in 1..n : rows[i] \in RowOf(props)
    BY <2>1, <2>2
  <2>5. \A i \in 1..Len(rest) : rest[i] \in props
    BY <2>1, <2>2
  <2>6. hoisted[1] \in props
    <3>1. hoisted \in Seq(props) /\ 1 \in DOMAIN hoisted
        BY <2>1, <2>2, <2>3
    <3>2. QED
        BY <3>1
  <2>7. QED
    BY <2>1, <2>2, <2>3, <2>4, <2>5, <2>6
<1>2. ASSUME NEW k \in 1..n PROVE Shift(rest, hoisted, n, k) \in [DOMAIN rows -> props]
  <2>1. ASSUME NEW i \in 1..n
        PROVE  (IF i = k THEN hoisted[1] ELSE IF i < k THEN rest[i] ELSE rest[i - 1]) \in props
    <3>1. i < k => i \in 1..n - 1
        BY <1>1
    <3>2. i # k /\ ~ (i < k) => i - 1 \in 1..n - 1
        BY <1>1
    <3>3. QED
        BY <1>1, <3>1, <3>2
  <2>2. QED
    BY <1>1, <2>1 DEF Shift
<1>3. QED
    BY <1>1, <1>2

LEMMA FirstColumn ==
    ASSUME NEW props, NEW rows, NEW rest, NEW hoisted, NEW types,
           Single(rows, rest, hoisted, props)
    PROVE  \A i \in 1..Len(rows) :
              Wins(HoistTable(rows, rest, hoisted, types)[i][0],
                   ShiftTotals(rows, rest, hoisted, types, i), i..Len(rows))
<1> DEFINE n == Len(rows)
           dp == HoistTable(rows, rest, hoisted, types)
           at(k) == Shift(rest, hoisted, n, k)
           T(k) == TotalFrom(rows, at(k), types)
           t(i) == ShiftTotals(rows, rest, hoisted, types, i)
           W == SUBSET (1..n)
           S == {i \in 1..n + 1 : i <= n => Wins(dp[i][0], t(i), i..n)}
<1>1. /\ n \in Nat /\ n >= 1 /\ DOMAIN rows = 1..n /\ DOMAIN rest = 1..n - 1
      /\ DOMAIN hoisted = {1} /\ hoisted[1] \in props
      /\ \A i \in 1..n : rows[i] \in RowOf(props)
      /\ \A i \in 1..n - 1 : rest[i] \in props
      /\ \A k \in 1..n : at(k) \in [DOMAIN rows -> props]
      /\ Given(rows, rest, hoisted, props) /\ Len(hoisted) = 1 /\ Len(rest) = n - 1
    BY SingleFacts DEF Single
<1>2. ASSUME NEW k \in 1..n
      PROVE  /\ \A i \in 1..n + 1 : T(k)[i] \in Int
             /\ \A i \in 1..n : T(k)[i] = Score(rows[i], at(k)[i], types) + T(k)[i + 1]
  <2>1. rows \in Seq(RowOf(props))
    BY <1>1 DEF Given
  <2>2. \A i \in 1..n + 1 : T(k)[i] \in Int
    BY <1>1, <2>1, TotalBounds
  <2>3. \A i \in 1..n : T(k)[i] = Score(rows[i], at(k)[i], types) + T(k)[i + 1]
    BY <1>1, TotalFromIs
  <2>4. QED
    BY <2>2, <2>3
<1>3. \A k, i \in 1..n : at(k)[i] =
         IF i = k THEN hoisted[1] ELSE IF i < k THEN rest[i] ELSE rest[i - 1]
    BY DEF Shift
<1>4. \A i \in 1..n + 1 : i > 1 => dp[i][1] = Entry(T(1)[i], 1, {})
  <2>1. 1 \in 1..n
    BY <1>1
  <2>2. at(1) \in [DOMAIN rows -> props]
    BY <1>1, <2>1
  <2>3. \A r \in 1..n : at(1)[r] =
           IF r = 1 THEN hoisted[1] ELSE IF r < 1 THEN rest[r] ELSE rest[r - 1]
    BY <1>3, <2>1
  <2>4. \A r \in 1..n : r > 1 => at(1)[r] = rest[r - 1]
    <3>1. \A r \in 1..n : r \in Int
        BY <1>1
    <3> HIDE DEF at, n
    <3>2. QED
        BY <2>3, <3>1
  <2> DEFINE H == Len(hoisted)
  <2>5. H = 1 /\ Len(rest) = Len(rows) - H
    BY <1>1
  <2>6. \A r \in 1..Len(rows) : r > H => at(1)[r] = rest[r - H]
    BY <2>4, <2>5
  <2>7. \A i \in 1..Len(rows) + 1 : i > H => dp[i][H] = Entry(TotalFrom(rows, at(1), types)[i], 1, {})
    <3> DEFINE b == at(1)
    <3>1. Trailing(b, rows, rest, hoisted, props)
        BY <1>1, <2>2, <2>5, <2>6 DEF Trailing
    <3> HIDE DEF b, dp
    <3>2. \A i \in 1..Len(rows) + 1 : i > Len(hoisted) =>
             HoistTable(rows, rest, hoisted, types)[i][Len(hoisted)]
               = Entry(TotalFrom(rows, b, types)[i], 1, {})
        BY <3>1, LastColumn
    <3>3. QED
        BY <3>2 DEF b, dp
  <2> HIDE DEF H, dp
  <2>8. QED
    BY <2>5, <2>7
<1>5. \A i \in 1..n : T(i)[i + 1] = T(1)[i + 1]
  <2> SUFFICES ASSUME NEW i \in 1..n PROVE T(i)[i + 1] = T(1)[i + 1]
    OBVIOUS
  <2>1. \A r \in (i + 1)..n : at(i)[r] = at(1)[r]
    BY <1>1, <1>3
  <2>2. i + 1 \in 1..n + 1
    BY <1>1
  <2> DEFINE a == at(i)
             b == at(1)
  <2>3. Len(rows) \in Nat /\ i + 1 \in 1..Len(rows) + 1
        /\ \A r \in (i + 1)..Len(rows) : a[r] = b[r]
    BY <1>1, <2>1, <2>2
  <2> HIDE DEF a, b, n
  <2>4. TotalFrom(rows, a, types)[i + 1] = TotalFrom(rows, b, types)[i + 1]
    BY <2>3, TotalAgrees
  <2>5. QED
    BY <2>4 DEF a, b
<1>6. /\ \A i \in 1..n :
            dp[i][0] = Relaxed(Onward(rows, rest, hoisted, types, dp[i + 1], i, 0))
      /\ \A i \in 1..n : \A e : e \in Onward(rows, rest, hoisted, types, dp[i + 1], i, 0) <=>
            \/ i - 0 \in DOMAIN rest /\ e = FromRest(rows, rest, types, dp[i + 1], i, 0)
            \/ 0 + 1 <= 1 /\ e = FromHoist(rows, hoisted, types, dp[i + 1], i, 0)
  <2>1. 0 \in 0..Len(hoisted) /\ Len(hoisted) = 1
    BY <1>1
  <2>2. \A i \in 1..n :
           dp[i][0] = Relaxed(Onward(rows, rest, hoisted, types, dp[i + 1], i, 0))
    BY <1>1, <2>1, HoistTableIs
  <2> HIDE DEF dp
  <2>3. \A i \in 1..n : \A e : e \in Onward(rows, rest, hoisted, types, dp[i + 1], i, 0) <=>
            \/ i - 0 \in DOMAIN rest /\ e = FromRest(rows, rest, types, dp[i + 1], i, 0)
            \/ 0 + 1 <= Len(hoisted) /\ e = FromHoist(rows, hoisted, types, dp[i + 1], i, 0)
    <3>1. Given(rows, rest, hoisted, props)
        BY <1>1
    <3> HIDE DEF n
    <3> SUFFICES ASSUME NEW i \in 1..n, NEW next, next = dp[i + 1]
                 PROVE  \A e : e \in Onward(rows, rest, hoisted, types, next, i, 0) <=>
                    \/ i - 0 \in DOMAIN rest /\ e = FromRest(rows, rest, types, next, i, 0)
                    \/ 0 + 1 <= Len(hoisted) /\ e = FromHoist(rows, hoisted, types, next, i, 0)
        OBVIOUS
    <3>2. i \in 1..Len(rows)
        BY DEF n
    <3>3. QED
        BY <2>1, <3>1, <3>2, OnwardIs
  <2>4. QED
    BY <2>1, <2>2, <2>3
<1>7. \A i \in 1..n : Score(rows[i], hoisted[1], types) \in Int
                      /\ BestHoisted(rows[i], hoisted, types) = Score(rows[i], hoisted[1], types)
  <2>1. hoisted \in Seq(props) /\ Len(hoisted) # 0
    BY <1>1 DEF Given
  <2>2. ASSUME NEW i \in 1..n PROVE Score(rows[i], hoisted[1], types) \in Int
    BY <1>1, ScoreFacts
  <2>3. ASSUME NEW i \in 1..n
        PROVE  BestHoisted(rows[i], hoisted, types) = Score(rows[i], hoisted[1], types)
    <3> DEFINE row == rows[i]
               best == BestHoisted(row, hoisted, types)
    <3>1. row \in RowOf(props)
        BY <1>1
    <3> HIDE DEF row
    <3>2. \E j \in DOMAIN hoisted : best = Score(row, hoisted[j], types)
        BY <2>1, <3>1, BestHoistedIs
    <3>3. DOMAIN hoisted = {1}
        BY <1>1
    <3> HIDE DEF best
    <3>4. best = Score(row, hoisted[1], types)
        BY <3>2, <3>3
    <3>5. QED
        BY <3>4 DEF best, row
  <2>4. QED
    BY <2>2, <2>3
<1>8. \A i \in 1..n - 1 : Score(rows[i], rest[i], types) \in Int
    BY <1>1, ScoreFacts
<1>9. ASSUME NEW i \in 1..n
      PROVE  /\ t(i) \in [i..n -> Int] /\ \A k \in i..n : k \in 1..n /\ t(i)[k] = T(k)[i]
  <2>1. t(i) = [k \in i..n |-> T(k)[i]]
    BY DEF ShiftTotals
  <2>2. \A k \in i..n : k \in 1..n
    BY <1>1
  <2>3. i \in 1..n + 1
    BY <1>1
  <2> HIDE DEF T, t, n
  <2>4. QED
    BY <1>2, <2>1, <2>2, <2>3
<1>10. \A i \in 1..n + 1 : \A h \in 0..1 : dp[i][h] \in Cell(W)
    BY <1>1, HoistCells DEF Due
<1>11. ASSUME NEW i \in 1..n
       PROVE  LET x == Entry(t(i)[i], 1, {i})
              IN  FromHoist(rows, hoisted, types, dp[i + 1], i, 0) = x /\ x \in Cell(W)
  <2>1. i \in i..n /\ i + 1 \in 1..n + 1 /\ i + 1 > 1 /\ i \in 1..n + 1
    BY <1>1
  <2>2. dp[i + 1][1] = Entry(T(1)[i + 1], 1, {})
    BY <1>4, <2>1
  <2>3. dp[i + 1][1].score = T(1)[i + 1] /\ dp[i + 1][1].ways = 1 /\ dp[i + 1][1].way = {}
    BY <2>2 DEF Entry
  <2>4. t(i)[i] = Score(rows[i], hoisted[1], types) + T(1)[i + 1]
    <3>1. at(i)[i] = hoisted[1]
        BY <1>3
    <3>2. t(i)[i] = T(i)[i]
        BY <1>9, <2>1
    <3> HIDE DEF t, T, at, n
    <3>3. QED
        BY <1>2, <1>5, <3>1, <3>2
  <2>5. t(i)[i] = T(1)[i + 1] + Score(rows[i], hoisted[1], types) /\ t(i)[i] \in Int
    <3>1. T(1)[i + 1] \in Int /\ 1 \in 1..n
        BY <1>1, <1>2, <2>1
    <3> HIDE DEF t, T, n
    <3>2. QED
        BY <1>7, <2>4, <3>1
  <2> HIDE DEF t, T, n, dp
  <2>6. FromHoist(rows, hoisted, types, dp[i + 1], i, 0)
          = Entry(T(1)[i + 1] + Score(rows[i], hoisted[1], types), 1, {} \union {i})
    BY <1>7, <2>3 DEF FromHoist
  <2>7. Entry(t(i)[i], 1, {i}) \in Cell(W)
    BY <2>5 DEF Cell, Entry
  <2>8. {} \union {i} = {i}
    OBVIOUS
  <2>9. QED
    BY <2>5, <2>6, <2>7, <2>8
<1> HIDE DEF dp, T, t, n, at
<1>12. ASSUME n \in 1..n PROVE Wins(dp[n][0], t(n), n..n)
  <2> DEFINE x == Entry(t(n)[n], 1, {n})
  <2>1. FromHoist(rows, hoisted, types, dp[n + 1], n, 0) = x /\ x \in Cell(W)
    BY <1>11, <1>12
  <2> HIDE DEF x
  <2>2. Onward(rows, rest, hoisted, types, dp[n + 1], n, 0) = {x}
    <3>1. ~ (n - 0 \in DOMAIN rest) /\ 0 + 1 <= 1
        BY <1>1
    <3>2. \A e : e \in Onward(rows, rest, hoisted, types, dp[n + 1], n, 0) <=> e = x
        BY <1>6, <1>12, <2>1, <3>1
    <3>3. QED
        BY <3>2
  <2>3. x.score = t(n)[n] /\ x.ways = 1 /\ x.way = {n}
    BY DEF x, Entry
  <2>4. Relaxed({x}) = x
    <3>1. {} \in W
        OBVIOUS
    <3> HIDE DEF W
    <3>2. QED
        BY <2>1, <2>3, <3>1, RelaxedAlone
  <2>5. dp[n][0] = x
    BY <1>6, <1>12, <2>2, <2>4
  <2>6. n..n = {n} /\ t(n)[n] \in Int
    BY <1>1, <1>9, <1>12
  <2>7. Alone(t(n), {n}, n)
    BY DEF Alone
  <2>8. Wins(x, t(n), {n})
    BY <2>3, <2>6, <2>7 DEF Wins
  <2>9. QED
    BY <2>5, <2>6, <2>8
<1>13. ASSUME NEW i \in 1..n - 1, Wins(dp[i + 1][0], t(i + 1), (i + 1)..n)
       PROVE  Wins(dp[i][0], t(i), i..n)
  <2> DEFINE x == Entry(t(i)[i], 1, {i})
             c == dp[i + 1][0]
             s == Score(rows[i], rest[i], types)
             y == Entry(c.score + s, c.ways, c.way)
  <2>1. i \in 1..n /\ i + 1 \in 1..n /\ i + 1 \in 1..n + 1 /\ i - 0 \in DOMAIN rest /\ i - 0 = i
    BY <1>1
  <2>2. FromHoist(rows, hoisted, types, dp[i + 1], i, 0) = x /\ x \in Cell(W)
    BY <1>11, <2>1
  <2>3. FromRest(rows, rest, types, dp[i + 1], i, 0) = y
    BY <2>1 DEF FromRest
  <2>4. s \in Int
    BY <1>8
  <2>5. y \in Cell(W)
    <3>1. c \in Cell(W)
      <4>1. 0 \in 0..1
        OBVIOUS
      <4>2. QED
        BY <1>10, <2>1, <4>1
    <3> HIDE DEF s, c
    <3>2. QED
        BY <2>4, <3>1 DEF Cell, Entry
  <2>6. i..n = (i + 1)..n \union {i} /\ i \notin (i + 1)..n
    BY <1>1
  <2>7. ASSUME NEW k \in (i + 1)..n PROVE t(i)[k] = t(i + 1)[k] + s
    <3>1. k \in 1..n /\ k \in i..n /\ i < k
        BY <1>1
    <3>2. t(i)[k] = T(k)[i] /\ t(i + 1)[k] = T(k)[i + 1]
        BY <1>9, <2>1, <3>1
    <3>3. T(k)[i] = Score(rows[i], at(k)[i], types) + T(k)[i + 1] /\ T(k)[i + 1] \in Int
        BY <1>2, <2>1, <3>1
    <3>4. at(k)[i] = rest[i]
        BY <1>3, <2>1, <3>1
    <3> HIDE DEF s
    <3>5. T(k)[i] = s + T(k)[i + 1]
        BY <3>3, <3>4 DEF s
    <3>6. QED
        BY <2>4, <3>2, <3>3, <3>5
  <2> HIDE DEF x, c, s
  <2>8. Onward(rows, rest, hoisted, types, dp[i + 1], i, 0) = {y, x}
    <3> HIDE DEF y
    <3>1. 0 + 1 <= 1
        OBVIOUS
    <3>2. \A e : e \in Onward(rows, rest, hoisted, types, dp[i + 1], i, 0) <=> e = y \/ e = x
        BY <1>6, <2>1, <2>2, <2>3, <3>1
    <3>3. QED
        BY <3>2
  <2>9. t(i + 1) \in [(i + 1)..n -> Int] /\ t(i) \in [(i + 1)..n \union {i} -> Int]
    BY <1>9, <2>1, <2>6
  <2>10. Wins(Relaxed({y, x}), t(i), (i + 1)..n \union {i})
    <3>1. Wins(c, t(i + 1), (i + 1)..n)
        BY <1>13 DEF c
    <3>2. x = Entry(t(i)[i], 1, {i}) /\ y = Entry(c.score + s, c.ways, c.way)
        BY DEF x
    <3>3. {} \in W
        OBVIOUS
    <3> HIDE DEF W, y
    <3>4. QED
        BY <2>2, <2>4, <2>5, <2>6, <2>7, <2>9, <3>1, <3>2, <3>3, BetterOfTwo, ZenonT(30)
  <2>11. QED
    BY <1>6, <2>1, <2>6, <2>8, <2>10
<1>14. n + 1 \in S
    BY <1>1
<1>15. ASSUME NEW i \in 1..n, i + 1 \in S PROVE i \in S
  <2>1. CASE i = n
    <3>1. n \in 1..n + 1
        BY <1>1
    <3>2. QED
        BY <1>12, <2>1, <3>1
  <2>2. CASE i # n
    <3>1. i \in 1..n - 1 /\ i + 1 <= n /\ i \in 1..n + 1
        BY <1>1, <2>2
    <3>2. Wins(dp[i + 1][0], t(i + 1), (i + 1)..n)
        BY <1>15, <3>1
    <3>3. QED
        BY <1>13, <3>1, <3>2
  <2>3. QED
    BY <2>1, <2>2
<1>16. \A i \in 1..n + 1 : i \in S
  <2> HIDE DEF S
  <2> QED
    BY <1>1, <1>14, <1>15, DownwardInduction
<1>17. \A i \in 1..n : Wins(dp[i][0], t(i), i..n)
  <2>1. \A i \in 1..n : i \in 1..n + 1 /\ i <= n
    BY <1>1
  <2>2. QED
    BY <1>16, <2>1
<1>18. QED
    BY <1>17 DEF dp, t, n

LEMMA SecondOfOne ==
    ASSUME NEW props, NEW rows, NEW rest, NEW hoisted, NEW types,
           Single(rows, rest, hoisted, props), NEW k \in 1..Len(rows)
    PROVE  Second(rows, {k}, hoisted, types) = Entry(Score(rows[k], hoisted[1], types), 1, <<hoisted[1]>>)
<1> DEFINE n == Len(rows)
           moved == Moved(rows, {k}, hoisted)
           best == AssignTable(moved, hoisted, types)
           s == Score(rows[k], hoisted[1], types)
           e == Entry(s, 1, <<hoisted[1]>>)
<1>1. /\ n \in Nat /\ DOMAIN rows = 1..n /\ DOMAIN hoisted = {1} /\ hoisted[1] \in props
      /\ rows \in Seq(RowOf(props)) /\ hoisted \in Seq(props) /\ Len(hoisted) = 1
      /\ rows[k] \in RowOf(props)
    BY SingleFacts DEF Single, Given
<1>2. IsFiniteSet({1}) /\ Cardinality({1}) = 1 /\ Cardinality({k}) = 1
    BY FS_Singleton
<1>3. moved[1] = rows[k]
  <2> DEFINE M == {k}
  <2>1. Earlier(M, k) = 0
    <3>1. {m \in M : m < k} = {}
        BY <1>1
    <3>2. QED
        BY <3>1, FS_EmptySet DEF Earlier
  <2>2. \A i : i \in M <=> i = k
    OBVIOUS
  <2> HIDE DEF M
  <2>3. (CHOOSE i \in M : Earlier(M, i) = 1 - 1) = k
    BY <2>1, <2>2
  <2>4. 1 \in DOMAIN hoisted
    BY <1>1
  <2>5. Moved(rows, M, hoisted)[1] = rows[k]
    BY <2>3, <2>4 DEF Moved
  <2>6. QED
    BY <2>5 DEF M
<1>4. s \in Int
    BY <1>1, ScoreFacts
<1> HIDE DEF moved
<1>5. /\ best[{}] = Entry(0, 1, << >>)
      /\ best[{1}] = Relaxed(Taking(moved, hoisted, types, best, {1}))
  <2>1. IsFiniteSet(DOMAIN hoisted) /\ {1} \in SUBSET DOMAIN hoisted /\ {1} # {}
    BY <1>1, <1>2
  <2>2. QED
    BY <2>1, AssignTableIs
<1> HIDE DEF best
<1>6. Taking(moved, hoisted, types, best, {1}) = {e}
  <2>1. best[{}].score = 0 /\ best[{}].ways = 1 /\ best[{}].way = << >> /\ {1} \ {1} = {}
    BY <1>5 DEF Entry
  <2>2. Append(<< >>, hoisted[1]) = <<hoisted[1]>>
    OBVIOUS
  <2>3. Score(moved[Cardinality({1})], hoisted[1], types) = s
    BY <1>2, <1>3
  <2> HIDE DEF s
  <2>4. 0 + s = s
    BY <1>4
  <2>5. Entry(best[{1} \ {1}].score + Score(moved[Cardinality({1})], hoisted[1], types),
              best[{1} \ {1}].ways, Append(best[{1} \ {1}].way, hoisted[1])) = e
    BY <2>1, <2>2, <2>3, <2>4
  <2> HIDE DEF e
  <2>6. \A x : x \in Taking(moved, hoisted, types, best, {1}) <=> x = e
    BY <2>5, Zenon DEF Taking
  <2>7. QED
    BY <2>6
<1>7. Relaxed({e}) = e
  <2> DEFINE W == {{}, <<hoisted[1]>>}
  <2>1. e \in Cell(W) /\ e.ways > 0
    <3>1. <<hoisted[1]>> \in W
        OBVIOUS
    <3> HIDE DEF W, s
    <3>2. QED
        BY <1>4, <3>1 DEF Cell, Entry
  <2>2. {} \in W
    OBVIOUS
  <2> HIDE DEF W, e
  <2>3. QED
    BY <2>1, <2>2, RelaxedAlone
<1>8. QED
    BY <1>1, <1>5, <1>6, <1>7 DEF Second, moved, best

LEMMA ShiftPlacing ==
    ASSUME NEW props, NEW rows, NEW rest, NEW hoisted,
           Single(rows, rest, hoisted, props), NEW k \in 1..Len(rows)
    PROVE  Placing(rows, rest, {k}, <<hoisted[1]>>) = Shift(rest, hoisted, Len(rows), k)
<1> DEFINE n == Len(rows)
           M == {k}
           w == <<hoisted[1]>>
<1>1. n \in Nat /\ DOMAIN rows = 1..n
    BY SingleFacts
<1>2. Cardinality({}) = 0 /\ Cardinality({k}) = 1
    BY FS_EmptySet, FS_Singleton
<1>3. ASSUME NEW i \in 1..n
      PROVE  (IF i \in M THEN w[Earlier(M, i) + 1] ELSE rest[i - Earlier(M, i)])
               = IF i = k THEN hoisted[1] ELSE IF i < k THEN rest[i] ELSE rest[i - 1]
  <2>1. CASE k < i
    <3>1. {m \in M : m < i} = {k}
        BY <2>1
    <3>2. Earlier(M, i) = 1
        BY <1>2, <3>1 DEF Earlier
    <3>3. i \notin M /\ i # k /\ ~ (i < k)
        BY <1>1, <2>1
    <3>4. QED
        BY <3>2, <3>3
  <2>2. CASE ~ (k < i)
    <3>1. {m \in M : m < i} = {}
        BY <2>2
    <3>2. Earlier(M, i) = 0
        BY <1>2, <3>1 DEF Earlier
    <3>3. i = k \/ i < k
        BY <1>1, <2>2
    <3>4. w[0 + 1] = hoisted[1] /\ i - 0 = i
        BY <1>1
    <3>5. i < k => i # k
        BY <1>1
    <3>6. QED
        BY <3>2, <3>3, <3>4, <3>5
  <2>3. QED
    BY <2>1, <2>2
<1>4. [i \in 1..n |-> IF i \in M THEN w[Earlier(M, i) + 1] ELSE rest[i - Earlier(M, i)]]
       = [i \in 1..n |-> IF i = k THEN hoisted[1] ELSE IF i < k THEN rest[i] ELSE rest[i - 1]]
    BY <1>3
<1>5. QED
    BY <1>1, <1>4 DEF Placing, Shift

Breaking(rows, a, types) == \E i \in DOMAIN rows : Score(rows[i], a[i], types) <= VIOLATION \div 2

LEMMA SinglePlaced ==
    ASSUME NEW props, NEW rows, NEW rest, NEW hoisted, NEW types,
           Single(rows, rest, hoisted, props)
    PROVE  LET n == Len(rows)
               t == ShiftTotals(rows, rest, hoisted, types, 1)
           IN  AlignRows(rows, rest, hoisted, types) # Refused <=>
                  \E k \in 1..n : /\ Alone(t, 1..n, k)
                                  /\ ~ Breaking(rows, Shift(rest, hoisted, n, k), types)
<1> DEFINE n == Len(rows)
           t == ShiftTotals(rows, rest, hoisted, types, 1)
           c == First(rows, rest, hoisted, types)
           second == Second(rows, c.way, hoisted, types)
           placed == Placing(rows, rest, c.way, second.way)
           at(k) == Shift(rest, hoisted, n, k)
<1>1. /\ n \in Nat /\ n >= 1 /\ DOMAIN rows = 1..n /\ DOMAIN hoisted = {1} /\ hoisted[1] \in props
      /\ \A k \in 1..n : rows[k] \in RowOf(props) /\ at(k) \in [DOMAIN rows -> props]
      /\ rows \in Seq(RowOf(props))
  <2>1. rows \in Seq(RowOf(props))
    BY DEF Single, Given
  <2>2. QED
    BY <2>1, SingleFacts
<1>2. Wins(c, t, 1..n)
  <2>1. 1 \in 1..n
    BY <1>1
  <2>2. QED
    BY <2>1, FirstColumn DEF First
<1>3. /\ c.score \in Int /\ \E k \in 1..n : c.score = t[k]
      /\ \A k \in 1..n : c.score >= t[k]
      /\ c.ways = 1 <=> \E k \in 1..n : Alone(t, 1..n, k)
      /\ \A k \in 1..n : Alone(t, 1..n, k) => c.way = {k}
    BY <1>2 DEF Wins
<1>4. AlignRows(rows, rest, hoisted, types) =
        IF \/ c.ways # 1 \/ Impossible(c) \/ second.ways # 1 \/ Impossible(second)
           \/ Breaking(rows, placed, types)
        THEN Refused ELSE placed
    BY AlignRowsIs, Zenon DEF Breaking
<1>5. ASSUME NEW k \in 1..n, c.way = {k}
      PROVE  second = Entry(Score(rows[k], hoisted[1], types), 1, <<hoisted[1]>>) /\ placed = at(k)
  <2>1. second = Entry(Score(rows[k], hoisted[1], types), 1, <<hoisted[1]>>)
    BY <1>5, SecondOfOne
  <2>2. second.way = <<hoisted[1]>>
    BY <2>1 DEF Entry
  <2>3. Placing(rows, rest, {k}, <<hoisted[1]>>) = at(k)
    BY ShiftPlacing
  <2>4. placed = Placing(rows, rest, {k}, <<hoisted[1]>>)
    <3> HIDE DEF second, c
    <3>1. QED
        BY <1>5, <2>2
  <2>5. QED
    BY <2>1, <2>3, <2>4
<1>6. \A k \in 1..n : t[k] = TotalFrom(rows, at(k), types)[1] /\ t[k] \in Int
  <2>1. \A k \in 1..n : t[k] = TotalFrom(rows, at(k), types)[1]
    BY DEF ShiftTotals
  <2>2. 1 \in 1..n + 1
    BY <1>1
  <2>3. ASSUME NEW k \in 1..n PROVE TotalFrom(rows, at(k), types)[1] \in Int
    <3>1. at(k) \in [DOMAIN rows -> props]
        BY <1>1
    <3> HIDE DEF at
    <3>2. QED
        BY <1>1, <2>2, <3>1, TotalBounds
  <2> HIDE DEF at, t
  <2>4. QED
    BY <2>1, <2>3
<1> HIDE DEF n, t, c, second, placed
<1>7. ASSUME AlignRows(rows, rest, hoisted, types) # Refused
      PROVE  \E k \in 1..n : Alone(t, 1..n, k) /\ ~ Breaking(rows, at(k), types)
  <2>1. c.ways = 1 /\ ~ Breaking(rows, placed, types)
    BY <1>4, <1>7
  <2>2. PICK k \in 1..n : Alone(t, 1..n, k)
    BY <1>3, <2>1
  <2>3. placed = at(k)
    BY <1>3, <1>5, <2>2
  <2>4. QED
    BY <2>1, <2>2, <2>3
<1>8. ASSUME NEW k \in 1..n, Alone(t, 1..n, k), ~ Breaking(rows, at(k), types)
      PROVE  AlignRows(rows, rest, hoisted, types) # Refused
  <2>1. c.ways = 1 /\ c.way = {k}
    BY <1>3, <1>8
  <2>2. placed = at(k) /\ second = Entry(Score(rows[k], hoisted[1], types), 1, <<hoisted[1]>>)
    BY <1>5, <2>1
  <2>3. ~ Impossible(c)
    <3>1. PICK l \in 1..n : c.score = t[l]
        BY <1>3
    <3>2. l # k => t[k] > t[l]
        BY <1>8 DEF Alone
    <3>3. c.score >= t[k]
        BY <1>3
    <3>4. c.score = t[k]
        BY <1>3, <1>6, <3>1, <3>2, <3>3
    <3>5. ~ (TotalFrom(rows, at(k), types)[1] <= VIOLATION \div 2)
      <4> HIDE DEF at
      <4>1. QED
        BY <1>1, <1>8, LowTotal DEF Breaking
    <3>6. QED
        BY <1>6, <3>4, <3>5 DEF Impossible
  <2>4. second.ways = 1 /\ ~ Impossible(second)
    <3>1. k \in DOMAIN rows /\ at(k)[k] = hoisted[1]
        BY <1>1 DEF Shift, n
    <3>2. ~ (Score(rows[k], hoisted[1], types) <= VIOLATION \div 2)
        BY <1>8, <3>1 DEF Breaking
    <3>3. second.ways = 1 /\ second.score = Score(rows[k], hoisted[1], types)
        BY <2>2 DEF Entry
    <3>4. QED
        BY <3>2, <3>3 DEF Impossible
  <2>5. AlignRows(rows, rest, hoisted, types) = at(k)
    BY <1>4, <1>8, <2>1, <2>2, <2>3, <2>4
  <2>6. DOMAIN at(k) = 1..n /\ 1 \in 1..n /\ DOMAIN Refused = {}
    BY <1>1 DEF Refused
  <2>7. QED
    BY <2>5, <2>6
<1>9. QED
    BY <1>7, <1>8 DEF n, t

(* The alignments there are, where at most one property is hoisted.        *)
Split(head, rest, hoisted, n, props) ==
    /\ n \in Nat /\ head \in Seq(props) /\ Len(head) = n /\ IsInjective(head)
    /\ rest \in Seq(props) /\ hoisted \in Seq(props)
    /\ Len(hoisted) <= n /\ Len(rest) = n - Len(hoisted)
    /\ \A i \in 1..Len(hoisted) : hoisted[i] = head[i]
    /\ \A i \in 1..n - Len(hoisted) : rest[i] = head[Len(hoisted) + i]
Indexed(f, a, head, n) ==
    /\ f \in [1..n -> 1..n]
    /\ \A i \in 1..n : a[i] = head[f[i]]
    /\ \A i \in 1..n : \A q \in 1..n : head[q] = a[i] => q = f[i]

LEMMA SplitFacts ==
    ASSUME NEW head, NEW rest, NEW hoisted, NEW n, NEW props,
           Split(head, rest, hoisted, n, props)
    PROVE  /\ n \in Nat /\ DOMAIN head = 1..n /\ Len(hoisted) \in Nat
           /\ ToSet(head) = {head[q] : q \in 1..n}
           /\ \A q, r \in 1..n : head[q] = head[r] => q = r
           /\ ToSet(hoisted) = {head[q] : q \in 1..Len(hoisted)}
<1>1. n \in Nat /\ DOMAIN head = 1..n /\ Len(hoisted) \in Nat /\ DOMAIN hoisted = 1..Len(hoisted)
    BY DEF Split
<1>2. ToSet(head) = {head[q] : q \in 1..n}
    BY <1>1 DEF ToSet
<1>3. \A q, r \in 1..n : head[q] = head[r] => q = r
    BY <1>1 DEF Split, IsInjective
<1>4. ToSet(hoisted) = {head[q] : q \in 1..Len(hoisted)}
  <2>1. ToSet(hoisted) = {hoisted[q] : q \in 1..Len(hoisted)}
    BY <1>1 DEF ToSet
  <2>2. \A q \in 1..Len(hoisted) : hoisted[q] = head[q]
    BY DEF Split
  <2>3. QED
    BY <2>1, <2>2
<1>5. QED
    BY <1>1, <1>2, <1>3, <1>4

LEMMA IndexOf ==
    ASSUME NEW head, NEW rest, NEW hoisted, NEW n, NEW props,
           Split(head, rest, hoisted, n, props), NEW a \in [1..n -> ToSet(head)]
    PROVE  \E f : Indexed(f, a, head, n)
<1> DEFINE f == [i \in 1..n |-> CHOOSE q \in 1..n : head[q] = a[i]]
<1>1. /\ ToSet(head) = {head[q] : q \in 1..n}
      /\ \A q, r \in 1..n : head[q] = head[r] => q = r
    BY SplitFacts
<1>2. \A i \in 1..n : \E q \in 1..n : head[q] = a[i]
    BY <1>1
<1>3. \A i \in 1..n : f[i] \in 1..n /\ head[f[i]] = a[i]
    BY <1>2
<1>4. f \in [1..n -> 1..n]
    BY <1>3
<1>5. \A i \in 1..n : \A q \in 1..n : head[q] = a[i] => q = f[i]
    BY <1>1, <1>3
<1> HIDE DEF f
<1>6. Indexed(f, a, head, n)
    BY <1>3, <1>4, <1>5 DEF Indexed
<1>7. QED
    BY <1>6

LEMMA AlignmentIs ==
    ASSUME NEW rows, NEW head, NEW rest, NEW hoisted, NEW n, NEW props,
           Split(head, rest, hoisted, n, props), DOMAIN rows = 1..n,
           NEW a \in [1..n -> ToSet(head)], NEW f, Indexed(f, a, head, n)
    PROVE  a \in Alignments(rows, head, hoisted) <=>
              /\ \A i, j \in 1..n : i # j => f[i] # f[j]
              /\ \A i, j \in 1..n :
                    i < j /\ f[i] > Len(hoisted) /\ f[j] > Len(hoisted) => f[i] < f[j]
<1> DEFINE H == Len(hoisted)
<1>1. /\ n \in Nat /\ DOMAIN head = 1..n /\ H \in Nat
      /\ \A q, r \in 1..n : head[q] = head[r] => q = r
      /\ ToSet(hoisted) = {head[q] : q \in 1..H} /\ H <= n
  <2>1. H <= n
    BY DEF Split
  <2>2. QED
    BY <2>1, SplitFacts
<1>2. /\ \A i \in 1..n : f[i] \in 1..n /\ a[i] = head[f[i]]
      /\ \A i \in 1..n : \A q \in 1..n : head[q] = a[i] => q = f[i]
    BY DEF Indexed
<1> HIDE DEF H
<1>3. \A i, j \in 1..n : a[i] # a[j] <=> f[i] # f[j]
    BY <1>2
<1>4. \A i \in 1..n : a[i] \notin ToSet(hoisted) <=> f[i] > H
  <2>1. SUFFICES ASSUME NEW i \in 1..n PROVE a[i] \in ToSet(hoisted) <=> f[i] <= H
    BY <1>1, <1>2
  <2>2. f[i] <= H => f[i] \in 1..H
    BY <1>1, <1>2
  <2>3. \A q \in 1..H : q \in 1..n /\ q <= H
    BY <1>1
  <2>4. QED
    BY <1>1, <1>2, <2>2, <2>3
<1>5. \A i, j \in 1..n :
         (\E q, r \in DOMAIN head : q < r /\ head[q] = a[i] /\ head[r] = a[j]) <=> f[i] < f[j]
  <2>1. SUFFICES ASSUME NEW i \in 1..n, NEW j \in 1..n
                 PROVE  (\E q, r \in 1..n : q < r /\ head[q] = a[i] /\ head[r] = a[j]) <=> f[i] < f[j]
    BY <1>1
  <2>2. f[i] \in 1..n /\ f[j] \in 1..n /\ head[f[i]] = a[i] /\ head[f[j]] = a[j]
    BY <1>2
  <2>3. \A q, r \in 1..n : head[q] = a[i] /\ head[r] = a[j] => q = f[i] /\ r = f[j]
    BY <1>2
  <2>4. QED
    BY <2>2, <2>3
<1>6. a \in Alignments(rows, head, hoisted) <=>
        /\ \A i, j \in 1..n : i # j => a[i] # a[j]
        /\ \A i, j \in 1..n :
              i < j /\ a[i] \notin ToSet(hoisted) /\ a[j] \notin ToSet(hoisted)
                => \E q, r \in DOMAIN head : q < r /\ head[q] = a[i] /\ head[r] = a[j]
  <2> DEFINE D == DOMAIN rows
  <2>1. a \in Alignments(rows, head, hoisted) <=>
          /\ a \in [D -> ToSet(head)]
          /\ \A i, j \in D : i # j => a[i] # a[j]
          /\ \A i, j \in D :
                i < j /\ a[i] \notin ToSet(hoisted) /\ a[j] \notin ToSet(hoisted)
                  => \E q, r \in DOMAIN head : q < r /\ head[q] = a[i] /\ head[r] = a[j]
    BY Zenon DEF Alignments
  <2>2. D = 1..n
    OBVIOUS
  <2> HIDE DEF D
  <2>3. QED
    BY <2>1, <2>2, Zenon
<1>7. QED
    BY <1>3, <1>4, <1>5, <1>6 DEF H

OneAside(f, n) ==
    /\ f \in [1..n -> 1..n] /\ \A i, j \in 1..n : i # j => f[i] # f[j]
    /\ \A i, j \in 1..n : i < j /\ f[i] > 1 /\ f[j] > 1 => f[i] < f[j]

LEMMA ShiftIndices ==
    ASSUME NEW n \in Nat, n >= 1, NEW f, OneAside(f, n)
    PROVE  \E k \in 1..n : f[k] = 1 /\ \A i \in 1..n : f[i] = IF i = k THEN 1
                                                           ELSE IF i < k THEN i + 1 ELSE i
<1> USE DEF OneAside
<1>1. \A i \in 1..n : f[i] \in 1..n /\ (f[i] # 1 => f[i] > 1)
    OBVIOUS
<1>2. \E k \in 1..n : f[k] = 1
  <2>1. SUFFICES ASSUME \A k \in 1..n : f[k] # 1 PROVE FALSE
    OBVIOUS
  <2>2. \A i, j \in 1..n : i < j => f[i] < f[j]
    BY <1>1, <2>1
  <2>3. \A i \in 1..n : f[i] = i
    BY <2>2, IncreasingIsIdentity
  <2>4. 1 \in 1..n
    OBVIOUS
  <2>5. QED
    BY <2>1, <2>3, <2>4
<1>3. PICK k \in 1..n : f[k] = 1
    BY <1>2
<1>4. \A i \in 1..n : i # k => f[i] \in 2..n
    BY <1>1, <1>3
<1> DEFINE up(m) == IF m < k THEN m ELSE m + 1
           g == [m \in 1..n - 1 |-> f[up(m)] - 1]
<1>5. \A m \in 1..n - 1 : up(m) \in 1..n /\ up(m) # k
    OBVIOUS
<1>6. \A l, m \in 1..n - 1 : l < m => up(l) < up(m)
    OBVIOUS
<1>7. \A m \in 1..n - 1 : g[m] = f[up(m)] - 1 /\ f[up(m)] \in 2..n
    BY <1>4, <1>5
<1> HIDE DEF up
<1>8. \A m \in 1..n - 1 : f[up(m)] - 1 \in 1..n - 1
  <2>1. \A x \in 2..n : x - 1 \in 1..n - 1
    OBVIOUS
  <2>2. QED
    BY <1>7, <2>1
<1>9. g \in [1..n - 1 -> 1..n - 1]
    BY <1>8
<1> HIDE DEF g
<1>10. \A l, m \in 1..n - 1 : l < m => g[l] < g[m]
  <2>1. SUFFICES ASSUME NEW l \in 1..n - 1, NEW m \in 1..n - 1, l < m PROVE g[l] < g[m]
    OBVIOUS
  <2>2. f[up(l)] < f[up(m)]
    <3>1. f[up(l)] > 1 /\ f[up(m)] > 1 /\ up(l) < up(m) /\ up(l) \in 1..n /\ up(m) \in 1..n
      <4>1. \A x \in 2..n : x > 1
        OBVIOUS
      <4>2. QED
        BY <1>5, <1>6, <1>7, <2>1, <4>1
    <3>2. QED
        BY <3>1
  <2>3. /\ g[l] = f[up(l)] - 1 /\ f[up(l)] \in 2..n
        /\ g[m] = f[up(m)] - 1 /\ f[up(m)] \in 2..n
    BY <1>7
  <2>4. \A x, y \in 2..n : x < y => x - 1 < y - 1
    OBVIOUS
  <2>5. QED
    BY <2>2, <2>3, <2>4
<1>11. \A m \in 1..n - 1 : g[m] = m
  <2>1. n - 1 \in Nat
    OBVIOUS
  <2>2. QED
    BY <1>9, <1>10, <2>1, IncreasingIsIdentity
<1>12. ASSUME NEW i \in 1..n, i < k PROVE f[i] = i + 1
  <2>1. i \in 1..n - 1 /\ up(i) = i
    BY <1>12 DEF up
  <2>2. g[i] = i /\ g[i] = f[i] - 1 /\ f[i] \in 2..n
    BY <1>7, <1>11, <2>1
  <2>3. QED
    BY <2>2
<1>13. ASSUME NEW i \in 1..n, i > k PROVE f[i] = i
  <2>1. i - 1 \in 1..n - 1 /\ up(i - 1) = i
    BY <1>13 DEF up
  <2>2. g[i - 1] = i - 1 /\ g[i - 1] = f[i] - 1 /\ f[i] \in 2..n
    BY <1>7, <1>11, <2>1
  <2>3. QED
    BY <2>2
<1>14. \A i \in 1..n : f[i] = IF i = k THEN 1 ELSE IF i < k THEN i + 1 ELSE i
  <2> SUFFICES ASSUME NEW i \in 1..n PROVE f[i] = IF i = k THEN 1 ELSE IF i < k THEN i + 1 ELSE i
    OBVIOUS
  <2>1. i = k \/ i < k \/ i > k
    OBVIOUS
  <2>2. QED
    BY <1>3, <1>12, <1>13, <2>1
<1>15. QED
    BY <1>3, <1>14

LEMMA AlignmentsOfOne ==
    ASSUME NEW rows, NEW head, NEW rest, NEW hoisted, NEW n, NEW props,
           Split(head, rest, hoisted, n, props), DOMAIN rows = 1..n, Len(hoisted) = 1
    PROVE  /\ Alignments(rows, head, hoisted) = {Shift(rest, hoisted, n, k) : k \in 1..n}
           /\ \A k, l \in 1..n : Shift(rest, hoisted, n, k) = Shift(rest, hoisted, n, l) => k = l
<1> DEFINE at(k) == Shift(rest, hoisted, n, k)
           index(i, k) == IF i = k THEN 1 ELSE IF i < k THEN i + 1 ELSE i
<1>1. /\ n \in Nat /\ n >= 1 /\ DOMAIN head = 1..n
      /\ ToSet(head) = {head[q] : q \in 1..n}
      /\ \A q, r \in 1..n : head[q] = head[r] => q = r
      /\ hoisted[1] = head[1] /\ \A i \in 1..n - 1 : rest[i] = head[1 + i]
  <2>1. n \in Nat /\ 1 <= n /\ (\A i \in 1..1 : hoisted[i] = head[i])
        /\ \A i \in 1..n - 1 : rest[i] = head[1 + i]
    BY DEF Split
  <2>2. 1 \in 1..1
    OBVIOUS
  <2>3. QED
    BY <2>1, <2>2, SplitFacts
<1>2. \A i, k \in 1..n : index(i, k) \in 1..n
    BY <1>1
<1>3. \A i, k \in 1..n : at(k)[i] = head[index(i, k)]
  <2>1. SUFFICES ASSUME NEW i \in 1..n, NEW k \in 1..n PROVE at(k)[i] = head[index(i, k)]
    OBVIOUS
  <2>2. at(k)[i] = IF i = k THEN hoisted[1] ELSE IF i < k THEN rest[i] ELSE rest[i - 1]
    BY DEF Shift
  <2>3. i < k => i \in 1..n - 1 /\ 1 + i = i + 1
    BY <1>1
  <2>4. i # k /\ ~ (i < k) => i - 1 \in 1..n - 1 /\ 1 + (i - 1) = i
    BY <1>1
  <2> HIDE DEF at
  <2>5. CASE i = k
    BY <1>1, <2>2, <2>5
  <2>6. CASE i < k
    BY <1>1, <2>2, <2>3, <2>6
  <2>7. CASE i # k /\ ~ (i < k)
    <3>1. rest[i - 1] = head[i]
        BY <1>1, <2>4, <2>7
    <3>2. QED
        BY <2>2, <2>7, <3>1
  <2>8. QED
    BY <1>1, <2>5, <2>6, <2>7
<1>4. \A k \in 1..n : at(k) = [i \in 1..n |-> at(k)[i]]
    BY DEF Shift
<1> HIDE DEF at, index
<1>5. \A k \in 1..n : at(k) \in [1..n -> ToSet(head)]
  <2>1. SUFFICES ASSUME NEW k \in 1..n PROVE at(k) \in [1..n -> ToSet(head)]
    OBVIOUS
  <2>2. ASSUME NEW i \in 1..n PROVE at(k)[i] \in ToSet(head)
    <3>1. \A q \in 1..n : head[q] \in ToSet(head)
        BY <1>1
    <3>2. index(i, k) \in 1..n /\ at(k)[i] = head[index(i, k)]
        BY <1>2, <1>3
    <3>3. QED
        BY <3>1, <3>2
  <2>3. QED
    BY <1>4, <2>2
<1>6. ASSUME NEW k \in 1..n PROVE at(k) \in Alignments(rows, head, hoisted)
  <2> DEFINE f == [i \in 1..n |-> index(i, k)]
  <2>1. f \in [1..n -> 1..n] /\ \A i \in 1..n : f[i] = index(i, k)
    BY <1>2
  <2> HIDE DEF f
  <2>2. Indexed(f, at(k), head, n)
    <3>1. \A i \in 1..n : at(k)[i] = head[f[i]]
        BY <1>3, <2>1
    <3>2. \A i \in 1..n : \A q \in 1..n : head[q] = at(k)[i] => q = f[i]
      <4>1. \A i \in 1..n : f[i] \in 1..n
        BY <2>1
      <4>2. \A q, r \in 1..n : head[q] = head[r] => q = r
        BY <1>1
      <4>3. QED
        BY <3>1, <4>1, <4>2
    <3>3. QED
        BY <2>1, <3>1, <3>2 DEF Indexed
  <2>3. \A i, j \in 1..n : i # j => f[i] # f[j]
    <3>1. \A i, j \in 1..n : i # j => index(i, k) # index(j, k)
        BY <1>1 DEF index
    <3>2. QED
        BY <2>1, <3>1
  <2>4. \A i, j \in 1..n : i < j /\ f[i] > Len(hoisted) /\ f[j] > Len(hoisted) => f[i] < f[j]
    <3>1. \A i, j \in 1..n : i < j /\ index(i, k) > 1 /\ index(j, k) > 1 => index(i, k) < index(j, k)
        BY <1>1 DEF index
    <3>2. QED
        BY <2>1, <3>1
  <2>5. at(k) \in [1..n -> ToSet(head)]
    BY <1>5
  <2>6. QED
    BY <2>2, <2>3, <2>4, <2>5, AlignmentIs
<1>7. ASSUME NEW a \in Alignments(rows, head, hoisted) PROVE \E k \in 1..n : a = at(k)
  <2>1. a \in [1..n -> ToSet(head)]
    BY DEF Alignments
  <2>2. PICK f : Indexed(f, a, head, n)
    BY <2>1, IndexOf
  <2>3. /\ \A i, j \in 1..n : i # j => f[i] # f[j]
        /\ \A i, j \in 1..n : i < j /\ f[i] > 1 /\ f[j] > 1 => f[i] < f[j]
    <3>1. /\ \A i, j \in 1..n : i # j => f[i] # f[j]
          /\ \A i, j \in 1..n :
                i < j /\ f[i] > Len(hoisted) /\ f[j] > Len(hoisted) => f[i] < f[j]
        BY <2>1, <2>2, AlignmentIs
    <3>2. QED
        BY <3>1
  <2>4. f \in [1..n -> 1..n] /\ \A i \in 1..n : a[i] = head[f[i]]
    BY <2>2 DEF Indexed
  <2>5. PICK k \in 1..n : \A i \in 1..n : f[i] = IF i = k THEN 1 ELSE IF i < k THEN i + 1 ELSE i
    <3>1. \E k \in 1..n : f[k] = 1 /\ \A i \in 1..n : f[i] = IF i = k THEN 1
                                                           ELSE IF i < k THEN i + 1 ELSE i
      <4>1. OneAside(f, n)
        BY <2>3, <2>4 DEF OneAside
      <4>2. n \in Nat /\ n >= 1
        BY <1>1
      <4>3. QED
        BY <4>1, <4>2, ShiftIndices
    <3>2. QED
        BY <3>1
  <2>6. \A i \in 1..n : a[i] = at(k)[i]
    BY <1>3, <2>4, <2>5 DEF index
  <2>7. a = at(k)
    BY <1>4, <2>1, <2>6
  <2>8. QED
    BY <2>7
<1>8. ASSUME NEW k \in 1..n, NEW l \in 1..n, at(k) = at(l) PROVE k = l
  <2>1. index(k, k) = 1 /\ head[index(k, k)] = head[index(k, l)]
    BY <1>3, <1>8 DEF index
  <2>2. index(k, l) = 1
    BY <1>1, <1>2, <2>1
  <2>3. QED
    BY <1>1, <2>2 DEF index
<1>9. QED
  <2>1. \A a : a \in Alignments(rows, head, hoisted) <=> \E k \in 1..n : a = at(k)
    BY <1>6, <1>7
  <2>2. Alignments(rows, head, hoisted) = {at(k) : k \in 1..n}
    BY <2>1
  <2>3. QED
    BY <1>8, <2>2 DEF at

LEMMA AlignmentsOfNone ==
    ASSUME NEW rows, NEW head, NEW rest, NEW hoisted, NEW n, NEW props,
           Split(head, rest, hoisted, n, props), DOMAIN rows = 1..n, Len(hoisted) = 0
    PROVE  Alignments(rows, head, hoisted) = {[i \in 1..n |-> rest[i]]}
<1> DEFINE b == [i \in 1..n |-> rest[i]]
<1>1. /\ n \in Nat /\ DOMAIN head = 1..n
      /\ ToSet(head) = {head[q] : q \in 1..n}
      /\ \A q, r \in 1..n : head[q] = head[r] => q = r
      /\ \A i \in 1..n : rest[i] = head[i]
  <2>1. n \in Nat /\ (\A i \in 1..n - 0 : rest[i] = head[0 + i])
    BY DEF Split
  <2>2. \A i \in 1..n : i \in 1..n - 0 /\ 0 + i = i
    BY <2>1
  <2>3. \A i \in 1..n : rest[i] = head[i]
    BY <2>1, <2>2
  <2>4. QED
    BY <2>1, <2>3, SplitFacts
<1>2. b \in [1..n -> ToSet(head)] /\ \A i \in 1..n : b[i] = head[i]
    BY <1>1
<1>3. b = [i \in 1..n |-> b[i]]
    OBVIOUS
<1> HIDE DEF b
<1>4. b \in Alignments(rows, head, hoisted)
  <2> DEFINE f == [i \in 1..n |-> i]
  <2>1. f \in [1..n -> 1..n] /\ \A i \in 1..n : f[i] = i
    OBVIOUS
  <2> HIDE DEF f
  <2>2. Indexed(f, b, head, n)
    <3>1. \A i \in 1..n : b[i] = head[f[i]]
        BY <1>2, <2>1
    <3>2. \A i \in 1..n : \A q \in 1..n : head[q] = b[i] => q = f[i]
        BY <1>1, <2>1, <3>1
    <3>3. QED
        BY <2>1, <3>1, <3>2 DEF Indexed
  <2>3. /\ \A i, j \in 1..n : i # j => f[i] # f[j]
        /\ \A i, j \in 1..n : i < j /\ f[i] > Len(hoisted) /\ f[j] > Len(hoisted) => f[i] < f[j]
    BY <2>1
  <2>4. QED
    BY <1>2, <2>2, <2>3, AlignmentIs
<1>5. ASSUME NEW a \in Alignments(rows, head, hoisted) PROVE a = b
  <2>1. a \in [1..n -> ToSet(head)]
    BY DEF Alignments
  <2>2. PICK f : Indexed(f, a, head, n)
    BY <2>1, IndexOf
  <2>3. f \in [1..n -> 1..n] /\ \A i \in 1..n : a[i] = head[f[i]]
    BY <2>2 DEF Indexed
  <2>4. \A i, j \in 1..n : i < j => f[i] < f[j]
    <3>1. \A i, j \in 1..n :
             i < j /\ f[i] > Len(hoisted) /\ f[j] > Len(hoisted) => f[i] < f[j]
        BY <2>1, <2>2, AlignmentIs
    <3>2. \A i \in 1..n : f[i] > Len(hoisted)
      <4>1. \A x \in 1..n : x > 0
        OBVIOUS
      <4>2. QED
        BY <2>3, <4>1
    <3>3. QED
        BY <3>1, <3>2
  <2>5. \A i \in 1..n : f[i] = i
    BY <1>1, <2>3, <2>4, IncreasingIsIdentity
  <2>6. \A i \in 1..n : a[i] = b[i]
    BY <1>2, <2>3, <2>5
  <2>7. QED
    BY <1>3, <2>1, <2>6
<1>6. QED
  <2>1. \A a : a \in Alignments(rows, head, hoisted) <=> a = b
    BY <1>4, <1>5
  <2>2. QED
    BY <2>1 DEF b

(* Where at most one property is hoisted, there is an alignment exactly if *)
(* a single one is the best and it breaks no constraint.                   *)
BestOf(rows, all, types) ==
    {a \in all : \A b \in all : Total(rows, a, types) >= Total(rows, b, types)}

LEMMA OneHoisted ==
    ASSUME NEW props, NEW rows, NEW head, NEW rest, NEW hoisted, NEW types,
           Single(rows, rest, hoisted, props), Split(head, rest, hoisted, Len(rows), props),
           NEW best, best = BestOf(rows, Alignments(rows, head, hoisted), types)
    PROVE  AlignRows(rows, rest, hoisted, types) # Refused <=>
              Cardinality(best) = 1 /\ \A a \in best : ~ Breaking(rows, a, types)
<1> DEFINE n == Len(rows)
           t == ShiftTotals(rows, rest, hoisted, types, 1)
           at(k) == Shift(rest, hoisted, n, k)
           all == Alignments(rows, head, hoisted)
<1>1. /\ n \in Nat /\ n >= 1 /\ DOMAIN rows = 1..n /\ Len(hoisted) = 1
      /\ \A k \in 1..n : at(k) \in [DOMAIN rows -> props]
      /\ rows \in Seq(RowOf(props))
    BY SingleFacts DEF Single, Given
<1>2. /\ all = {at(k) : k \in 1..n}
      /\ \A k, l \in 1..n : at(k) = at(l) => k = l
    BY <1>1, AlignmentsOfOne
<1>3. \A k \in 1..n : t[k] = Total(rows, at(k), types) /\ t[k] \in Int
  <2>1. \A k \in 1..n : t[k] = TotalFrom(rows, at(k), types)[1]
    BY DEF ShiftTotals
  <2>2. 1 \in 1..n + 1
    BY <1>1
  <2>3. ASSUME NEW k \in 1..n PROVE TotalFrom(rows, at(k), types)[1] \in Int
    <3>1. at(k) \in [DOMAIN rows -> props]
        BY <1>1
    <3> HIDE DEF at
    <3>2. QED
        BY <1>1, <2>2, <3>1, TotalBounds
  <2> HIDE DEF at, t
  <2>4. QED
    BY <2>1, <2>3 DEF Total
<1>4. AlignRows(rows, rest, hoisted, types) # Refused <=>
        \E k \in 1..n : Alone(t, 1..n, k) /\ ~ Breaking(rows, at(k), types)
    BY SinglePlaced
<1>5. best = {a \in all : \A b \in all : Total(rows, a, types) >= Total(rows, b, types)}
    BY DEF BestOf
<1> HIDE DEF n, t, at, all
<1>6. \A k \in 1..n : at(k) \in best <=> \A l \in 1..n : t[k] >= t[l]
    BY <1>2, <1>3, <1>5
<1>7. \A a \in best : \E k \in 1..n : a = at(k)
    BY <1>2, <1>5
<1>8. \A k \in 1..n : Alone(t, 1..n, k) <=> best = {at(k)}
  <2>1. SUFFICES ASSUME NEW k \in 1..n PROVE Alone(t, 1..n, k) <=> best = {at(k)}
    OBVIOUS
  <2>2. ASSUME Alone(t, 1..n, k) PROVE best = {at(k)}
    <3>1. \A l \in 1..n : l # k => t[k] > t[l]
        BY <2>2 DEF Alone
    <3>2. at(k) \in best
        BY <1>3, <1>6, <3>1
    <3>3. \A l \in 1..n : at(l) \in best => l = k
        BY <1>3, <1>6, <3>1
    <3>4. \A a \in best : a = at(k)
        BY <1>7, <3>3
    <3>5. QED
        BY <3>2, <3>4
  <2>3. ASSUME best = {at(k)} PROVE Alone(t, 1..n, k)
    <3>1. SUFFICES ASSUME NEW l \in 1..n, l # k PROVE t[k] > t[l]
        BY DEF Alone
    <3>2. \A m \in 1..n : t[k] >= t[m]
        BY <1>6, <2>3
    <3>3. at(l) \notin best
        BY <1>2, <2>3, <3>1
    <3>4. PICK m \in 1..n : ~ (t[l] >= t[m])
        BY <1>6, <3>3
    <3>5. t[k] >= t[m] /\ t[k] \in Int /\ t[m] \in Int /\ t[l] \in Int
        BY <1>3, <3>2
    <3>6. QED
        BY <3>4, <3>5
  <2>4. QED
    BY <2>2, <2>3
<1>9. ASSUME NEW k \in 1..n, Alone(t, 1..n, k), ~ Breaking(rows, at(k), types)
      PROVE  Cardinality(best) = 1 /\ \A a \in best : ~ Breaking(rows, a, types)
  <2>1. best = {at(k)}
    BY <1>8, <1>9
  <2>2. QED
    BY <1>9, <2>1, FS_Singleton
<1>10. IsFiniteSet(best)
  <2> DEFINE f == [k \in 1..n |-> at(k)]
  <2>1. f \in Surjection(1..n, all)
    BY <1>2 DEF Surjection
  <2>2. IsFiniteSet(1..n)
    BY <1>1, CountTo
  <2>3. IsFiniteSet(all)
    <3> HIDE DEF f
    <3>1. QED
        BY <2>1, <2>2, FS_Surjection
  <2>4. best \in SUBSET all
    BY <1>5
  <2>5. QED
    BY <2>3, <2>4, FS_Subset
<1>11. ASSUME Cardinality(best) = 1, \A a \in best : ~ Breaking(rows, a, types)
       PROVE  \E k \in 1..n : Alone(t, 1..n, k) /\ ~ Breaking(rows, at(k), types)
  <2>1. PICK a : best = {a}
    BY <1>10, <1>11, FS_Singleton
  <2>2. PICK k \in 1..n : a = at(k)
    BY <1>7, <2>1
  <2>3. Alone(t, 1..n, k)
    BY <1>8, <2>1, <2>2
  <2>4. QED
    BY <1>11, <2>1, <2>2, <2>3
<1>12. QED
    BY <1>4, <1>9, <1>11

LEMMA NoneHoisted ==
    ASSUME NEW props, NEW rows, NEW head, NEW rest, NEW hoisted, NEW types,
           Given(rows, rest, hoisted, props), Split(head, rest, hoisted, Len(rows), props),
           Len(hoisted) = 0, Len(rows) # 0,
           NEW best, best = BestOf(rows, Alignments(rows, head, hoisted), types)
    PROVE  AlignRows(rows, rest, hoisted, types) # Refused <=>
              Cardinality(best) = 1 /\ \A a \in best : ~ Breaking(rows, a, types)
<1> DEFINE n == Len(rows)
           b == [i \in 1..n |-> rest[i]]
           T == TotalFrom(rows, b, types)
           c == First(rows, rest, hoisted, types)
           second == Second(rows, c.way, hoisted, types)
           placed == Placing(rows, rest, c.way, second.way)
<1>1. /\ n \in Nat /\ n >= 1 /\ DOMAIN rows = 1..n /\ Len(rest) = n
      /\ \A i \in 1..n : rest[i] \in props
      /\ rows \in Seq(RowOf(props))
  <2>1. /\ rows \in Seq(RowOf(props)) /\ rest \in Seq(props) /\ Len(rest) = n - 0
    BY DEF Given, Split
  <2>2. n \in Nat /\ DOMAIN rows = 1..n /\ DOMAIN rest = 1..Len(rest)
    BY <2>1
  <2>3. n >= 1 /\ Len(rest) = n
    BY <2>1, <2>2
  <2>4. \A i \in 1..n : rest[i] \in props
    <3>1. \A i \in DOMAIN rest : rest[i] \in props
        BY <2>1
    <3>2. QED
        BY <2>2, <2>3, <3>1
  <2>5. QED
    BY <2>1, <2>2, <2>3, <2>4
<1>2. b \in [DOMAIN rows -> props] /\ \A i \in 1..n : b[i] = rest[i]
    BY <1>1
<1>3. Trailing(b, rows, rest, hoisted, props)
  <2>1. \A r \in 1..Len(rows) : r > 0 => b[r] = rest[r - 0]
    <3>1. \A r \in 1..Len(rows) : r - 0 = r
        BY <1>1
    <3> HIDE DEF b
    <3>2. QED
        BY <1>2, <3>1
  <2>2. Len(rest) = Len(rows) - 0
    BY <1>1
  <2> HIDE DEF b
  <2>3. QED
    BY <1>2, <2>1, <2>2 DEF Trailing
<1>4. c = Entry(T[1], 1, {}) /\ T[1] \in Int
  <2>1. 1 \in 1..Len(rows) + 1 /\ 1 > Len(hoisted)
    BY <1>1
  <2> HIDE DEF b
  <2>2. HoistTable(rows, rest, hoisted, types)[1][Len(hoisted)] = Entry(TotalFrom(rows, b, types)[1], 1, {})
    BY <1>3, <2>1, LastColumn
  <2>3. TotalFrom(rows, b, types)[1] \in Int
    BY <1>1, <1>2, <2>1, TotalBounds
  <2>4. QED
    BY <2>2, <2>3 DEF First
<1>5. c.score = T[1] /\ c.ways = 1 /\ c.way = {}
  <2> HIDE DEF c, T
  <2>1. QED
    BY <1>4 DEF Entry
<1>6. second = Entry(0, 1, << >>)
  <2>1. DOMAIN hoisted = {} /\ IsFiniteSet({})
    <3>1. hoisted \in Seq(props)
        BY DEF Given
    <3>2. DOMAIN hoisted = 1..0
        BY <3>1
    <3>3. QED
        BY <3>2, FS_EmptySet
  <2>2. AssignTable(Moved(rows, {}, hoisted), hoisted, types)[{}] = Entry(0, 1, << >>)
    <3> DEFINE m == Moved(rows, {}, hoisted)
    <3>1. IsFiniteSet(DOMAIN hoisted)
        BY <2>1
    <3> HIDE DEF m
    <3>2. AssignTable(m, hoisted, types)[{}] = Entry(0, 1, << >>)
        BY <3>1, AssignTableIs
    <3>3. QED
        BY <3>2 DEF m
  <2> HIDE DEF c
  <2>3. QED
    BY <1>5, <2>1, <2>2 DEF Second
<1>7. placed = b
  <2>1. \A i : {m \in {} : m < i} = {}
    OBVIOUS
  <2>2. \A i : Earlier({}, i) = 0
    BY <2>1, FS_EmptySet DEF Earlier
  <2>3. \A i \in 1..n : i - Earlier({}, i) = i
    BY <1>1, <2>2
  <2> DEFINE taken == second.way
  <2>4. Placing(rows, rest, {}, taken)
          = [i \in DOMAIN rows |-> IF i \in {} THEN taken[Earlier({}, i) + 1] ELSE rest[i - Earlier({}, i)]]
    BY DEF Placing
  <2> HIDE DEF taken
  <2>5. Placing(rows, rest, {}, taken) = [i \in 1..n |-> rest[i]]
    BY <1>1, <2>3, <2>4
  <2> HIDE DEF c, second
  <2>6. QED
    BY <1>5, <2>5 DEF taken
<1>8. AlignRows(rows, rest, hoisted, types) =
        IF \/ c.ways # 1 \/ Impossible(c) \/ second.ways # 1 \/ Impossible(second)
           \/ Breaking(rows, placed, types)
        THEN Refused ELSE placed
    BY AlignRowsIs, Zenon DEF Breaking
<1>9. b # Refused
  <2>1. DOMAIN b = 1..n /\ 1 \in 1..n /\ DOMAIN Refused = {}
    BY <1>1 DEF Refused
  <2> HIDE DEF b
  <2>2. QED
    BY <2>1
<1>10. best = {b}
  <2>1. Alignments(rows, head, hoisted) = {b}
    <3>1. DOMAIN rows = 1..n
        BY <1>1
    <3>2. QED
        BY <3>1, AlignmentsOfNone
  <2> HIDE DEF b
  <2>2. T[1] >= T[1]
    <3> HIDE DEF T
    <3> QED
        BY <1>4
  <2>3. QED
    BY <2>1, <2>2 DEF BestOf, Total
<1> HIDE DEF n, b, T, c, second, placed
<1>11. ~ Impossible(second) /\ second.ways = 1
    BY <1>6, Halfway DEF Impossible, Entry
<1>12. Impossible(c) => Breaking(rows, b, types)
    BY <1>1, <1>2, <1>5, LowTotal DEF Impossible, Breaking, T
<1>13. AlignRows(rows, rest, hoisted, types) # Refused <=> ~ Breaking(rows, b, types)
    BY <1>5, <1>7, <1>8, <1>9, <1>11, <1>12
<1>14. QED
    BY <1>10, <1>13, FS_Singleton

-----------------------------------------------------------------------------
(* Where keys are captioned: a is the placing with every row at its own    *)
(* property, and M are the rows of keys.                                   *)
Owned(rows, rest, hoisted, props, types, M, a) ==
    /\ Given(rows, rest, hoisted, props) /\ Apart(rest, hoisted)
    /\ Len(rest) = Len(rows) - Len(hoisted) /\ 100 * Len(rows) + (VIOLATION \div 2) < 0
    /\ M \in SUBSET (1..Len(rows)) /\ Cardinality(M) = Len(hoisted)
    /\ a \in [DOMAIN rows -> props] /\ \A i, j \in 1..Len(rows) : a[i] = a[j] => i = j
    /\ \A i \in (1..Len(rows)) \ M : a[i] = rest[i - Earlier(M, i)]
    /\ \A i \in M : \E j \in 1..Len(hoisted) : a[i] = hoisted[j]
    /\ \A i \in 1..Len(rows) : Score(rows[i], a[i], types) >= 0
    /\ \A i \in M : rows[i].captioned /\ rows[i].names = {a[i]}

Ready(rows, rest, hoisted, props, M, a) ==
    LET n == Len(rows)
        H == Len(hoisted)
    IN  /\ n \in Nat /\ H \in Nat /\ H <= n /\ 100 * n + (VIOLATION \div 2) < 0
        /\ DOMAIN rows = 1..n /\ DOMAIN hoisted = 1..H /\ DOMAIN rest = 1..n - H
        /\ \A i \in 1..n : rows[i] \in RowOf(props) /\ a[i] \in props
        /\ \A j \in 1..H : hoisted[j] \in props
        /\ \A j \in 1..n - H : rest[j] \in props
        /\ \A i, j \in 1..H : hoisted[i] = hoisted[j] => i = j
        /\ \A i \in 1..H : \A j \in 1..n - H : hoisted[i] # rest[j]
        /\ M \subseteq 1..n /\ Cardinality(M) = H
KeyScored(rows, hoisted, types, a, i) ==
    /\ Score(rows[i], a[i], types) = 100
    /\ \A p : p # a[i] => Score(rows[i], p, types) = VIOLATION
    /\ BestHoisted(rows[i], hoisted, types) = 100

LEMMA OwnedFacts ==
    ASSUME NEW rows, NEW rest, NEW hoisted, NEW props, NEW types, NEW M, NEW a,
           Owned(rows, rest, hoisted, props, types, M, a)
    PROVE  Ready(rows, rest, hoisted, props, M, a)
<1> DEFINE n == Len(rows)
           H == Len(hoisted)
<1>1. /\ rows \in Seq(RowOf(props)) /\ rest \in Seq(props) /\ hoisted \in Seq(props)
      /\ Len(rest) = n - H /\ 100 * n + (VIOLATION \div 2) < 0
      /\ a \in [DOMAIN rows -> props] /\ M \subseteq 1..n /\ Cardinality(M) = H
    BY DEF Owned, Given
<1>2. /\ IsInjective(hoisted)
      /\ \A j \in DOMAIN hoisted : \A k \in DOMAIN rest : hoisted[j] # rest[k]
    BY DEF Owned, Apart
<1>3. /\ n \in Nat /\ H \in Nat /\ DOMAIN rows = 1..n /\ DOMAIN hoisted = 1..H
      /\ Len(rest) \in Nat /\ DOMAIN rest = 1..Len(rest)
    BY <1>1
<1>4. H <= n /\ DOMAIN rest = 1..n - H
    BY <1>1, <1>3
<1>5. \A i \in 1..n : rows[i] \in RowOf(props) /\ a[i] \in props
    BY <1>1, <1>3
<1>6. \A j \in DOMAIN hoisted : hoisted[j] \in props
    BY <1>1
<1>7. \A j \in DOMAIN rest : rest[j] \in props
    BY <1>1
<1>8. \A i, j \in 1..H : hoisted[i] = hoisted[j] => i = j
    BY <1>2, <1>3 DEF IsInjective
<1>9. \A i \in 1..H : \A j \in 1..n - H : hoisted[i] # rest[j]
    BY <1>2, <1>3, <1>4, Zenon
<1>10. /\ \A j \in 1..H : hoisted[j] \in props
       /\ \A j \in 1..n - H : rest[j] \in props
    BY <1>3, <1>4, <1>6, <1>7, Zenon
<1>11. QED
    BY <1>1, <1>3, <1>4, <1>5, <1>8, <1>9, <1>10, Zenon DEF Ready

LEMMA KeyScores ==
    ASSUME NEW rows, NEW rest, NEW hoisted, NEW props, NEW types, NEW M, NEW a,
           Owned(rows, rest, hoisted, props, types, M, a)
    PROVE  \A i \in M : KeyScored(rows, hoisted, types, a, i)
<1> SUFFICES ASSUME NEW i \in M PROVE KeyScored(rows, hoisted, types, a, i)
    OBVIOUS
<1>1. /\ rows[i].captioned /\ rows[i].names = {a[i]}
      /\ \E j \in 1..Len(hoisted) : a[i] = hoisted[j]
    BY DEF Owned
<1>2. Score(rows[i], a[i], types) = 100 /\ \A p : p # a[i] => Score(rows[i], p, types) = VIOLATION
    BY <1>1 DEF Score
<1>3. PICK j \in 1..Len(hoisted) : a[i] = hoisted[j]
    BY <1>1
<1>4. /\ i \in 1..Len(rows) /\ rows[i] \in RowOf(props) /\ hoisted \in Seq(props)
      /\ Len(hoisted) # 0 /\ j \in DOMAIN hoisted
  <2>1. hoisted \in Seq(props)
    BY DEF Owned, Given
  <2> Ready(rows, rest, hoisted, props, M, a)
    BY OwnedFacts
  <2>2. i \in 1..Len(rows)
    BY DEF Ready
  <2>3. rows[i] \in RowOf(props)
    BY <2>2 DEF Ready
  <2>4. Len(hoisted) \in Nat /\ j \in DOMAIN hoisted
    BY <2>1, <1>3
  <2>5. QED
    BY <1>3, <2>1, <2>2, <2>3, <2>4
<1> DEFINE row == rows[i]
           best == BestHoisted(row, hoisted, types)
<1>5. best \in Int /\ best <= 100 /\ \A k \in DOMAIN hoisted : best >= Score(row, hoisted[k], types)
  <2>1. row \in RowOf(props)
    BY <1>4
  <2> HIDE DEF row
  <2>2. QED
    BY <1>4, <2>1, BestHoistedIs
<1> HIDE DEF best
<1>6. best >= 100
    BY <1>2, <1>3, <1>4, <1>5
<1>7. best = 100
    BY <1>5, <1>6
<1>8. QED
    BY <1>2, <1>7 DEF best, KeyScored

LEMMA RelaxedBelow ==
    ASSUME NEW W, {} \in W, NEW E, E \subseteq Cell(W), NEW top \in Int,
           \A e \in E : e.ways > 0 => e.score <= top
    PROVE  Relaxed(E).ways > 0 => Relaxed(E).score <= top
<1>1. \/ Relaxed(E).ways = 0
      \/ \E e \in E : e.ways > 0 /\ Relaxed(E).score = e.score
    BY RelaxedFacts
<1>2. QED
    BY <1>1

LEMMA RelaxedTo ==
    ASSUME NEW W, {} \in W, NEW E, E \subseteq Cell(W), NEW e \in E, e.ways = 1,
           \A d \in E : d.ways > 0 /\ d # e => d.score < e.score
    PROVE  Relaxed(E) = e
<1>1. \A d \in E : d.score \in Int
    BY DEF Cell
<1>2. e.ways > 0 /\ \A d \in E : d.ways > 0 => e.score >= d.score
    BY <1>1
<1>3. \A d \in E : d.ways > 0 /\ d # e => e.score > d.score
    BY <1>1
<1>4. QED
    BY <1>2, <1>3, RelaxedFacts

(* Each cell from the two it may be reached from.                          *)
Reach(rows, rest, hoisted, types, M, next, i, h, e) ==
    \/ /\ i - h \in DOMAIN rest
       /\ \E s \in Int :
             /\ s = Score(rows[i], rest[i - h], types) /\ s <= 100 /\ (i \in M => s = VIOLATION)
             /\ e = Entry(next[h].score + s, next[h].ways, next[h].way)
    \/ /\ h + 1 <= Len(hoisted)
       /\ \E s \in Int :
             /\ s <= 100 /\ (i \in M => s = 100)
             /\ e = Entry(next[h + 1].score + s, next[h + 1].ways, next[h + 1].way \union {i})

LEMMA OwnedReach ==
    ASSUME NEW rows, NEW rest, NEW hoisted, NEW props, NEW types, NEW M, NEW a, NEW next,
           Owned(rows, rest, hoisted, props, types, M, a),
           NEW i \in 1..Len(rows), NEW h \in 0..Len(hoisted)
    PROVE  \A e : e \in Onward(rows, rest, hoisted, types, next, i, h) =>
              Reach(rows, rest, hoisted, types, M, next, i, h, e)
<1> DEFINE n == Len(rows)
           H == Len(hoisted)
<1>1. /\ n \in Nat /\ H \in Nat /\ DOMAIN rest = 1..n - H
      /\ rows[i] \in RowOf(props)
      /\ \A j \in 1..n - H : rest[j] \in props
      /\ \A j \in 1..H : \A k \in 1..n - H : hoisted[j] # rest[k]
  <2> Ready(rows, rest, hoisted, props, M, a)
    BY OwnedFacts
  <2>1. /\ n \in Nat /\ H \in Nat /\ DOMAIN rest = 1..n - H
        /\ \A k \in 1..n : rows[k] \in RowOf(props) /\ a[k] \in props
        /\ \A j \in 1..n - H : rest[j] \in props
        /\ \A j \in 1..H : \A k \in 1..n - H : hoisted[j] # rest[k]
    BY Zenon DEF Ready
  <2>2. QED
    BY <2>1
<1>2. Given(rows, rest, hoisted, props) /\ \A k \in M : KeyScored(rows, hoisted, types, a, k)
    BY KeyScores DEF Owned
<1>3. \A e : e \in Onward(rows, rest, hoisted, types, next, i, h) <=>
         \/ i - h \in DOMAIN rest /\ e = FromRest(rows, rest, types, next, i, h)
         \/ h + 1 <= Len(hoisted) /\ e = FromHoist(rows, hoisted, types, next, i, h)
    BY <1>2, OnwardIs
<1>4. ASSUME i - h \in DOMAIN rest
      PROVE  Reach(rows, rest, hoisted, types, M, next, i, h, FromRest(rows, rest, types, next, i, h))
  <2> DEFINE s == Score(rows[i], rest[i - h], types)
  <2>1. rest[i - h] \in props
    BY <1>1, <1>4
  <2>2. s \in Int /\ s <= 100
    BY <1>1, <2>1, ScoreFacts
  <2>3. i \in M => s = VIOLATION
    <3>1. SUFFICES ASSUME i \in M PROVE s = VIOLATION
        OBVIOUS
    <3>2. PICK j \in 1..H : a[i] = hoisted[j]
        BY <3>1 DEF Owned
    <3>3. rest[i - h] # a[i]
        BY <1>1, <1>4, <3>2
    <3>4. \A p : p # a[i] => Score(rows[i], p, types) = VIOLATION
        BY <1>2, <3>1 DEF KeyScored
    <3>5. QED
        BY <3>3, <3>4
  <2> HIDE DEF s
  <2>4. FromRest(rows, rest, types, next, i, h) = Entry(next[h].score + s, next[h].ways, next[h].way)
    BY DEF FromRest, s
  <2>5. QED
    BY <1>4, <2>2, <2>3, <2>4 DEF Reach, s
<1>5. ASSUME h + 1 <= Len(hoisted)
      PROVE  Reach(rows, rest, hoisted, types, M, next, i, h, FromHoist(rows, hoisted, types, next, i, h))
  <2> DEFINE row == rows[i]
             s == BestHoisted(row, hoisted, types)
  <2>1. row \in RowOf(props) /\ hoisted \in Seq(props) /\ Len(hoisted) # 0
    BY <1>1, <1>2, <1>5 DEF Given
  <2> HIDE DEF row
  <2>2. s \in Int /\ s <= 100
    BY <2>1, BestHoistedIs
  <2>3. i \in M => s = 100
    BY <1>2 DEF KeyScored, row
  <2> HIDE DEF s
  <2>4. FromHoist(rows, hoisted, types, next, i, h)
          = Entry(next[h + 1].score + s, next[h + 1].ways, next[h + 1].way \union {i})
    BY DEF FromHoist, s, row
  <2>5. QED
    BY <1>5, <2>2, <2>3, <2>4 DEF Reach
<1>6. QED
    BY <1>3, <1>4, <1>5

(* A cell of the first table, h rows being hoisted: too many hoisted       *)
(* before leaves a key to violate; the right number leaves one way.        *)
Room(n, i) == 100 * ((n + 1) - i)
Left(M, i) == {m \in M : m >= i}
Good(c, n, M, t, i, h) ==
    /\ c.ways > 0 => c.score <= Room(n, i)
    /\ c.ways > 0 /\ h > Earlier(M, i) => c.score <= VIOLATION + Room(n, i)
    /\ h = Earlier(M, i) => c = Entry(t, 1, Left(M, i))

LEMMA Rooms ==
    ASSUME NEW n \in Nat, 100 * n + (VIOLATION \div 2) < 0
    PROVE  /\ VIOLATION \in Int
           /\ \A i \in 1..n + 1 : Room(n, i) \in Int /\ Room(n, i) >= 0 /\ VIOLATION + Room(n, i) < 0
           /\ \A i \in 1..n : Room(n, i) = Room(n, i + 1) + 100
<1>1. VIOLATION \in Int /\ VIOLATION + 100 * n < 0
    BY Halfway, SMT
<1>2. \A i \in 1..n + 1 : Room(n, i) \in Int /\ Room(n, i) >= 0 /\ Room(n, i) <= 100 * n
    BY SMT DEF Room
<1>3. \A i \in 1..n : Room(n, i) = Room(n, i + 1) + 100
    BY SMT DEF Room
<1>4. \A i \in 1..n + 1 : VIOLATION + Room(n, i) < 0
  <2>1. 100 * n \in Int
    OBVIOUS
  <2> HIDE DEF VIOLATION
  <2> QED
    BY <1>1, <1>2, <2>1
<1>5. QED
    BY <1>1, <1>2, <1>3, <1>4

LEMMA LeftIs ==
    ASSUME NEW M, \A m \in M : m \in Int, NEW i \in Int
    PROVE  /\ i \in M => Left(M, i) = Left(M, i + 1) \union {i}
           /\ i \notin M => Left(M, i) = Left(M, i + 1)
<1>1. \A m \in Int : m >= i <=> m >= i + 1 \/ m = i
    OBVIOUS
<1>2. \A m : m \in Left(M, i) <=> m \in M /\ (m >= i + 1 \/ m = i)
    BY <1>1 DEF Left
<1>3. \A m : m \in Left(M, i + 1) <=> m \in M /\ m >= i + 1
    BY DEF Left
<1>4. QED
    BY <1>2, <1>3

LEMMA OwnedStep ==
    ASSUME NEW rows, NEW rest, NEW hoisted, NEW props, NEW types, NEW M, NEW a,
           Owned(rows, rest, hoisted, props, types, M, a),
           NEW i \in 1..Len(rows), NEW h \in 0..Len(hoisted), NEW W, {} \in W,
           NEW T, T = TotalFrom(rows, a, types),
           NEW next, \A g \in 0..Len(hoisted) :
              next[g] \in Cell(W) /\ Good(next[g], Len(rows), M, T[i + 1], i + 1, g),
           NEW E, E = Onward(rows, rest, hoisted, types, next, i, h), E \subseteq Cell(W)
    PROVE  Good(Relaxed(E), Len(rows), M, T[i], i, h)
<1> DEFINE n == Len(rows)
           H == Len(hoisted)
           k(j) == Room(n, j)
           c(j) == Earlier(M, j)
<1> Ready(rows, rest, hoisted, props, M, a)
    BY OwnedFacts
<1>1. /\ n \in Nat /\ H \in Nat /\ 100 * n + (VIOLATION \div 2) < 0
      /\ M \in SUBSET (1..n) /\ Cardinality(M) = H
      /\ i + 1 \in 1..n + 1 /\ i \in 1..n + 1 /\ i \in 1..n /\ i \in Int /\ h \in Int
  <2>1. n \in Nat /\ H \in Nat /\ 100 * n + (VIOLATION \div 2) < 0
        /\ M \in SUBSET (1..n) /\ Cardinality(M) = H
    BY DEF Ready
  <2>2. QED
    BY <2>1
<1>2. /\ VIOLATION \in Int
      /\ k(i) \in Int /\ k(i + 1) \in Int /\ k(i) = k(i + 1) + 100 /\ VIOLATION + k(i) < 0
    BY <1>1, Rooms
<1>3. /\ c(i) \in Nat /\ c(i + 1) \in Nat /\ c(i + 1) <= H
      /\ c(i + 1) = IF i \in M THEN c(i) + 1 ELSE c(i)
  <2>1. \A j \in 1..n + 1 : Earlier(M, j) \in Nat /\ Earlier(M, j) <= Cardinality(M)
    BY <1>1, EarlierFacts
  <2>2. \A j \in 1..n : Earlier(M, j + 1) = IF j \in M THEN Earlier(M, j) + 1 ELSE Earlier(M, j)
    BY <1>1, EarlierFacts
  <2>3. QED
    BY <1>1, <2>1, <2>2
<1>4. \A e \in E : Reach(rows, rest, hoisted, types, M, next, i, h, e)
    BY OwnedReach
<1>5. \A g \in 0..H : next[g].score \in Int /\ next[g].ways \in 0..2
    BY DEF Cell
<1>6. \A g \in 0..H :
         /\ next[g].ways > 0 => next[g].score <= k(i + 1)
         /\ next[g].ways > 0 /\ g > c(i + 1) => next[g].score <= VIOLATION + k(i + 1)
         /\ g = c(i + 1) => next[g] = Entry(T[i + 1], 1, Left(M, i + 1))
    BY DEF Good
<1>7. /\ T[i] = Score(rows[i], a[i], types) + T[i + 1]
      /\ T[i] \in Int /\ T[i] >= 0 /\ T[i + 1] \in Int
      /\ Score(rows[i], a[i], types) \in Int
  <2>1. rows \in Seq(RowOf(props)) /\ a \in [DOMAIN rows -> props]
        /\ \A r \in 1..n : Score(rows[r], a[r], types) >= 0
    BY DEF Owned, Given
  <2>2. \A r \in i..n : r \in 1..n
    BY <1>1
  <2>3. T[i] \in Int /\ T[i + 1] \in Int /\ T[i] >= 0
    BY <1>1, <2>1, <2>2, TotalBounds
  <2>4. T[i] = Score(rows[i], a[i], types) + T[i + 1]
    BY <1>1, TotalFromIs
  <2>5. rows[i] \in RowOf(props) /\ a[i] \in props
    BY DEF Ready
  <2>6. Score(rows[i], a[i], types) \in Int
    BY <2>5, ScoreFacts
  <2>7. QED
    BY <2>3, <2>4, <2>6
<1> HIDE DEF n, H, k, c
<1>8. \A e \in E :
         \/ \E s \in Int : /\ s <= 100 /\ (i \in M => s = VIOLATION)
                           /\ e.score = next[h].score + s /\ e.ways = next[h].ways
         \/ \E s \in Int : /\ h + 1 <= H /\ s <= 100 /\ (i \in M => s = 100)
                           /\ e.score = next[h + 1].score + s /\ e.ways = next[h + 1].ways
    BY <1>4 DEF Reach, Entry, H
<1>9. h + 1 <= H => h + 1 \in 0..H
    BY <1>1 DEF H
<1>10. h \in 0..H
    BY DEF H
<1>11. Relaxed(E).ways > 0 => Relaxed(E).score <= k(i)
  <2>1. ASSUME NEW e \in E, e.ways > 0 PROVE e.score <= k(i)
    <3>1. CASE \E s \in Int : /\ s <= 100 /\ e.score = next[h].score + s /\ e.ways = next[h].ways
      <4>1. next[h].score \in Int /\ next[h].score <= k(i + 1)
        BY <1>5, <1>6, <1>10, <2>1, <3>1
      <4>2. QED
        BY <1>2, <3>1, <4>1, SMTT(20)
    <3>2. CASE \E s \in Int : /\ h + 1 <= H /\ s <= 100
                              /\ e.score = next[h + 1].score + s /\ e.ways = next[h + 1].ways
      <4>1. next[h + 1].score \in Int /\ next[h + 1].score <= k(i + 1)
        BY <1>5, <1>6, <1>9, <2>1, <3>2
      <4>2. QED
        BY <1>2, <3>2, <4>1, SMTT(20)
    <3>3. QED
        BY <1>8, <3>1, <3>2
  <2>2. QED
    BY <1>2, <2>1, RelaxedBelow
<1>12. ASSUME h > c(i) PROVE Relaxed(E).ways > 0 => Relaxed(E).score <= VIOLATION + k(i)
  <2>1. ASSUME NEW e \in E, e.ways > 0 PROVE e.score <= VIOLATION + k(i)
    <3>1. CASE \E s \in Int : /\ s <= 100 /\ (i \in M => s = VIOLATION)
                              /\ e.score = next[h].score + s /\ e.ways = next[h].ways
      <4>1. next[h].score \in Int /\ next[h].score <= k(i + 1)
            /\ (h > c(i + 1) => next[h].score <= VIOLATION + k(i + 1))
        BY <1>5, <1>6, <1>10, <2>1, <3>1
      <4>2. i \notin M => h > c(i + 1)
        BY <1>3, <1>12
      <4>3. QED
        BY <1>2, <3>1, <4>1, <4>2, SMTT(20)
    <3>2. CASE \E s \in Int : /\ h + 1 <= H /\ s <= 100
                              /\ e.score = next[h + 1].score + s /\ e.ways = next[h + 1].ways
      <4>1. h + 1 > c(i + 1)
        BY <1>1, <1>3, <1>12
      <4>2. next[h + 1].score \in Int /\ next[h + 1].score <= VIOLATION + k(i + 1)
        BY <1>5, <1>6, <1>9, <2>1, <3>2, <4>1
      <4>3. QED
        BY <1>2, <3>2, <4>2, SMTT(20)
    <3>3. QED
        BY <1>8, <3>1, <3>2
  <2>2. VIOLATION + k(i) \in Int
    BY <1>2
  <2>3. QED
    BY <2>1, <2>2, RelaxedBelow
<1>13. ASSUME h = c(i) PROVE Relaxed(E) = Entry(T[i], 1, Left(M, i))
  <2> DEFINE e == Entry(T[i], 1, Left(M, i))
  <2>1. e.score = T[i] /\ e.ways = 1
    BY DEF Entry
  <2>2. \A x : x \in E <=>
           \/ i - h \in DOMAIN rest /\ x = FromRest(rows, rest, types, next, i, h)
           \/ h + 1 <= Len(hoisted) /\ x = FromHoist(rows, hoisted, types, next, i, h)
    BY OnwardIs DEF Owned
  <2>3. CASE i \in M
    <3>1. c(i + 1) = h + 1 /\ h + 1 \in 0..H /\ h + 1 <= Len(hoisted)
        BY <1>1, <1>3, <1>9, <1>13, <2>3 DEF H
    <3>2. next[h + 1] = Entry(T[i + 1], 1, Left(M, i + 1))
        BY <1>6, <3>1
    <3>3. next[h + 1].score = T[i + 1] /\ next[h + 1].ways = 1 /\ next[h + 1].way = Left(M, i + 1)
        BY <3>2 DEF Entry
    <3>4. KeyScored(rows, hoisted, types, a, i)
        BY <2>3, KeyScores
    <3>5. Score(rows[i], a[i], types) = 100 /\ BestHoisted(rows[i], hoisted, types) = 100
        BY <3>4 DEF KeyScored
    <3>6. Left(M, i) = Left(M, i + 1) \union {i}
      <4>1. \A m \in M : m \in Int
        BY <1>1
      <4>2. QED
        BY <1>1, <2>3, <4>1, LeftIs
    <3>7. T[i + 1] + 100 = T[i]
        BY <1>7, <3>5
    <3>8. e = FromHoist(rows, hoisted, types, next, i, h)
        BY <3>3, <3>5, <3>6, <3>7 DEF FromHoist
    <3>9. e \in E
        BY <2>2, <3>1, <3>8
    <3> HIDE DEF e
    <3>10. \A d \in E : d.ways > 0 /\ d # e => d.score < e.score
      <4>1. SUFFICES ASSUME NEW d \in E, d.ways > 0, d # e PROVE d.score < e.score
        OBVIOUS
      <4>2. d = FromRest(rows, rest, types, next, i, h) /\ i - h \in DOMAIN rest
        BY <2>2, <3>8, <4>1
      <4>3. d.score = next[h].score + Score(rows[i], rest[i - h], types) /\ d.ways = next[h].ways
        BY <4>2 DEF FromRest, Entry
      <4>4. Score(rows[i], rest[i - h], types) = VIOLATION
        <5>1. PICK j \in 1..Len(hoisted) : a[i] = hoisted[j]
            BY <2>3 DEF Owned
        <5>2. rest[i - h] # a[i]
            BY <4>2, <5>1 DEF Ready
        <5>3. QED
            BY <3>4, <5>2 DEF KeyScored
      <4>5. next[h].score \in Int /\ next[h].score <= k(i + 1)
        BY <1>5, <1>6, <1>10, <4>1, <4>3
      <4>6. QED
        BY <1>2, <1>7, <2>1, <4>3, <4>4, <4>5, SMTT(20)
    <3>11. QED
        BY <2>1, <3>9, <3>10, RelaxedTo DEF e
  <2>4. CASE i \notin M
    <3>1. c(i + 1) = h
        BY <1>3, <1>13, <2>4
    <3>2. next[h] = Entry(T[i + 1], 1, Left(M, i + 1))
        BY <1>6, <1>10, <3>1
    <3>3. next[h].score = T[i + 1] /\ next[h].ways = 1 /\ next[h].way = Left(M, i + 1)
        BY <3>2 DEF Entry
    <3>4. i - h \in DOMAIN rest /\ rest[i - h] = a[i]
      <4>1. i \in (1..n) \ M
        BY <1>1, <2>4 DEF n
      <4>2. i - Earlier(M, i) \in 1..n - H
        BY <1>1, <4>1, PlacesLeft
      <4>3. a[i] = rest[i - Earlier(M, i)]
        BY <4>1 DEF Owned, n
      <4>4. QED
        BY <1>13, <4>2, <4>3 DEF c, Ready, n, H
    <3>5. Left(M, i) = Left(M, i + 1)
      <4>1. \A m \in M : m \in Int
        BY <1>1
      <4>2. QED
        BY <1>1, <2>4, <4>1, LeftIs
    <3>6. T[i + 1] + Score(rows[i], a[i], types) = T[i]
        BY <1>7
    <3>7. e = FromRest(rows, rest, types, next, i, h)
        BY <3>3, <3>4, <3>5, <3>6 DEF FromRest
    <3>8. e \in E
        BY <2>2, <3>4, <3>7
    <3> HIDE DEF e
    <3>9. \A d \in E : d.ways > 0 /\ d # e => d.score < e.score
      <4>1. SUFFICES ASSUME NEW d \in E, d.ways > 0, d # e PROVE d.score < e.score
        OBVIOUS
      <4>2. d = FromHoist(rows, hoisted, types, next, i, h) /\ h + 1 <= H
        BY <2>2, <3>7, <4>1 DEF H
      <4> DEFINE s == BestHoisted(rows[i], hoisted, types)
      <4>3. d.score = next[h + 1].score + s /\ d.ways = next[h + 1].ways
        BY <4>2 DEF FromHoist, Entry
      <4>4. s \in Int /\ s <= 100
        <5> DEFINE row == rows[i]
        <5>1. row \in RowOf(props) /\ hoisted \in Seq(props) /\ Len(hoisted) # 0
          <6>1. row \in RowOf(props)
            BY DEF Ready
          <6>2. hoisted \in Seq(props)
            BY DEF Owned, Given
          <6>3. Len(hoisted) # 0
            BY <1>1, <4>2 DEF H
          <6>4. QED
            BY <6>1, <6>2, <6>3
        <5> HIDE DEF row
        <5>2. BestHoisted(row, hoisted, types) \in Int /\ BestHoisted(row, hoisted, types) <= 100
            BY <5>1, BestHoistedIs
        <5>3. QED
            BY <5>2 DEF row
      <4>5. next[h + 1].score \in Int /\ next[h + 1].score <= VIOLATION + k(i + 1)
        <5>1. h + 1 > c(i + 1) /\ h + 1 \in 0..H
            BY <1>1, <1>9, <3>1, <4>2
        <5>2. QED
            BY <1>5, <1>6, <4>1, <4>3, <5>1
      <4> HIDE DEF s
      <4>6. d.score \in Int /\ d.score <= VIOLATION + k(i)
        <5> DEFINE v == next[h + 1].score
                   low == VIOLATION + k(i + 1)
                   high == VIOLATION + k(i)
        <5>1. d.score = v + s
          BY <4>3
        <5>2. v \in Int /\ v <= low
          BY <4>5
        <5>3. low \in Int /\ high \in Int /\ high = low + 100
          BY <1>2
        <5> HIDE DEF v, low, high
        <5>4. d.score \in Int /\ d.score <= high
          BY <4>4, <5>1, <5>2, <5>3
        <5>5. QED
          BY <5>4 DEF high
      <4>7. QED
        BY <1>2, <1>7, <2>1, <4>6, SMTT(20)
    <3>10. QED
        BY <2>1, <3>8, <3>9, RelaxedTo DEF e
  <2>5. QED
    BY <2>3, <2>4
<1>14. QED
    BY <1>11, <1>12, <1>13 DEF Good, k, c, n

LEMMA OwnedFirst ==
    ASSUME NEW rows, NEW rest, NEW hoisted, NEW props, NEW types, NEW M, NEW a,
           Owned(rows, rest, hoisted, props, types, M, a)
    PROVE  First(rows, rest, hoisted, types) = Entry(Total(rows, a, types), 1, M)
<1> DEFINE n == Len(rows)
           H == Len(hoisted)
           W == SUBSET (1..n)
           dp == HoistTable(rows, rest, hoisted, types)
           T == TotalFrom(rows, a, types)
           S == {i \in 1..n + 1 : \A h \in 0..H : Good(dp[i][h], n, M, T[i], i, h)}
<1>1. /\ n \in Nat /\ H \in Nat /\ 100 * n + (VIOLATION \div 2) < 0
      /\ M \in SUBSET (1..n) /\ Cardinality(M) = H
  <2> Ready(rows, rest, hoisted, props, M, a)
    BY OwnedFacts
  <2>1. QED
    BY DEF Ready
<1>2. \A i \in 1..n + 1 : \A h \in 0..H : dp[i][h] \in Cell(W)
  <2>1. \A i \in 1..n + 1 : \A h \in 0..H : Due(dp[i][h], n, H, i, h)
    BY HoistCells DEF Owned
  <2>2. QED
    BY <2>1 DEF Due
<1>3. /\ \A h \in 0..H : dp[n + 1][h] = IF h = H THEN Entry(0, 1, {}) ELSE Dead
      /\ \A i \in 1..n : \A h \in 0..H :
            dp[i][h] = Relaxed(Onward(rows, rest, hoisted, types, dp[i + 1], i, h))
    BY <1>1, HoistTableIs
<1>4. T[n + 1] = 0
    BY <1>1, TotalFromIs
<1>5. Earlier(M, n + 1) = H /\ Earlier(M, 1) = 0
    BY <1>1, EarlierFacts
<1> HIDE DEF dp
<1>6. ASSUME NEW h \in 0..H PROVE Good(dp[n + 1][h], n, M, T[n + 1], n + 1, h)
  <2>1. ~ (h > H)
    BY <1>1
  <2>2. CASE h = H
    <3>1. Left(M, n + 1) = {}
      <4>1. \A m \in 1..n : ~ (m >= n + 1)
        BY <1>1
      <4>2. QED
        BY <1>1, <4>1 DEF Left
    <3>2. Room(n, n + 1) = 0
        BY <1>1 DEF Room
    <3>3. dp[n + 1][h] = Entry(0, 1, {})
        BY <1>3, <2>2
    <3>4. Entry(0, 1, {}).score = 0
        BY DEF Entry
    <3> DEFINE c == dp[n + 1][h]
    <3>5. c.score <= Room(n, n + 1)
        BY <3>2, <3>3, <3>4
    <3>6. ~ (h > Earlier(M, n + 1))
        BY <1>5, <2>1
    <3>7. c = Entry(T[n + 1], 1, Left(M, n + 1))
        BY <1>4, <3>1, <3>3
    <3> HIDE DEF T, n, c
    <3>8. Good(c, n, M, T[n + 1], n + 1, h)
        BY <3>5, <3>6, <3>7 DEF Good
    <3>9. QED
        BY <3>8 DEF c
  <2>3. CASE h # H
    <3>1. dp[n + 1][h] = Dead
        BY <1>3, <2>3
    <3>2. ~ (dp[n + 1][h].ways > 0)
        BY <3>1 DEF Dead, Entry
    <3> HIDE DEF T, n
    <3>3. QED
        BY <1>5, <2>3, <3>2 DEF Good
  <2>4. QED
    BY <2>2, <2>3
<1>7. ASSUME NEW i \in 1..n, i + 1 \in S PROVE i \in S
  <2> SUFFICES ASSUME NEW h \in 0..H PROVE Good(dp[i][h], n, M, T[i], i, h)
    BY <1>1
  <2> DEFINE next == dp[i + 1]
             E == Onward(rows, rest, hoisted, types, next, i, h)
  <2>1. i + 1 \in 1..n + 1
    BY <1>1
  <2>2. \A g \in 0..Len(hoisted) :
           next[g] \in Cell(W) /\ Good(next[g], Len(rows), M, T[i + 1], i + 1, g)
    BY <1>2, <1>7, <2>1
  <2>3. \A e \in E : Reach(rows, rest, hoisted, types, M, next, i, h, e)
    BY OwnedReach
  <2>4. E \subseteq Cell(W)
    <3> SUFFICES ASSUME NEW e \in E PROVE e \in Cell(W)
        OBVIOUS
    <3>1. \E g \in 0..H : \E s \in Int :
             \/ e = Entry(next[g].score + s, next[g].ways, next[g].way)
             \/ e = Entry(next[g].score + s, next[g].ways, next[g].way \union {i})
      <4>1. h + 1 <= H => h + 1 \in 0..H
        BY <1>1
      <4>2. Reach(rows, rest, hoisted, types, M, next, i, h, e)
        BY <2>3
      <4> HIDE DEF next
      <4>3. \/ \E s \in Int : e = Entry(next[h].score + s, next[h].ways, next[h].way)
            \/ h + 1 <= H /\ \E s \in Int :
                  e = Entry(next[h + 1].score + s, next[h + 1].ways, next[h + 1].way \union {i})
        BY <4>2 DEF Reach
      <4>4. QED
        BY <4>1, <4>3
    <3>2. PICK g \in 0..H, s \in Int :
             \/ e = Entry(next[g].score + s, next[g].ways, next[g].way)
             \/ e = Entry(next[g].score + s, next[g].ways, next[g].way \union {i})
        BY <3>1
    <3>3. next[g].score \in Int /\ next[g].ways \in 0..2 /\ next[g].way \in W
        BY <2>2 DEF Cell
    <3>4. next[g].way \union {i} \in W /\ next[g].score + s \in Int
        BY <3>3
    <3> HIDE DEF next, W
    <3>5. /\ Entry(next[g].score + s, next[g].ways, next[g].way) \in Cell(W)
          /\ Entry(next[g].score + s, next[g].ways, next[g].way \union {i}) \in Cell(W)
        BY <3>3, <3>4 DEF Cell, Entry
    <3>6. QED
        BY <3>2, <3>5
  <2>5. {} \in W
    OBVIOUS
  <2>6. dp[i][h] = Relaxed(E)
    BY <1>3
  <2> HIDE DEF W, E, next
  <2>7. Good(Relaxed(E), Len(rows), M, T[i], i, h)
    BY <2>2, <2>4, <2>5, OwnedStep DEF E
  <2>8. QED
    BY <2>6, <2>7
<1>8. n + 1 \in S
    BY <1>1, <1>6
<1>9. \A i \in 1..n + 1 : i \in S
  <2> HIDE DEF S
  <2>1. QED
    BY <1>1, <1>7, <1>8, DownwardInduction
<1>10. Good(dp[1][0], n, M, T[1], 1, 0)
  <2>1. 1 \in 1..n + 1 /\ 0 \in 0..H
    BY <1>1
  <2>2. QED
    BY <1>9, <2>1
<1>11. Left(M, 1) = M
  <2>1. \A m \in M : m >= 1
    BY <1>1
  <2>2. QED
    BY <2>1 DEF Left
<1>12. dp[1][0] = Entry(T[1], 1, M)
    BY <1>5, <1>10, <1>11 DEF Good
<1>13. QED
    BY <1>12 DEF First, Total, dp

(* The second table, where every row has one hoisted property it fits.     *)
Fits(moved, hoisted, types, props, f) ==
    LET H == Len(hoisted)
    IN  /\ hoisted \in Seq(props) /\ IsInjective(hoisted)
        /\ moved \in [DOMAIN hoisted -> RowOf(props)] /\ 100 * H + (VIOLATION \div 2) < 0
        /\ f \in [1..H -> 1..H] /\ \A k, l \in 1..H : f[k] = f[l] => k = l
        /\ \A j \in 1..H : \E k \in 1..H : f[k] = j
        /\ \A k \in 1..H : /\ Score(moved[k], hoisted[f[k]], types) = 100
                           /\ \A j \in 1..H : j # f[k] => Score(moved[k], hoisted[j], types) = VIOLATION
Leading(f, m) == {f[k] : k \in 1..m}
Fitted(hoisted, f, m) == [k \in 1..m |-> hoisted[f[k]]]
GoodSet(c, hoisted, f, used) ==
    LET m == Cardinality(used)
    IN  /\ c.ways > 0 => c.score <= 100 * m
        /\ c.ways > 0 /\ used # Leading(f, m) => c.score <= VIOLATION + 100 * m
        /\ used = Leading(f, m) => c = Entry(100 * m, 1, Fitted(hoisted, f, m))

LEMMA LeadingIs ==
    ASSUME NEW H \in Nat, NEW f \in [1..H -> 1..H], \A k, l \in 1..H : f[k] = f[l] => k = l,
           NEW m \in 1..H
    PROVE  Leading(f, m) = Leading(f, m - 1) \union {f[m]} /\ f[m] \notin Leading(f, m - 1)
<1>1. 1..m = 1..m - 1 \union {m} /\ 1..m \subseteq 1..H /\ m \notin 1..m - 1 /\ m \in 1..H
    OBVIOUS
<1>2. \A j : j \in Leading(f, m) <=> j \in Leading(f, m - 1) \/ j = f[m]
    BY <1>1 DEF Leading
<1>3. f[m] \notin Leading(f, m - 1)
    BY <1>1 DEF Leading
<1>4. QED
    BY <1>2, <1>3

LEMMA FittedIs ==
    ASSUME NEW props, NEW hoisted, NEW H \in Nat, NEW f \in [1..H -> 1..H],
           \A j \in 1..H : hoisted[j] \in props, NEW m \in 1..H
    PROVE  Append(Fitted(hoisted, f, m - 1), hoisted[f[m]]) = Fitted(hoisted, f, m)
<1> DEFINE w == Fitted(hoisted, f, m - 1)
           x == hoisted[f[m]]
<1>1. \A k \in 1..m : f[k] \in 1..H
    OBVIOUS
<1>2. m - 1 \in Nat /\ \A k \in 1..m - 1 : hoisted[f[k]] \in props
  <2>1. \A k \in 1..m - 1 : k \in 1..m
    OBVIOUS
  <2>2. QED
    BY <1>1, <2>1
<1>3. w \in Seq(props) /\ Len(w) = m - 1 /\ \A k \in 1..m - 1 : w[k] = hoisted[f[k]]
    BY <1>2 DEF Fitted
<1>4. x \in props
    BY <1>1
<1> HIDE DEF w, x
<1>5. /\ Append(w, x) \in Seq(props) /\ Len(Append(w, x)) = Len(w) + 1
      /\ \A k \in 1..Len(w) + 1 : Append(w, x)[k] = IF k = Len(w) + 1 THEN x ELSE w[k]
    BY <1>3, <1>4, AppendIs
<1>6. DOMAIN Append(w, x) = 1..m /\ Append(w, x) = [k \in 1..m |-> Append(w, x)[k]]
  <2>1. \A s \in Seq(props) : DOMAIN s = 1..Len(s) /\ s = [k \in 1..Len(s) |-> s[k]]
    OBVIOUS
  <2>2. Len(w) + 1 = m
    BY <1>3
  <2>3. QED
    BY <1>5, <2>1, <2>2
<1>7. \A k \in 1..m : Append(w, x)[k] = hoisted[f[k]]
  <2>1. \A k \in 1..m : k = m \/ k \in 1..m - 1
    OBVIOUS
  <2>2. Len(w) + 1 = m
    BY <1>3
  <2>3. \A k \in 1..m : Append(w, x)[k] = IF k = m THEN x ELSE w[k]
    BY <1>5, <2>2
  <2>4. QED
    BY <1>3, <2>1, <2>3 DEF x
<1>8. QED
    BY <1>6, <1>7 DEF Fitted, w, x

LEMMA SecondFits ==
    ASSUME NEW moved, NEW hoisted, NEW types, NEW props, NEW f,
           Fits(moved, hoisted, types, props, f)
    PROVE  AssignTable(moved, hoisted, types)[DOMAIN hoisted]
             = Entry(100 * Len(hoisted), 1, Fitted(hoisted, f, Len(hoisted)))
<1> DEFINE H == Len(hoisted)
           D == DOMAIN hoisted
           best == AssignTable(moved, hoisted, types)
           U(m) == Leading(f, m)
           S == {used \in SUBSET D : GoodSet(best[used], hoisted, f, used)}
<1>1. /\ hoisted \in Seq(props) /\ IsInjective(hoisted)
      /\ moved \in [DOMAIN hoisted -> RowOf(props)] /\ 100 * H + (VIOLATION \div 2) < 0
      /\ f \in [1..H -> 1..H] /\ \A k, l \in 1..H : f[k] = f[l] => k = l
      /\ \A j \in 1..H : \E k \in 1..H : f[k] = j
      /\ \A k \in 1..H : /\ Score(moved[k], hoisted[f[k]], types) = 100
                         /\ \A j \in 1..H : j # f[k] => Score(moved[k], hoisted[j], types) = VIOLATION
    BY DEF Fits
<1>2. H \in Nat /\ D = 1..H /\ \A j \in 1..H : hoisted[j] \in props
  <2>1. H \in Nat /\ D = 1..H /\ \A j \in D : hoisted[j] \in props
    BY <1>1
  <2>2. QED
    BY <2>1
<1>3. IsFiniteSet(D) /\ Cardinality(D) = H
    BY <1>2, CountTo
<1>4. /\ best[{}] = Entry(0, 1, << >>)
      /\ \A used \in SUBSET D :
            used # {} => best[used] = Relaxed(Taking(moved, hoisted, types, best, used))
    BY <1>3, AssignTableIs
<1>5. \A used \in SUBSET D : Taken(best[used], hoisted, used)
    BY <1>1, AssignCells
<1>6. VIOLATION \in Int /\ VIOLATION <= 100 /\ \A m \in 0..H : 100 * m \in Int /\ VIOLATION + 100 * m < 0
  <2>1. VIOLATION \in Int /\ VIOLATION <= 100 /\ VIOLATION + 100 * H < 0
    BY <1>1, <1>2, Halfway, SMT
  <2> HIDE DEF VIOLATION, H
  <2>2. QED
    BY <1>2, <2>1, SMT
<1> HIDE DEF best, H, D
<1>7. {} \in S
  <2>1. Cardinality({}) = 0
    BY FS_EmptySet
  <2>2. Leading(f, 0) = {}
    BY DEF Leading
  <2>3. Fitted(hoisted, f, 0) = << >>
    BY DEF Fitted
  <2>4. best[{}].score = 0 /\ 100 * 0 = 0
    BY <1>4 DEF Entry
  <2>5. GoodSet(best[{}], hoisted, f, {})
    BY <1>4, <2>1, <2>2, <2>3, <2>4 DEF GoodSet
  <2>6. QED
    BY <2>5
<1>8. ASSUME NEW used \in SUBSET D, used # {}, \A j \in used : used \ {j} \in S
      PROVE  used \in S
  <2> DEFINE E == Taking(moved, hoisted, types, best, used)
             m == Cardinality(used)
             W == {e.way : e \in E} \union {{}}
             b(j) == best[used \ {j}]
             s(j) == Score(moved[m], hoisted[j], types)
             from(j) == Entry(b(j).score + s(j), b(j).ways, Append(b(j).way, hoisted[j]))
  <2>1. IsFiniteSet(used) /\ m \in 1..H /\ m - 1 \in 0..H /\ m \in 0..H
    <3>1. IsFiniteSet(used) /\ Cardinality(used) <= H
        BY <1>3, FS_Subset
    <3>2. Cardinality(used) \in Nat /\ Cardinality(used) # 0
        BY <1>8, <3>1, FS_CardinalityType, FS_EmptySet
    <3>3. QED
        BY <1>2, <3>1, <3>2
  <2>2. \A j \in used : Cardinality(used \ {j}) = m - 1 /\ j \in 1..H /\ used \ {j} \in SUBSET D
    BY <1>2, <2>1, FS_RemoveElement
  <2>3. \A j \in used :
           /\ b(j).ways > 0 => b(j).score <= 100 * (m - 1)
           /\ b(j).ways > 0 /\ used \ {j} # U(m - 1) => b(j).score <= VIOLATION + 100 * (m - 1)
           /\ used \ {j} = U(m - 1) => b(j) = Entry(100 * (m - 1), 1, Fitted(hoisted, f, m - 1))
    <3>1. SUFFICES ASSUME NEW j \in used
                   PROVE /\ b(j).ways > 0 => b(j).score <= 100 * (m - 1)
                         /\ b(j).ways > 0 /\ used \ {j} # U(m - 1) => b(j).score <= VIOLATION + 100 * (m - 1)
                         /\ used \ {j} = U(m - 1) => b(j) = Entry(100 * (m - 1), 1, Fitted(hoisted, f, m - 1))
        OBVIOUS
    <3>2. GoodSet(b(j), hoisted, f, used \ {j}) /\ Cardinality(used \ {j}) = m - 1
        BY <1>8, <2>2
    <3> HIDE DEF b, m
    <3>3. QED
        BY <3>2 DEF GoodSet
  <2>4. \A j \in used : b(j).score \in Int /\ b(j).ways \in 0..2
    BY <1>5, <2>2 DEF Taken
  <2>5. \A j \in used : s(j) = IF j = f[m] THEN 100 ELSE VIOLATION
    <3>1. \A k \in 1..H : /\ Score(moved[k], hoisted[f[k]], types) = 100
                         /\ \A j \in 1..H : j # f[k] => Score(moved[k], hoisted[j], types) = VIOLATION
        BY <1>1 DEF H
    <3> HIDE DEF m, VIOLATION
    <3>2. QED
        BY <2>1, <2>2, <3>1
  <2>6. \A e : e \in E <=> \E j \in used : e = from(j)
    BY Zenon DEF Taking
  <2>7. U(m) = U(m - 1) \union {f[m]} /\ f[m] \notin U(m - 1) /\ f[m] \in 1..H
    <3>1. f \in [1..H -> 1..H] /\ \A k, l \in 1..H : f[k] = f[l] => k = l
        BY <1>1 DEF H
    <3> HIDE DEF m
    <3>2. QED
        BY <1>2, <2>1, <3>1, LeadingIs
  <2>8. 100 * (m - 1) + 100 = 100 * m /\ 100 * (m - 1) \in Int /\ 100 * m \in Int
        /\ VIOLATION + 100 * m < 0 /\ VIOLATION \in Int /\ VIOLATION <= 100
    BY <1>6, <2>1
  <2>9. E \subseteq Cell(W) /\ {} \in W
    <3> SUFFICES ASSUME NEW e \in E PROVE e \in Cell(W)
        OBVIOUS
    <3>1. PICK j \in used : e = from(j)
        BY <2>6
    <3>2. b(j).score + s(j) \in Int /\ b(j).ways \in 0..2
      <4> HIDE DEF b, s, m
      <4>1. s(j) \in Int
        BY <2>5, <2>8
      <4>2. QED
        BY <2>4, <4>1
    <3>3. e.way \in W /\ e.way = Append(b(j).way, hoisted[j])
        BY <3>1 DEF Entry
    <3> HIDE DEF W, E, b, s
    <3>4. QED
        BY <3>1, <3>2, <3>3 DEF Cell, Entry
  <2>10. \A j \in used : from(j).score = b(j).score + s(j) /\ from(j).ways = b(j).ways
    BY DEF Entry
  <2>11. best[used] = Relaxed(E)
    BY <1>4, <1>8
  <2> HIDE DEF E, m, W, b, s, from, U
  <2>12. Relaxed(E).ways > 0 => Relaxed(E).score <= 100 * m
    <3>1. ASSUME NEW e \in E, e.ways > 0 PROVE e.score <= 100 * m
      <4>1. PICK j \in used : e = from(j)
        BY <2>6
      <4>2. b(j).ways > 0
        BY <2>10, <3>1, <4>1
      <4>4. b(j).score <= 100 * (m - 1)
        BY <2>3, <4>2
      <4>5. s(j) \in Int /\ s(j) <= 100
        BY <2>5, <2>8
      <4>6. QED
        BY <2>4, <2>8, <2>10, <4>1, <4>4, <4>5
    <3>2. QED
        BY <2>8, <2>9, <3>1, RelaxedBelow
  <2>13. ASSUME used # U(m)
         PROVE  Relaxed(E).ways > 0 => Relaxed(E).score <= VIOLATION + 100 * m
    <3>1. ASSUME NEW e \in E, e.ways > 0 PROVE e.score <= VIOLATION + 100 * m
      <4>1. PICK j \in used : e = from(j)
        BY <2>6
      <4>2. b(j).ways > 0
        BY <2>10, <3>1, <4>1
      <4>3. CASE j = f[m]
        <5>1. used \ {j} # U(m - 1)
            BY <2>7, <2>13, <4>3
        <5>2. b(j).score <= VIOLATION + 100 * (m - 1) /\ s(j) = 100
            BY <2>3, <2>5, <4>2, <4>3, <5>1
        <5>3. QED
            BY <2>4, <2>8, <2>10, <4>1, <5>2
      <4>4. CASE j # f[m]
        <5>1. b(j).score <= 100 * (m - 1) /\ s(j) = VIOLATION
            BY <2>3, <2>5, <4>2, <4>4
        <5>2. QED
            BY <2>4, <2>8, <2>10, <4>1, <5>1
      <4>5. QED
        BY <4>3, <4>4
    <3>2. VIOLATION + 100 * m \in Int
        BY <2>8
    <3>3. QED
        BY <2>9, <3>1, <3>2, RelaxedBelow
  <2>14. ASSUME used = U(m) PROVE Relaxed(E) = Entry(100 * m, 1, Fitted(hoisted, f, m))
    <3> DEFINE e == Entry(100 * m, 1, Fitted(hoisted, f, m))
               top == f[m]
    <3>1. top \in used /\ used \ {top} = U(m - 1)
        BY <2>7, <2>14
    <3>2. b(top) = Entry(100 * (m - 1), 1, Fitted(hoisted, f, m - 1)) /\ s(top) = 100
        BY <2>3, <2>5, <3>1
    <3>3. Append(Fitted(hoisted, f, m - 1), hoisted[top]) = Fitted(hoisted, f, m)
      <4>1. f \in [1..H -> 1..H]
        BY <1>1 DEF H
      <4>2. QED
        BY <1>2, <2>1, <4>1, FittedIs, ZenonT(30)
    <3>4. e = from(top) /\ e \in E
      <4>1. /\ b(top).score = 100 * (m - 1) /\ b(top).ways = 1
            /\ b(top).way = Fitted(hoisted, f, m - 1)
        BY <3>2 DEF Entry
      <4>2. e = from(top)
        BY <2>8, <3>2, <3>3, <4>1 DEF from
      <4>3. QED
        BY <2>6, <3>1, <4>2
    <3>5. e.score = 100 * m /\ e.ways = 1
        BY DEF Entry
    <3> HIDE DEF e
    <3>6. \A d \in E : d.ways > 0 /\ d # e => d.score < e.score
      <4>1. SUFFICES ASSUME NEW d \in E, d.ways > 0, d # e PROVE d.score < e.score
        OBVIOUS
      <4>2. PICK j \in used : d = from(j)
        BY <2>6
      <4>3. j # f[m]
        BY <3>4, <4>1, <4>2
      <4>4. b(j).score <= 100 * (m - 1) /\ s(j) = VIOLATION
        BY <2>3, <2>5, <2>10, <4>1, <4>2, <4>3
      <4>5. d.score = b(j).score + VIOLATION /\ b(j).score \in Int
        BY <2>4, <2>10, <4>2, <4>4
      <4>6. 100 * m >= 0
        BY <1>2, <2>1
      <4>7. QED
        BY <2>8, <3>5, <4>4, <4>5, <4>6
    <3>7. QED
        BY <2>9, <3>4, <3>5, <3>6, RelaxedTo DEF e
  <2>15. GoodSet(best[used], hoisted, f, used)
    BY <2>11, <2>12, <2>13, <2>14 DEF GoodSet, m, U
  <2>16. QED
    BY <2>15
<1>9. \A used \in SUBSET D : used \in S
  <2>1. BySize(D, S)
    <3> HIDE DEF S
    <3>1. QED
        BY <1>8 DEF BySize
  <2> HIDE DEF S
  <2>2. QED
    BY <1>3, <1>7, <2>1, SubsetInduction
<1>10. GoodSet(best[D], hoisted, f, D)
    BY <1>9
<1>11. Leading(f, H) = D
  <2>1. \A k \in 1..H : f[k] \in 1..H
    BY <1>1 DEF H
  <2>2. \A j \in 1..H : \E k \in 1..H : f[k] = j
    BY <1>1 DEF H
  <2>3. QED
    BY <1>2, <2>1, <2>2 DEF Leading
<1>12. best[D] = Entry(100 * H, 1, Fitted(hoisted, f, H))
    BY <1>3, <1>10, <1>11 DEF GoodSet
<1>13. QED
    BY <1>12 DEF best, D, H

LEMMA OntoItself ==
    ASSUME NEW H \in Nat, NEW f \in [1..H -> 1..H], \A k, l \in 1..H : f[k] = f[l] => k = l
    PROVE  \A j \in 1..H : \E k \in 1..H : f[k] = j
<1>1. SUFFICES ASSUME NEW j \in 1..H, \A k \in 1..H : f[k] # j PROVE FALSE
    OBVIOUS
<1>2. IsFiniteSet(1..H) /\ Cardinality(1..H) = H
    BY CountTo
<1>3. IsFiniteSet((1..H) \ {j}) /\ Cardinality((1..H) \ {j}) = H - 1
    BY <1>2, FS_RemoveElement
<1>4. f \in [1..H -> (1..H) \ {j}]
    BY <1>1
<1>5. \E k, l \in 1..H : k # l /\ f[k] = f[l]
  <2>1. Cardinality((1..H) \ {j}) < Cardinality(1..H)
    BY <1>2, <1>3
  <2>2. QED
    BY <1>2, <1>3, <1>4, <2>1, FS_PigeonHole
<1>6. QED
    BY <1>5

(* The rows that are hoisted and the properties they are of.               *)
LEMMA OwnedFits ==
    ASSUME NEW rows, NEW rest, NEW hoisted, NEW props, NEW types, NEW M, NEW a,
           Owned(rows, rest, hoisted, props, types, M, a)
    PROVE  \E f : /\ Fits(Moved(rows, M, hoisted), hoisted, types, props, f)
                  /\ \A i \in M : /\ Earlier(M, i) + 1 \in 1..Len(hoisted)
                                  /\ hoisted[f[Earlier(M, i) + 1]] = a[i]
<1> DEFINE n == Len(rows)
           H == Len(hoisted)
           moved == Moved(rows, M, hoisted)
           at(k) == CHOOSE j \in 1..H : \E i \in M : Earlier(M, i) = k - 1 /\ a[i] = hoisted[j]
           f == [k \in 1..H |-> at(k)]
<1>1. Ready(rows, rest, hoisted, props, M, a)
    BY OwnedFacts
<1>2. /\ n \in Nat /\ H \in Nat /\ H <= n /\ 100 * n + (VIOLATION \div 2) < 0
      /\ DOMAIN hoisted = 1..H /\ M \in SUBSET (1..n) /\ Cardinality(M) = H
      /\ \A i, j \in 1..H : hoisted[i] = hoisted[j] => i = j
    BY <1>1 DEF Ready
<1>3. /\ rows \in Seq(RowOf(props)) /\ hoisted \in Seq(props) /\ IsInjective(hoisted)
      /\ \A i, j \in 1..n : a[i] = a[j] => i = j
      /\ \A i \in M : \E j \in 1..H : a[i] = hoisted[j]
    BY DEF Owned, Given, Apart
<1>4. /\ moved \in [DOMAIN hoisted -> RowOf(props)]
      /\ \A k \in 1..H : \E i \in M : Earlier(M, i) = k - 1 /\ moved[k] = rows[i]
  <2>1. /\ moved \in [DOMAIN hoisted -> RowOf(props)]
        /\ \A k \in DOMAIN hoisted : \E i \in M : Earlier(M, i) = k - 1 /\ moved[k] = rows[i]
    <3>1. /\ rows \in Seq(RowOf(props)) /\ hoisted \in Seq(props)
          /\ M \in SUBSET (1..Len(rows)) /\ Cardinality(M) = Len(hoisted)
        BY <1>2, <1>3
    <3>2. MovesEach(rows, M, hoisted, props)
        BY <3>1, MovedTyped
    <3>3. QED
        BY <3>2 DEF MovesEach
  <2> HIDE DEF moved
  <2>2. QED
    BY <1>2, <2>1
<1>5. ASSUME NEW i \in M PROVE Earlier(M, i) \in Nat /\ Earlier(M, i) + 1 \in 1..H
  <2>1. i \in 1..n /\ i \in 1..n + 1 /\ i + 1 \in 1..n + 1
    BY <1>2
  <2>2. /\ Earlier(M, i) \in Nat /\ Earlier(M, i + 1) = Earlier(M, i) + 1
        /\ Earlier(M, i + 1) <= Cardinality(M)
    BY <1>2, <2>1, EarlierFacts
  <2>3. QED
    BY <1>2, <2>2
<1>6. \A i, l \in M : Earlier(M, i) = Earlier(M, l) => i = l
    BY <1>2, EarlierFacts
<1> HIDE DEF moved, H
<1>7. ASSUME NEW k \in 1..H, NEW i \in M, Earlier(M, i) = k - 1
      PROVE  f[k] \in 1..H /\ hoisted[f[k]] = a[i]
  <2>1. \E j \in 1..H : \E l \in M : Earlier(M, l) = k - 1 /\ a[l] = hoisted[j]
    BY <1>3, <1>7
  <2>2. at(k) \in 1..H /\ \E l \in M : Earlier(M, l) = k - 1 /\ a[l] = hoisted[at(k)]
    BY <2>1
  <2>3. f[k] = at(k)
    OBVIOUS
  <2> HIDE DEF at, f
  <2>4. QED
    BY <1>6, <1>7, <2>2, <2>3
<1>8. f = [k \in 1..H |-> f[k]]
  <2> HIDE DEF at
  <2> QED
    OBVIOUS
<1> HIDE DEF f
<1>9. ASSUME NEW k \in 1..H
      PROVE  /\ f[k] \in 1..H
             /\ \E i \in M : /\ Earlier(M, i) = k - 1 /\ hoisted[f[k]] = a[i]
                             /\ moved[k] = rows[i]
    BY <1>4, <1>7
<1>10. f \in [1..H -> 1..H]
    BY <1>8, <1>9
<1>11. ASSUME NEW k \in 1..H, NEW l \in 1..H, f[k] = f[l] PROVE k = l
  <2>1. PICK i \in M : Earlier(M, i) = k - 1 /\ hoisted[f[k]] = a[i]
    BY <1>9
  <2>2. PICK j \in M : Earlier(M, j) = l - 1 /\ hoisted[f[l]] = a[j]
    BY <1>9
  <2>3. i = j
    BY <1>2, <1>3, <1>11, <2>1, <2>2
  <2>4. k - 1 = l - 1
    BY <2>1, <2>2, <2>3
  <2>5. QED
    BY <2>4
<1>12. \A j \in 1..H : \E k \in 1..H : f[k] = j
    BY <1>2, <1>10, <1>11, OntoItself DEF H
<1>13. ASSUME NEW k \in 1..H
       PROVE  /\ Score(moved[k], hoisted[f[k]], types) = 100
              /\ \A j \in 1..H : j # f[k] => Score(moved[k], hoisted[j], types) = VIOLATION
  <2>1. PICK i \in M : hoisted[f[k]] = a[i] /\ moved[k] = rows[i]
    BY <1>9
  <2>2. KeyScored(rows, hoisted, types, a, i)
    BY KeyScores
  <2>3. /\ Score(rows[i], a[i], types) = 100
        /\ \A p : p # a[i] => Score(rows[i], p, types) = VIOLATION
    BY <2>2 DEF KeyScored
  <2>4. \A j \in 1..H : j # f[k] => hoisted[j] # a[i]
    BY <1>2, <1>9, <2>1 DEF H
  <2> DEFINE s(p) == Score(rows[i], p, types)
  <2>5. s(a[i]) = 100 /\ \A p : p # a[i] => s(p) = VIOLATION
    BY <2>3
  <2> HIDE DEF s
  <2>6. s(hoisted[f[k]]) = 100 /\ \A j \in 1..H : j # f[k] => s(hoisted[j]) = VIOLATION
    BY <2>1, <2>4, <2>5
  <2>7. QED
    BY <2>1, <2>6 DEF s
<1>14. 100 * H + (VIOLATION \div 2) < 0
    BY <1>2, Halfway, SMT DEF H
<1>15. Fits(moved, hoisted, types, props, f)
  <2> HIDE DEF VIOLATION
  <2>1. \A k, l \in 1..H : f[k] = f[l] => k = l
    BY <1>11
  <2>2. \A k \in 1..H : /\ Score(moved[k], hoisted[f[k]], types) = 100
                        /\ \A j \in 1..H : j # f[k] => Score(moved[k], hoisted[j], types) = VIOLATION
    BY <1>13
  <2>3. QED
    BY <1>3, <1>4, <1>10, <1>12, <1>14, <2>1, <2>2, Zenon DEF Fits, H
<1>16. ASSUME NEW i \in M
       PROVE  Earlier(M, i) + 1 \in 1..H /\ hoisted[f[Earlier(M, i) + 1]] = a[i]
  <2> DEFINE k == Earlier(M, i) + 1
  <2>1. k \in 1..H /\ Earlier(M, i) = k - 1
    BY <1>5
  <2> HIDE DEF k
  <2>2. hoisted[f[k]] = a[i]
    BY <1>7, <2>1
  <2>3. QED
    BY <2>1, <2>2 DEF k
<1>17. QED
    BY <1>15, <1>16 DEF H, moved

LEMMA OwnedAligns ==
    ASSUME NEW rows, NEW rest, NEW hoisted, NEW props, NEW types, NEW M, NEW a,
           Owned(rows, rest, hoisted, props, types, M, a), Len(rows) # 0
    PROVE  AlignRows(rows, rest, hoisted, types) = a /\ a # Refused
<1> DEFINE n == Len(rows)
           H == Len(hoisted)
           first == First(rows, rest, hoisted, types)
           second == Second(rows, M, hoisted, types)
           placed == Placing(rows, rest, M, second.way)
<1>1. Ready(rows, rest, hoisted, props, M, a)
    BY OwnedFacts
<1>2. /\ n \in Nat /\ H \in Nat /\ DOMAIN rows = 1..n /\ DOMAIN hoisted = 1..H
      /\ M \subseteq 1..n /\ 100 * n + (VIOLATION \div 2) < 0
    BY <1>1 DEF Ready
<1>3. /\ rows \in Seq(RowOf(props)) /\ a \in [DOMAIN rows -> props]
      /\ \A i \in (1..n) \ M : a[i] = rest[i - Earlier(M, i)]
      /\ \A i \in 1..n : Score(rows[i], a[i], types) >= 0
    BY DEF Owned, Given
<1>4. first = Entry(Total(rows, a, types), 1, M)
    BY OwnedFirst
<1>5. first.ways = 1 /\ first.way = M /\ first.score = Total(rows, a, types)
    BY <1>4 DEF Entry
<1>6. Total(rows, a, types) \in Int /\ Total(rows, a, types) >= 0
  <2>1. 1 \in 1..n + 1 /\ \A r \in 1..n : Score(rows[r], a[r], types) >= 0
    BY <1>2, <1>3
  <2>2. QED
    BY <1>3, <2>1, TotalBounds DEF Total
<1>7. PICK f : /\ Fits(Moved(rows, M, hoisted), hoisted, types, props, f)
               /\ \A i \in M : Earlier(M, i) + 1 \in 1..H /\ hoisted[f[Earlier(M, i) + 1]] = a[i]
    BY OwnedFits
<1>8. second = Entry(100 * H, 1, Fitted(hoisted, f, H))
    BY <1>7, SecondFits DEF Second
<1>9. second.ways = 1 /\ second.score = 100 * H /\ second.way = Fitted(hoisted, f, H)
    BY <1>8 DEF Entry
<1> HIDE DEF first, second
<1>10. VIOLATION \div 2 \in Int /\ VIOLATION \div 2 < 0
    BY Halfway, SMT
<1>11. ~Impossible(first) /\ ~Impossible(second)
  <2>1. 100 * H \in Int /\ 100 * H >= 0
    BY <1>2
  <2> HIDE DEF VIOLATION
  <2>2. ~(first.score <= VIOLATION \div 2) /\ ~(second.score <= VIOLATION \div 2)
    BY <1>5, <1>6, <1>9, <1>10, <2>1
  <2>3. QED
    BY <2>2 DEF Impossible
<1>12. placed = a
  <2>1. \A i \in DOMAIN rows : placed[i] = a[i]
    <3>1. SUFFICES ASSUME NEW i \in DOMAIN rows PROVE placed[i] = a[i]
        OBVIOUS
    <3>2. placed[i] = IF i \in M THEN second.way[Earlier(M, i) + 1] ELSE rest[i - Earlier(M, i)]
        BY DEF Placing
    <3> HIDE DEF placed
    <3>3. CASE i \in M
      <4> DEFINE k == Earlier(M, i) + 1
      <4>1. k \in 1..H /\ hoisted[f[k]] = a[i]
        BY <1>7, <3>3
      <4>2. placed[i] = second.way[k]
        BY <3>2, <3>3
      <4> HIDE DEF k
      <4>3. QED
        BY <1>9, <4>1, <4>2 DEF Fitted
    <3>4. CASE i \notin M
        BY <1>2, <1>3, <3>2, <3>4
    <3>5. QED
        BY <3>3, <3>4
  <2>2. placed = [i \in DOMAIN rows |-> placed[i]]
    BY DEF Placing
  <2>3. a = [i \in DOMAIN rows |-> a[i]]
    BY <1>3
  <2> HIDE DEF placed
  <2>4. QED
    BY <2>1, <2>2, <2>3
<1>13. ~ \E i \in DOMAIN rows : Score(rows[i], placed[i], types) <= VIOLATION \div 2
  <2>1. \A i \in DOMAIN rows : rows[i] \in RowOf(props) /\ a[i] \in props
    BY <1>3
  <2>2. \A i \in DOMAIN rows : Score(rows[i], a[i], types) \in Int
    BY <2>1, ScoreFacts
  <2> HIDE DEF placed, VIOLATION
  <2>3. QED
    BY <1>2, <1>3, <1>10, <1>12, <2>2
<1>14. AlignRows(rows, rest, hoisted, types) = placed
  <2>1. AlignRows(rows, rest, hoisted, types)
          = IF \/ first.ways # 1 \/ Impossible(first)
               \/ second.ways # 1 \/ Impossible(second)
               \/ \E i \in DOMAIN rows : Score(rows[i], placed[i], types) <= VIOLATION \div 2
            THEN Refused ELSE placed
    <3>1. first.way = M
        BY <1>5
    <3>2. QED
        BY <3>1, AlignRowsIs DEF first, second
  <2> HIDE DEF placed, VIOLATION
  <2>2. QED
    BY <1>5, <1>9, <1>11, <1>13, <2>1
<1>15. a # Refused
  <2>1. 1 \in DOMAIN a
    BY <1>2, <1>3
  <2>2. QED
    BY <2>1 DEF Refused
<1>16. QED
    BY <1>12, <1>14, <1>15

-----------------------------------------------------------------------------
(* Columns and the positions they are declared at: c are the columns of    *)
(* the rows, d those of the properties, 0 for a property that is none.     *)
Columns(c, d, n, L) ==
    /\ n \in Nat \ {0} /\ L \in Nat /\ c \in [1..n -> Nat \ {0}] /\ d \in [1..L -> Nat]
    /\ \A i, j \in 1..n : i < j => c[i] < c[j]
    /\ \A i \in 1..n : \E q \in 1..L : d[q] = c[i]
    /\ \A q \in 1..L : d[q] # 0 => \E i \in 1..n : c[i] = d[q]
    /\ \A q, r \in 1..L : q < r /\ d[r] # 0 => d[q] # 0 /\ d[q] # d[r]
Permutes(o, n) ==
    /\ o \in [1..n -> 1..n] /\ \A i, j \in 1..n : o[i] = o[j] => i = j
    /\ \A q \in 1..n : \E i \in 1..n : o[i] = q

LEMMA OwnPlaces ==
    ASSUME NEW c, NEW d, NEW n, NEW L, Columns(c, d, n, L)
    PROVE  n <= L /\ \E o : Permutes(o, n) /\ \A i \in 1..n : d[o[i]] = c[i]
<1> DEFINE at(i) == CHOOSE q \in 1..L : d[q] = c[i]
           o == [i \in 1..n |-> at(i)]
           back(q) == CHOOSE i \in 1..n : c[i] = d[q]
           b == [q \in 1..n + 1 |-> back(q)]
<1>1. /\ n \in Nat /\ n # 0 /\ L \in Nat
      /\ \A i \in 1..n : c[i] \in Nat /\ c[i] # 0
      /\ \A q \in 1..L : d[q] \in Nat
    BY DEF Columns
<1>2. /\ \A i, j \in 1..n : i < j => c[i] < c[j]
      /\ \A i \in 1..n : \E q \in 1..L : d[q] = c[i]
      /\ \A q \in 1..L : d[q] # 0 => \E i \in 1..n : c[i] = d[q]
      /\ \A q, r \in 1..L : q < r /\ d[r] # 0 => d[q] # 0 /\ d[q] # d[r]
    BY DEF Columns
<1>3. \A i, j \in 1..n : c[i] = c[j] => i = j
  <2>1. SUFFICES ASSUME NEW i \in 1..n, NEW j \in 1..n, i < j PROVE c[i] # c[j]
    BY <1>1
  <2>2. QED
    BY <1>1, <1>2, <2>1
<1>4. \A i \in 1..n : at(i) \in 1..L /\ d[at(i)] = c[i]
    BY <1>2
<1>5. o = [i \in 1..n |-> at(i)] /\ \A i \in 1..n : o[i] = at(i)
  <2> HIDE DEF at
  <2> QED
    OBVIOUS
<1> HIDE DEF at, o
<1>6. ASSUME NEW i \in 1..n PROVE o[i] \in 1..n
  <2>1. SUFFICES ASSUME o[i] > n PROVE FALSE
    BY <1>1, <1>4, <1>5
  <2>2. o[i] \in 1..L /\ d[o[i]] # 0
    BY <1>1, <1>4, <1>5
  <2>3. ASSUME NEW q \in 1..n + 1 PROVE q \in 1..L /\ d[q] # 0
    <3>1. q \in 1..L /\ (q < o[i] \/ q = o[i])
        BY <1>1, <2>1, <2>2
    <3>2. QED
        BY <1>2, <2>2, <3>1
  <2>4. \A q \in 1..n + 1 : back(q) \in 1..n /\ c[back(q)] = d[q]
    <3>1. SUFFICES ASSUME NEW q \in 1..n + 1 PROVE back(q) \in 1..n /\ c[back(q)] = d[q]
        OBVIOUS
    <3>2. \E j \in 1..n : c[j] = d[q]
        BY <1>2, <2>3
    <3>3. QED
        BY <3>2
  <2>5. b \in [1..n + 1 -> 1..n] /\ \A q \in 1..n + 1 : b[q] = back(q)
    <3> HIDE DEF back
    <3> QED
        BY <2>4
  <2> HIDE DEF back, b
  <2>6. PICK q \in 1..n + 1, r \in 1..n + 1 : q # r /\ b[q] = b[r]
    <3>1. /\ IsFiniteSet(1..n + 1) /\ Cardinality(1..n + 1) = n + 1
          /\ IsFiniteSet(1..n) /\ Cardinality(1..n) = n /\ n < n + 1
        BY <1>1, CountTo
    <3> DEFINE S == 1..n + 1
               T == 1..n
    <3> HIDE DEF S, T
    <3>2. IsFiniteSet(S) /\ IsFiniteSet(T) /\ Cardinality(T) < Cardinality(S)
        BY <1>1, <3>1 DEF S, T
    <3>3. b \in [S -> T]
        BY <2>5 DEF S, T
    <3>4. \E q, r \in S : q # r /\ b[q] = b[r]
        BY <3>2, <3>3, FS_PigeonHole
    <3>5. QED
        BY <3>4 DEF S
  <2>7. d[q] = d[r]
    BY <2>4, <2>5, <2>6
  <2>8. q \in 1..L /\ r \in 1..L /\ d[q] # 0 /\ d[r] # 0 /\ (q < r \/ r < q)
    BY <2>3, <2>6
  <2>9. QED
    BY <1>2, <2>7, <2>8
<1>7. \A i, j \in 1..n : o[i] = o[j] => i = j
    BY <1>3, <1>4, <1>5
<1>8. o \in [1..n -> 1..n]
  <2>1. o = [i \in 1..n |-> o[i]]
    BY <1>5
  <2>2. QED
    BY <1>6, <2>1
<1>9. \A q \in 1..n : \E i \in 1..n : o[i] = q
    BY <1>1, <1>7, <1>8, OntoItself
<1>10. \A i \in 1..n : d[o[i]] = c[i]
    BY <1>4, <1>5
<1>11. n <= L
  <2>1. n \in 1..n
    BY <1>1
  <2>2. PICK i \in 1..n : o[i] = n
    BY <1>9, <2>1
  <2>3. QED
    BY <1>1, <1>4, <1>5, <2>2
<1>12. QED
    BY <1>7, <1>8, <1>9, <1>10, <1>11 DEF Permutes

Distinct(g, S, T) == g \in [S -> T] /\ \A x, y \in S : g[x] = g[y] => x = y

LEMMA SameSize ==
    ASSUME NEW S, IsFiniteSet(S), NEW T, IsFiniteSet(T),
           NEW g, Distinct(g, S, T), NEW h, Distinct(h, T, S)
    PROVE  Cardinality(S) = Cardinality(T)
<1>1. Cardinality(S) \in Nat /\ Cardinality(T) \in Nat
    BY FS_CardinalityType
<1>2. ~ (Cardinality(T) < Cardinality(S))
    BY FS_PigeonHole DEF Distinct
<1>3. ~ (Cardinality(S) < Cardinality(T))
    BY FS_PigeonHole DEF Distinct
<1>4. QED
    BY <1>1, <1>2, <1>3

(* Where rows that are not hoisted are in the order of their properties,   *)
(* every one of them takes its own.                                        *)
OwnRows(o, n, H) == {i \in 1..n : o[i] <= H}
RestAscends(o, n, H) == \A i, j \in 1..n : H < o[i] /\ o[i] < o[j] => i < j
RestFollows(o, n, H, M) ==
    /\ Cardinality(M) = H
    /\ \A i \in (1..n) \ M : o[i] = H + (i - Earlier(M, i)) /\ i - Earlier(M, i) \in 1..n - H

LEMMA RestInOrder ==
    ASSUME NEW n \in Nat, NEW H \in Nat, H <= n, NEW o, Permutes(o, n), RestAscends(o, n, H)
    PROVE  RestFollows(o, n, H, OwnRows(o, n, H))
<1> DEFINE M == OwnRows(o, n, H)
           at(q) == CHOOSE i \in 1..n : o[i] = q
           u == [i \in M |-> o[i]]
           v == [q \in 1..H |-> at(q)]
           w == [r \in 1..n - H |-> at(H + r) - Earlier(M, at(H + r))]
<1>1. M \in SUBSET (1..n) /\ \A i \in 1..n : i \in M <=> o[i] <= H
    BY DEF OwnRows
<1> HIDE DEF M
<1>2. \A q \in 1..n : at(q) \in 1..n /\ o[at(q)] = q
    BY DEF Permutes
<1> HIDE DEF at
<1>3. \A i \in 1..n : o[i] \in 1..n /\ at(o[i]) = i
    BY <1>2 DEF Permutes
<1>4. Cardinality(M) = H
  <2>1. IsFiniteSet(1..H) /\ Cardinality(1..H) = H /\ IsFiniteSet(1..n)
    BY CountTo
  <2>2. IsFiniteSet(M)
    BY <1>1, <2>1, FS_Subset
  <2>3. \A i \in M : i \in 1..n /\ o[i] \in 1..H
    BY <1>1, <1>3
  <2>4. u \in [M -> 1..H] /\ \A i, j \in M : u[i] = u[j] => i = j
    BY <1>3, <2>3
  <2>5. \A q \in 1..H : q \in 1..n /\ at(q) \in M
    BY <1>1, <1>2
  <2>6. v \in [1..H -> M] /\ \A q \in 1..H : v[q] = at(q)
    BY <2>5
  <2> HIDE DEF u, v
  <2>7. \A q, r \in 1..H : v[q] = v[r] => q = r
    <3>1. \A q \in 1..H : o[v[q]] = q
        BY <1>2, <2>5, <2>6
    <3>2. QED
        BY <3>1
  <2>8. Cardinality(M) = Cardinality(1..H)
    <3>1. Distinct(u, M, 1..H) /\ Distinct(v, 1..H, M)
        BY <2>4, <2>6, <2>7 DEF Distinct
    <3>2. QED
        BY <2>1, <2>2, <3>1, SameSize
  <2>9. QED
    BY <2>1, <2>8
<1>5. \A r \in 1..n - H : H + r \in 1..n /\ at(H + r) \in (1..n) \ M
  <2>1. SUFFICES ASSUME NEW r \in 1..n - H PROVE H + r \in 1..n /\ at(H + r) \in (1..n) \ M
    OBVIOUS
  <2>2. H + r \in 1..n /\ ~ (H + r <= H)
    OBVIOUS
  <2>3. QED
    BY <1>1, <1>2, <2>2
<1>6. /\ \A i \in (1..n) \ M : i - Earlier(M, i) \in 1..n - H
      /\ \A i, j \in (1..n) \ M : i < j => i - Earlier(M, i) < j - Earlier(M, j)
    BY <1>1, <1>4, PlacesLeft
<1>7. w \in [1..n - H -> 1..n - H] /\ \A r \in 1..n - H : w[r] = at(H + r) - Earlier(M, at(H + r))
    BY <1>5, <1>6
<1> HIDE DEF w
<1>8. \A r, s \in 1..n - H : r < s => w[r] < w[s]
  <2>1. SUFFICES ASSUME NEW r \in 1..n - H, NEW s \in 1..n - H, r < s PROVE w[r] < w[s]
    OBVIOUS
  <2>2. H < H + r /\ H + r < H + s
    BY <2>1
  <2> DEFINE i == at(H + r)
             j == at(H + s)
  <2>3. i \in (1..n) \ M /\ j \in (1..n) \ M /\ o[i] = H + r /\ o[j] = H + s
    BY <1>2, <1>5
  <2>4. w[r] = i - Earlier(M, i) /\ w[s] = j - Earlier(M, j)
    BY <1>7
  <2> HIDE DEF i, j
  <2>5. i < j
    BY <2>2, <2>3 DEF RestAscends
  <2>6. QED
    BY <1>6, <2>3, <2>4, <2>5
<1>9. \A r \in 1..n - H : w[r] = r
  <2>1. n - H \in Nat
    OBVIOUS
  <2>2. QED
    BY <1>7, <1>8, <2>1, IncreasingIsIdentity
<1>10. ASSUME NEW i \in (1..n) \ M PROVE o[i] = H + (i - Earlier(M, i))
  <2> DEFINE r == o[i] - H
  <2>1. o[i] \in 1..n /\ ~ (o[i] <= H)
    BY <1>1, <1>3
  <2>2. r \in 1..n - H /\ H + r = o[i]
    BY <2>1
  <2> HIDE DEF r
  <2>3. at(H + r) = i
    BY <1>3, <2>2
  <2>4. r = i - Earlier(M, i)
    BY <1>7, <1>9, <2>2, <2>3
  <2>5. QED
    BY <2>2, <2>4
<1>11. QED
    BY <1>4, <1>6, <1>10 DEF RestFollows, M

(* The columns of the rows in grid order, and those of the properties.     *)
RowColumns(f) ==
    [i \in 1..Len(GridOrdered(f.rows)) |-> GridOrdered(f.rows)[i].column]
OwnColumns(f) == [q \in 1..Len(f.order) |-> f.owner[f.order[q]]]

(* What two rows of a whole feed have in common.                           *)
Agree(a, b, same) ==
    /\ a.column = b.column => a = b /\ (same \/ a.line # Unnumbered)
    /\ a.line = b.line => a.column = b.column \/ a.line = Unnumbered
    /\ a.column < b.column => a.sort < b.sort \/ (a.sort = b.sort /\ a.line < b.line)

LEMMA WholeRows ==
    ASSUME NEW f, FeedType(f), Whole(f)
    PROVE  LET N == Len(f.rows)
           IN  /\ N \in Nat /\ DOMAIN f.rows = 1..N
               /\ \A k \in 1..N :
                     /\ f.rows[k].column \in Nat /\ f.rows[k].column # 0
                     /\ f.rows[k].line \in Int /\ f.rows[k].sort \in Int
                     /\ SortOrder(f.rows[k]) = f.rows[k].sort
                     /\ Flagged(f.rows[k])
                     /\ Active(f.rows[k]) <=> \E p \in ToSet(f.order) : f.owner[p] = f.rows[k].column
               /\ \A p \in ToSet(f.order) : f.owner[p] # 0 =>
                     \E k \in 1..N : f.rows[k].column = f.owner[p]
               /\ \A j, k \in 1..N : Agree(f.rows[j], f.rows[k], j = k)
<1> DEFINE N == Len(f.rows)
<1>1. f.rows \in Seq(RowOf(DOMAIN f.types)) /\ DOMAIN f.owner = ToSet(f.order)
    BY DEF FeedType
<1>2. N \in Nat /\ DOMAIN f.rows = 1..N /\ \A k \in 1..N : f.rows[k] \in RowOf(DOMAIN f.types)
    BY <1>1
<1>3. \A row \in RowOf(DOMAIN f.types) : /\ row.column \in Nat /\ row.column # 0
                                         /\ row.line \in Int /\ row.sort \in Int
    BY FeedAssumption DEF RowOf
<1>4. /\ \A k \in 1..N :
            /\ f.rows[k].sort # Unnumbered /\ Flagged(f.rows[k])
            /\ Active(f.rows[k]) <=> \E p \in ToSet(f.order) : f.owner[p] = f.rows[k].column
      /\ \A p \in ToSet(f.order) : f.owner[p] # 0 => \E k \in 1..N : f.rows[k].column = f.owner[p]
  <2> HIDE DEF N
  <2>1. /\ \A k \in DOMAIN f.rows :
              /\ f.rows[k].sort # Unnumbered /\ Flagged(f.rows[k])
              /\ Active(f.rows[k]) <=> \E p \in DOMAIN f.owner : f.owner[p] = f.rows[k].column
        /\ \A p \in DOMAIN f.owner : f.owner[p] # 0 =>
              \E k \in DOMAIN f.rows : f.rows[k].column = f.owner[p]
    BY Zenon DEF Whole
  <2>2. QED
    BY <1>1, <1>2, <2>1, Zenon
<1>5. ASSUME NEW j \in 1..N, NEW k \in 1..N PROVE Agree(f.rows[j], f.rows[k], j = k)
  <2> HIDE DEF N
  <2>1. \A i, l \in DOMAIN f.rows :
          LET a == f.rows[i]
              b == f.rows[l]
          IN  /\ a.column = b.column => a = b /\ (i # l => a.line # Unnumbered)
              /\ a.line = b.line => a.column = b.column \/ a.line = Unnumbered
              /\ a.column < b.column => a.sort < b.sort \/ (a.sort = b.sort /\ a.line < b.line)
    BY Zenon DEF Whole
  <2> DEFINE a == f.rows[j]
             b == f.rows[k]
  <2>2. /\ a.column = b.column => a = b /\ (j # k => a.line # Unnumbered)
        /\ a.line = b.line => a.column = b.column \/ a.line = Unnumbered
        /\ a.column < b.column => a.sort < b.sort \/ (a.sort = b.sort /\ a.line < b.line)
    BY <1>2, <1>5, <2>1
  <2> HIDE DEF a, b
  <2>3. Agree(a, b, j = k)
    BY <2>2 DEF Agree
  <2>4. QED
    BY <2>3 DEF a, b
<1>6. \A k \in 1..N : SortOrder(f.rows[k]) = f.rows[k].sort
    BY <1>4 DEF SortOrder
<1> HIDE DEF N
<1>7. QED
    BY <1>2, <1>3, <1>4, <1>5, <1>6 DEF N

(* The last row with a number is kept, and says the same as the others.    *)
LEMMA KeptFor ==
    ASSUME NEW f, FeedType(f), Whole(f), NEW k \in DOMAIN f.rows, Active(f.rows[k])
    PROVE  \E l \in Kept(f.rows) : f.rows[l].column = f.rows[k].column
<1> DEFINE N == Len(f.rows)
<1>1. /\ N \in Nat /\ DOMAIN f.rows = 1..N
      /\ \A i, j \in 1..N : Agree(f.rows[i], f.rows[j], i = j)
    BY WholeRows
<1> HIDE DEF N
<1>2. CASE f.rows[k].line = Unnumbered
    BY <1>2 DEF Kept
<1>3. CASE f.rows[k].line # Unnumbered
  <2> DEFINE T == {m \in Nat : m < N /\ f.rows[N - m].line = f.rows[k].line}
  <2>1. N - k \in T
    <3>1. N - k \in Nat /\ N - k < N /\ N - (N - k) = k
        BY <1>1
    <3>2. QED
        BY <3>1
  <2>2. PICK m \in T : m \in Nat /\ \A i \in Nat : i < m => i \notin T
    <3>1. T \in SUBSET Nat /\ T # {}
        BY <2>1
    <3> HIDE DEF T
    <3>2. QED
        BY <3>1, FirstOf
  <2> DEFINE l == N - m
  <2>3. l \in 1..N /\ f.rows[l].line = f.rows[k].line
    BY <1>1, <2>2
  <2>4. \A j \in 1..N : j > l => f.rows[j].line # f.rows[k].line
    <3>1. SUFFICES ASSUME NEW j \in 1..N, j > l, f.rows[j].line = f.rows[k].line PROVE FALSE
        OBVIOUS
    <3>2. N - j \in Nat /\ N - j < m /\ N - j < N /\ N - (N - j) = j
        BY <1>1, <2>2, <3>1
    <3>3. N - j \in T
        BY <3>1, <3>2
    <3> HIDE DEF T
    <3>4. QED
        BY <2>2, <3>2, <3>3
  <2> HIDE DEF l, T
  <2>5. f.rows[l] = f.rows[k]
    BY <1>1, <1>3, <2>3 DEF Agree
  <2>6. l \in Kept(f.rows)
    BY <1>1, <2>3, <2>4, <2>5 DEF Kept
  <2>7. QED
    BY <2>5, <2>6
<1>4. QED
    BY <1>2, <1>3

LEMMA WholeColumns ==
    ASSUME NEW f, FeedType(f), LaidOut(f), Whole(f), GridOrdered(f.rows) # << >>
    PROVE  LET grid == GridOrdered(f.rows)
               n == Len(grid)
           IN  /\ Columns(RowColumns(f), OwnColumns(f), n, Len(f.order))
               /\ grid \in Seq(RowOf(DOMAIN f.types)) /\ DOMAIN grid = 1..n
               /\ 100 * n + (VIOLATION \div 2) < 0
               /\ \A i \in 1..n : \E k \in DOMAIN f.rows : grid[i] = f.rows[k]
<1> DEFINE grid == GridOrdered(f.rows)
           n == Len(grid)
           L == Len(f.order)
           N == Len(f.rows)
           K == Kept(f.rows)
           c == RowColumns(f)
           d == OwnColumns(f)
<1>1. /\ N \in Nat /\ DOMAIN f.rows = 1..N
      /\ \A k \in 1..N :
            /\ f.rows[k].column \in Nat /\ f.rows[k].column # 0
            /\ f.rows[k].line \in Int /\ f.rows[k].sort \in Int
            /\ SortOrder(f.rows[k]) = f.rows[k].sort
            /\ Active(f.rows[k]) <=> \E p \in ToSet(f.order) : f.owner[p] = f.rows[k].column
      /\ \A p \in ToSet(f.order) : f.owner[p] # 0 => \E k \in 1..N : f.rows[k].column = f.owner[p]
      /\ \A j, k \in 1..N : Agree(f.rows[j], f.rows[k], j = k)
    BY WholeRows
<1>2. /\ f.rows \in Seq(RowOf(DOMAIN f.types)) /\ f.order \in Seq(DOMAIN f.types)
      /\ f.owner \in [ToSet(f.order) -> Nat]
    BY DEF FeedType
<1>3. /\ grid \in Seq(RowOf(DOMAIN f.types)) /\ n <= N
      /\ \A k \in K : Place(f.rows, k) \in DOMAIN grid /\ grid[Place(f.rows, k)] = f.rows[k]
      /\ \A i \in DOMAIN grid : \E k \in K : Place(f.rows, k) = i /\ grid[i] = f.rows[k]
      /\ \A j, k \in K : Before(f.rows, j, k) <=> Place(f.rows, j) < Place(f.rows, k)
    BY <1>2, GridIs
<1> HIDE DEF grid, N
<1>4. n \in Nat /\ n # 0 /\ DOMAIN grid = 1..n
    BY <1>3 DEF grid
<1>5. /\ L \in Nat /\ DOMAIN f.order = 1..L
      /\ \A p : p \in ToSet(f.order) <=> \E q \in 1..L : p = f.order[q]
  <2>1. L \in Nat /\ DOMAIN f.order = 1..L
    BY <1>2
  <2> HIDE DEF L
  <2>2. QED
    BY <2>1 DEF ToSet
<1>6. K \subseteq 1..N /\ \A k \in K : Active(f.rows[k])
    BY <1>1 DEF Kept
<1>7. \A i, j \in K : i # j /\ f.rows[i].line # Unnumbered => f.rows[i].line # f.rows[j].line
  <2>1. SUFFICES ASSUME NEW i \in K, NEW j \in K, i # j,
                        f.rows[i].line # Unnumbered, f.rows[i].line = f.rows[j].line
                 PROVE  FALSE
    OBVIOUS
  <2>2. i \in 1..N /\ j \in 1..N /\ (i < j \/ j < i)
    BY <1>1, <1>6, <2>1
  <2>3. QED
    BY <1>1, <2>1, <2>2 DEF Kept
<1>8. 100 * n + (VIOLATION \div 2) < 0
  <2>1. 100 * N + (VIOLATION \div 2) < 0
    BY DEF Whole, N
  <2>2. QED
    BY <1>1, <1>3, <1>4, <2>1, Halfway, SMT
<1>9. c = [i \in 1..n |-> grid[i].column] /\ d = [q \in 1..L |-> f.owner[f.order[q]]]
    BY DEF RowColumns, OwnColumns, grid
<1> HIDE DEF c, d, n, L
<1>10. /\ \A i \in 1..n : c[i] = grid[i].column
       /\ \A q \in 1..L : d[q] = f.owner[f.order[q]]
    BY <1>9
<1>11. c \in [1..n -> Nat \ {0}] /\ d \in [1..L -> Nat]
  <2>1. \A i \in 1..n : grid[i].column \in Nat \ {0}
    <3>1. SUFFICES ASSUME NEW i \in 1..n PROVE grid[i].column \in Nat /\ grid[i].column # 0
        OBVIOUS
    <3>2. PICK k \in K : grid[i] = f.rows[k]
        BY <1>3, <1>4
    <3>3. k \in 1..N
        BY <1>6
    <3>4. QED
        BY <1>1, <3>2, <3>3
  <2>2. \A q \in 1..L : f.owner[f.order[q]] \in Nat
    BY <1>2, <1>5
  <2>3. QED
    BY <1>9, <2>1, <2>2
<1>12. ASSUME NEW i \in 1..n, NEW j \in 1..n, i < j PROVE c[i] < c[j]
  <2>1. PICK k \in K : Place(f.rows, k) = i /\ grid[i] = f.rows[k]
    BY <1>3, <1>4
  <2>2. PICK l \in K : Place(f.rows, l) = j /\ grid[j] = f.rows[l]
    BY <1>3, <1>4
  <2>3. k \in 1..N /\ l \in 1..N /\ k # l
    BY <1>6, <1>12, <2>1, <2>2
  <2> DEFINE a == f.rows[k]
             b == f.rows[l]
  <2>4. Agree(b, a, l = k) /\ Agree(a, b, k = l)
    BY <1>1, <2>3
  <2>5. /\ a.column \in Nat /\ b.column \in Nat /\ a.line \in Int /\ b.line \in Int
        /\ a.sort \in Int /\ b.sort \in Int /\ SortOrder(a) = a.sort /\ SortOrder(b) = b.sort
    BY <1>1, <2>3
  <2>6. a.line # Unnumbered => a.line # b.line
    BY <1>7, <2>3
  <2>7. ~ Before(f.rows, l, k)
    <3>1. ~ (j < i)
        BY <1>12
    <3>2. QED
        BY <1>3, <2>1, <2>2, <3>1
  <2>8. ~ (b.sort < a.sort \/ (b.sort = a.sort /\ b.line < a.line))
    BY <2>5, <2>7 DEF Before
  <2>9. c[i] = a.column /\ c[j] = b.column
    BY <1>10, <2>1, <2>2
  <2> HIDE DEF a, b
  <2>10. a.column # b.column
    BY <2>3, <2>4, <2>6 DEF Agree
  <2>11. ~ (b.column < a.column)
    BY <2>4, <2>8 DEF Agree
  <2>12. QED
    BY <2>5, <2>9, <2>10, <2>11
<1>13. ASSUME NEW i \in 1..n PROVE \E q \in 1..L : d[q] = c[i]
  <2>1. PICK k \in K : grid[i] = f.rows[k]
    BY <1>3, <1>4
  <2>2. PICK p \in ToSet(f.order) : f.owner[p] = f.rows[k].column
    BY <1>1, <1>6, <2>1
  <2>3. QED
    BY <1>5, <1>10, <2>1, <2>2
<1>14. ASSUME NEW q \in 1..L, d[q] # 0 PROVE \E i \in 1..n : c[i] = d[q]
  <2>1. f.order[q] \in ToSet(f.order) /\ f.owner[f.order[q]] # 0
    BY <1>5, <1>10, <1>14
  <2>2. PICK k \in 1..N : f.rows[k].column = f.owner[f.order[q]]
    BY <1>1, <2>1
  <2>3. k \in DOMAIN f.rows /\ Active(f.rows[k])
    BY <1>1, <2>1, <2>2
  <2>4. PICK l \in K : f.rows[l].column = f.rows[k].column
    BY <2>3, KeptFor
  <2>5. Place(f.rows, l) \in 1..n /\ grid[Place(f.rows, l)] = f.rows[l]
    BY <1>3, <1>4, <2>4
  <2>6. c[Place(f.rows, l)] = d[q]
    BY <1>10, <2>2, <2>4, <2>5
  <2>7. QED
    BY <2>5, <2>6
<1>15. ASSUME NEW q \in 1..L, NEW r \in 1..L, q < r, d[r] # 0 PROVE d[q] # 0 /\ d[q] # d[r]
    BY <1>5, <1>10, <1>15 DEF LaidOut
<1>16. Columns(c, d, n, L)
    BY <1>4, <1>5, <1>11, <1>12, <1>13, <1>14, <1>15 DEF Columns, L
<1>17. \A i \in 1..n : \E k \in DOMAIN f.rows : grid[i] = f.rows[k]
    BY <1>1, <1>3, <1>4, <1>6
<1>18. QED
    BY <1>3, <1>4, <1>8, <1>16, <1>17 DEF c, d, n, L, grid

(* A whole feed with captioned keys is aligned as it was laid out.         *)
LEMMA OwnOrder ==
    ASSUME NEW f, FeedType(f), LaidOut(f), NEW n, Columns(RowColumns(f), OwnColumns(f), n, Len(f.order)),
           n = Len(GridOrdered(f.rows)), n <= Len(f.order),
           NEW o, Permutes(o, n), \A i \in 1..n : OwnColumns(f)[o[i]] = RowColumns(f)[i]
    PROVE  RestFollows(o, n, Len(Lead(f)), OwnRows(o, n, Len(Lead(f))))
<1> DEFINE H == Len(Lead(f))
           M == OwnRows(o, n, H)
           c == RowColumns(f)
           d == OwnColumns(f)
           L == Len(f.order)
<1>1. /\ n \in Nat /\ H \in Nat /\ H <= n
      /\ \A i \in 1..n : Heads(f)[i] = f.order[i] /\ i \in DOMAIN f.order
      /\ H < n => Heads(f)[H + 1] \notin f.keys
    BY HeadIsSplit
<1>2. /\ L \in Nat /\ \A i, j \in 1..n : i < j => c[i] < c[j]
      /\ \A i \in 1..n : c[i] \in Nat /\ c[i] # 0
    BY DEF Columns
<1>3. DOMAIN f.order = 1..L /\ \A q \in 1..L : d[q] = f.owner[f.order[q]]
  <2>1. f.order \in Seq(DOMAIN f.types)
    BY DEF FeedType
  <2>2. QED
    BY <2>1 DEF OwnColumns
<1>4. \A i \in 1..n : o[i] \in 1..n /\ d[o[i]] = c[i]
    BY DEF Permutes
<1>5. \A q \in 1..n : \E i \in 1..n : o[i] = q
    BY DEF Permutes
<1> HIDE DEF c, d, H, L
<1>6. \A q \in 1..n : d[q] \in Nat /\ d[q] # 0
  <2>1. SUFFICES ASSUME NEW q \in 1..n PROVE d[q] \in Nat /\ d[q] # 0
    OBVIOUS
  <2>2. PICK i \in 1..n : o[i] = q
    BY <1>5
  <2>3. QED
    BY <1>2, <1>4, <2>2
<1>7. \A q, r \in 1..n : q < r /\ f.order[q] \notin f.keys => f.order[r] \notin f.keys /\ d[q] < d[r]
  <2>1. SUFFICES ASSUME NEW q \in 1..n, NEW r \in 1..n, q < r, f.order[q] \notin f.keys
                 PROVE  f.order[r] \notin f.keys /\ d[q] < d[r]
    OBVIOUS
  <2>2. q \in DOMAIN f.order /\ r \in DOMAIN f.order
    BY <1>1
  <2>3. d[q] = f.owner[f.order[q]] /\ d[r] = f.owner[f.order[r]] /\ f.owner[f.order[r]] # 0
    BY <1>3, <1>6, <2>2
  <2>4. QED
    BY <2>1, <2>2, <2>3 DEF LaidOut
<1>8. \A q \in 1..n : H < q => f.order[q] \notin f.keys
  <2>1. SUFFICES ASSUME NEW q \in 1..n, H < q PROVE f.order[q] \notin f.keys
    OBVIOUS
  <2>2. H + 1 \in 1..n /\ (H + 1 < q \/ q = H + 1)
    BY <1>1, <2>1
  <2>3. f.order[H + 1] \notin f.keys
    BY <1>1, <2>1, <2>2
  <2>4. QED
    BY <1>7, <2>2, <2>3
<1>9. \A i, j \in 1..n : H < o[i] /\ o[i] < o[j] => i < j
  <2>1. SUFFICES ASSUME NEW i \in 1..n, NEW j \in 1..n, H < o[i], o[i] < o[j] PROVE i < j
    OBVIOUS
  <2>2. f.order[o[i]] \notin f.keys
    BY <1>4, <1>8, <2>1
  <2>3. d[o[i]] < d[o[j]]
    BY <1>4, <1>7, <2>1, <2>2
  <2>4. c[i] < c[j] /\ c[i] \in Nat /\ c[j] \in Nat
    BY <1>2, <1>4, <2>3
  <2>5. i = j \/ j < i \/ i < j
    BY <1>1
  <2>6. QED
    BY <1>2, <2>4, <2>5
<1>10. RestFollows(o, n, H, M)
  <2>1. RestAscends(o, n, H)
    BY <1>9 DEF RestAscends
  <2>2. QED
    BY <1>1, <2>1, RestInOrder
<1>11. QED
    BY <1>10 DEF H

LEMMA OwnPlacing ==
    ASSUME NEW f, FeedType(f), LaidOut(f), Whole(f), Captioned(f), GridOrdered(f.rows) # << >>,
           NEW n, n = Len(GridOrdered(f.rows)), n <= Len(f.order),
           NEW o, Permutes(o, n), \A i \in 1..n : OwnColumns(f)[o[i]] = RowColumns(f)[i],
           NEW M, M = OwnRows(o, n, Len(Lead(f))),
           NEW a, a = [i \in 1..n |-> f.order[o[i]]]
    PROVE  Owned(GridOrdered(f.rows), Rest(f), Lead(f), DOMAIN f.types, f.types, M, a)
<1> DEFINE grid == GridOrdered(f.rows)
           H == Len(Lead(f))
           props == DOMAIN f.types
           L == Len(f.order)
<1>1. /\ Columns(RowColumns(f), OwnColumns(f), n, L)
      /\ DOMAIN grid = 1..n /\ 100 * n + (VIOLATION \div 2) < 0
      /\ \A i \in 1..n : \E k \in DOMAIN f.rows : grid[i] = f.rows[k]
    BY WholeColumns
<1>2. /\ n \in Nat /\ H \in Nat /\ H <= n /\ Len(Rest(f)) = n - H
      /\ Given(grid, Rest(f), Lead(f), props) /\ Apart(Rest(f), Lead(f))
      /\ \A i \in 1..n : Heads(f)[i] = f.order[i] /\ i \in DOMAIN f.order
      /\ \A i \in 1..H : Lead(f)[i] = Heads(f)[i] /\ Heads(f)[i] \in f.keys
      /\ \A i \in 1..n - H : Rest(f)[i] = Heads(f)[H + i] /\ H + i \in 1..n
    BY HeadIsSplit
<1>3. /\ Cardinality(M) = H
      /\ \A i \in (1..n) \ M : o[i] = H + (i - Earlier(M, i)) /\ i - Earlier(M, i) \in 1..n - H
  <2>1. RestFollows(o, n, H, M)
    BY <1>1, OwnOrder
  <2>2. QED
    BY <2>1 DEF RestFollows
<1>4. \A i \in 1..n : o[i] \in 1..n /\ a[i] = f.order[o[i]]
    BY DEF Permutes
<1>5. /\ f.order \in Seq(props) /\ DOMAIN f.order = 1..L
      /\ \A q, r \in DOMAIN f.order : f.order[q] = f.order[r] => q = r
    BY DEF FeedType, IsInjective
<1>6. \A i \in 1..n : OwnColumns(f)[o[i]] = f.owner[a[i]] /\ RowColumns(f)[i] = grid[i].column
  <2>1. SUFFICES ASSUME NEW i \in 1..n
                 PROVE  OwnColumns(f)[o[i]] = f.owner[a[i]] /\ RowColumns(f)[i] = grid[i].column
    OBVIOUS
  <2>2. o[i] \in 1..L
    BY <1>2, <1>4, <1>5
  <2>3. QED
    BY <1>4, <2>2 DEF OwnColumns, RowColumns
<1> HIDE DEF grid, H, L
<1>7. M \in SUBSET (1..n) /\ \A i \in 1..n : i \in M <=> o[i] <= H
    BY DEF OwnRows, H
<1>8. a \in [DOMAIN grid -> props]
  <2>1. \A i \in 1..n : f.order[o[i]] \in props
    BY <1>2, <1>4, <1>5
  <2>2. QED
    BY <1>1, <2>1
<1>9. \A i, j \in 1..n : a[i] = a[j] => i = j
  <2>1. SUFFICES ASSUME NEW i \in 1..n, NEW j \in 1..n, a[i] = a[j] PROVE i = j
    OBVIOUS
  <2>2. o[i] = o[j]
    BY <1>2, <1>4, <1>5, <2>1
  <2>3. QED
    BY <2>2 DEF Permutes
<1>10. ASSUME NEW i \in (1..n) \ M PROVE a[i] = Rest(f)[i - Earlier(M, i)]
  <2> DEFINE r == i - Earlier(M, i)
  <2>1. o[i] = H + r /\ r \in 1..n - H
    BY <1>3
  <2> HIDE DEF r
  <2>2. Rest(f)[r] = f.order[H + r]
    BY <1>2, <2>1
  <2>3. QED
    BY <1>4, <2>1, <2>2 DEF r
<1>11. ASSUME NEW i \in M PROVE a[i] \in f.keys /\ \E j \in 1..H : a[i] = Lead(f)[j]
  <2>1. i \in 1..n /\ o[i] \in 1..H
    BY <1>2, <1>4, <1>7
  <2>2. a[i] = Lead(f)[o[i]] /\ Lead(f)[o[i]] \in f.keys
    BY <1>2, <1>4, <2>1
  <2>3. QED
    BY <2>1, <2>2
<1>12. ASSUME NEW i \in 1..n
       PROVE  /\ Score(grid[i], a[i], f.types) >= 0
              /\ a[i] \in f.keys => grid[i].captioned /\ grid[i].names = {a[i]}
  <2>1. PICK k \in DOMAIN f.rows : grid[i] = f.rows[k]
    BY <1>1
  <2>2. a[i] \in DOMAIN f.owner
    <3>1. o[i] \in DOMAIN f.order
        BY <1>2, <1>4
    <3>2. QED
        BY <1>4, <3>1 DEF FeedType, ToSet
  <2>3. f.owner[a[i]] = f.rows[k].column
    BY <1>6, <2>1
  <2>4. QED
    BY <2>1, <2>2, <2>3 DEF Captioned
<1>13. Len(grid) = n /\ DOMAIN grid = 1..n /\ Len(Lead(f)) = H
    BY <1>1 DEF grid, H
<1>14. QED
  <2> HIDE DEF VIOLATION, props
  <2>1. \A i \in M : grid[i].captioned /\ grid[i].names = {a[i]}
    BY <1>7, <1>11, <1>12
  <2>2. /\ Given(grid, Rest(f), Lead(f), props) /\ Apart(Rest(f), Lead(f))
        /\ Len(Rest(f)) = Len(grid) - Len(Lead(f)) /\ 100 * Len(grid) + (VIOLATION \div 2) < 0
        /\ M \in SUBSET (1..Len(grid)) /\ Cardinality(M) = Len(Lead(f))
    BY <1>1, <1>2, <1>3, <1>7, <1>13
  <2>3. \A i, j \in 1..Len(grid) : a[i] = a[j] => i = j
    BY <1>9, <1>13
  <2>4. \A i \in (1..Len(grid)) \ M : a[i] = Rest(f)[i - Earlier(M, i)]
    BY <1>10, <1>13
  <2>5. \A i \in M : \E j \in 1..Len(Lead(f)) : a[i] = Lead(f)[j]
    BY <1>11, <1>13
  <2>6. \A i \in 1..Len(grid) : Score(grid[i], a[i], f.types) >= 0
    BY <1>12, <1>13
  <2>7. Owned(grid, Rest(f), Lead(f), props, f.types, M, a)
    BY <1>8, <2>1, <2>2, <2>3, <2>4, <2>5, <2>6, Zenon DEF Owned
  <2>8. QED
    BY <2>7 DEF grid, props

LEMMA OwnAnnotation ==
    ASSUME NEW f, FeedType(f), LaidOut(f), Whole(f), Captioned(f), GridOrdered(f.rows) # << >>
    PROVE  /\ Reached(f) /\ Placed(f) # Refused
           /\ \A p \in ToSet(Heads(f)) : Annotating(f)[p] = f.owner[p]
<1> DEFINE grid == GridOrdered(f.rows)
           n == Len(grid)
           L == Len(f.order)
<1>1. /\ Columns(RowColumns(f), OwnColumns(f), n, L)
      /\ DOMAIN grid = 1..n
      /\ \A i \in 1..n : \E k \in DOMAIN f.rows : grid[i] = f.rows[k]
    BY WholeColumns
<1>2. n \in Nat /\ n # 0 /\ L \in Nat
    BY <1>1 DEF Columns
<1>3. n <= L /\ \E o : Permutes(o, n) /\ \A i \in 1..n : OwnColumns(f)[o[i]] = RowColumns(f)[i]
    BY <1>1, OwnPlaces
<1>4. PICK o : Permutes(o, n) /\ \A i \in 1..n : OwnColumns(f)[o[i]] = RowColumns(f)[i]
    BY <1>3
<1> DEFINE M == OwnRows(o, n, Len(Lead(f)))
           a == [i \in 1..n |-> f.order[o[i]]]
<1>5. Owned(grid, Rest(f), Lead(f), DOMAIN f.types, f.types, M, a)
  <2> HIDE DEF M, a, n
  <2>1. n = Len(GridOrdered(f.rows)) /\ M = OwnRows(o, n, Len(Lead(f)))
        /\ a = [i \in 1..n |-> f.order[o[i]]]
    BY DEF n, M, a
  <2>2. QED
    BY <1>3, <1>4, <2>1, OwnPlacing
<1>6. Placed(f) = a /\ Placed(f) # Refused
  <2>1. AlignRows(grid, Rest(f), Lead(f), f.types) = a /\ a # Refused
    <3>1. Len(grid) # 0
        BY <1>2
    <3> HIDE DEF grid, M, a
    <3>2. QED
        BY <1>5, <3>1, OwnedAligns
  <2>2. QED
    BY <2>1 DEF Placed
<1>7. Reached(f)
  <2>1. f.order # << >>
    BY <1>2, <1>3
  <2>2. \E k \in DOMAIN f.rows : Flagged(f.rows[k])
    <3>1. 1 \in 1..n
        BY <1>2
    <3>2. PICK k \in DOMAIN f.rows : TRUE
        BY <1>1, <3>1
    <3>3. QED
        BY WholeRows DEF Whole
  <2>3. ~ (L < n)
    BY <1>2, <1>3
  <2>4. QED
    BY <2>1, <2>2, <2>3 DEF Reached
<1>8. ASSUME NEW p \in ToSet(Heads(f)) PROVE Annotating(f)[p] = f.owner[p]
  <2>1. Len(Heads(f)) = n /\ \A i \in 1..n : Heads(f)[i] = f.order[i] /\ i \in DOMAIN f.order
    BY <1>3, HeadIsSplit
  <2>2. PICK q \in 1..n : p = f.order[q]
    <3>1. Heads(f) = SubSeq(f.order, 1, n)
        BY DEF Heads
    <3> HIDE DEF n
    <3>2. Heads(f) = [i \in 1..n |-> f.order[i]]
        BY <1>2, <3>1
    <3>3. QED
        BY <3>2 DEF ToSet
  <2>3. PICK i \in 1..n : o[i] = q
    BY <1>4 DEF Permutes
  <2>4. a[i] = p
    BY <2>2, <2>3
  <2>5. Annotating(f)[Placed(f)[i]] = grid[i].column
    BY <1>1, <1>6, <1>7, PlacedAligns
  <2>6. OwnColumns(f)[q] = f.owner[p] /\ RowColumns(f)[i] = grid[i].column
    <3>1. q \in 1..L
        BY <1>2, <1>3
    <3>2. QED
        BY <2>2, <3>1 DEF OwnColumns, RowColumns
  <2>7. QED
    BY <1>4, <1>6, <2>3, <2>4, <2>5, <2>6
<1>9. QED
    BY <1>6, <1>7, <1>8

-----------------------------------------------------------------------------
(* A feed whose fields get as far as the alignment.                        *)
LEMMA ReachedFits ==
    ASSUME NEW f, FeedType(f), Reached(f)
    PROVE  /\ Len(GridOrdered(f.rows)) <= Len(f.order) /\ Len(GridOrdered(f.rows)) # 0
           /\ GridOrdered(f.rows) \in Seq(RowOf(DOMAIN f.types))
<1>1. f.rows \in Seq(RowOf(DOMAIN f.types)) /\ f.order \in Seq(DOMAIN f.types)
    BY DEF FeedType
<1>2. GridOrdered(f.rows) \in Seq(RowOf(DOMAIN f.types))
    BY <1>1, GridIs
<1> DEFINE grid == GridOrdered(f.rows)
<1> HIDE DEF grid
<1>3. Len(grid) \in Nat /\ Len(f.order) \in Nat /\ (grid # << >> => Len(grid) # 0)
    BY <1>1, <1>2 DEF grid
<1>4. QED
    BY <1>2, <1>3 DEF Reached, grid

LEMMA HeadSplits ==
    ASSUME NEW f, FeedType(f), Reached(f)
    PROVE  /\ Split(Heads(f), Rest(f), Lead(f), Len(GridOrdered(f.rows)), DOMAIN f.types)
           /\ Given(GridOrdered(f.rows), Rest(f), Lead(f), DOMAIN f.types)
           /\ Len(Rest(f)) = Len(GridOrdered(f.rows)) - Len(Lead(f)) /\ Len(Lead(f)) \in Nat
<1> DEFINE grid == GridOrdered(f.rows)
           n == Len(grid)
           H == Len(Lead(f))
           props == DOMAIN f.types
<1>1. n <= Len(f.order)
    BY ReachedFits
<1>2. /\ n \in Nat /\ H \in Nat /\ H <= n /\ Len(Rest(f)) = n - H /\ Len(Heads(f)) = n
      /\ Given(grid, Rest(f), Lead(f), props) /\ IsInjective(Heads(f))
      /\ \A i \in 1..H : Lead(f)[i] = Heads(f)[i]
      /\ \A i \in 1..n - H : Rest(f)[i] = Heads(f)[H + i]
    BY <1>1, HeadIsSplit
<1>3. Heads(f) \in Seq(props)
  <2>1. f.order \in Seq(props)
    BY DEF FeedType
  <2>2. Heads(f) = SubSeq(f.order, 1, n)
    BY DEF Heads
  <2> HIDE DEF n
  <2>3. \A i \in 1..n : i \in 1..Len(f.order)
    BY <1>1, <1>2, <2>1 DEF n
  <2>4. Heads(f) = [i \in 1..n |-> f.order[i]] /\ \A i \in 1..n : f.order[i] \in props
    BY <1>2, <2>1, <2>2, <2>3
  <2>5. QED
    BY <1>2, <2>4
<1> HIDE DEF grid, n, H
<1>4. Split(Heads(f), Rest(f), Lead(f), n, props)
    BY <1>2, <1>3 DEF Split, Given, H
<1>5. QED
    BY <1>2, <1>4 DEF grid, n, H

LEMMA FeedAligned ==
    ASSUME NEW f, FeedType(f), Reached(f), Len(Lead(f)) <= 1,
           NEW best, best = BestOf(GridOrdered(f.rows),
                                   Alignments(GridOrdered(f.rows), Heads(f), Lead(f)), f.types)
    PROVE  Placed(f) # Refused <=>
              Cardinality(best) = 1 /\ \A a \in best : ~ Breaking(GridOrdered(f.rows), a, f.types)
<1> DEFINE grid == GridOrdered(f.rows)
           props == DOMAIN f.types
<1>1. /\ Split(Heads(f), Rest(f), Lead(f), Len(grid), props)
      /\ Given(grid, Rest(f), Lead(f), props)
      /\ Len(Rest(f)) = Len(grid) - Len(Lead(f)) /\ Len(Lead(f)) \in Nat /\ Len(grid) # 0
    BY HeadSplits, ReachedFits
<1> HIDE DEF grid, props
<1>2. best = BestOf(grid, Alignments(grid, Heads(f), Lead(f)), f.types)
    BY DEF grid
<1>3. AlignRows(grid, Rest(f), Lead(f), f.types) # Refused <=>
         Cardinality(best) = 1 /\ \A a \in best : ~ Breaking(grid, a, f.types)
  <2>1. CASE Len(Lead(f)) = 1
    <3>1. Single(grid, Rest(f), Lead(f), props)
        BY <1>1, <2>1 DEF Single
    <3>2. QED
        BY <1>1, <1>2, <3>1, OneHoisted
  <2>2. CASE Len(Lead(f)) = 0
    BY <1>1, <1>2, <2>2, NoneHoisted
  <2>3. Len(Lead(f)) = 1 \/ Len(Lead(f)) = 0
    <3>1. \A k \in Nat : k <= 1 => k = 1 \/ k = 0
        OBVIOUS
    <3>2. QED
        BY <1>1, <3>1, Zenon
  <2>4. QED
    BY <2>1, <2>2, <2>3, Zenon
<1>4. QED
    BY <1>3 DEF Placed, grid

LEMMA ResolvedTruthfully ==
    ASSUME FeedType(feed), fields = ResolveFields(feed)
    PROVE  AlignmentTruthful
<1> DEFINE rows == GridOrdered(feed.rows)
           placed == Placed(feed)
<1>1. /\ SubSeq(feed.order, 1, Len(rows)) = Heads(feed)
      /\ Hoisted(SubSeq(feed.order, 1, Len(rows)), feed.keys) = Lead(feed)
    BY DEF Heads, Lead
<1>2. /\ Reached(feed) /\ placed # Refused =>
            fields = [status |-> "aligned", annotated |-> Annotating(feed)]
      /\ Reached(feed) /\ placed = Refused => fields.status = "alignmentAmbiguous"
      /\ ~ Reached(feed) => fields.status \notin {"aligned", "alignmentAmbiguous"}
    BY Resolved
<1>3. /\ fields.status = "aligned" <=> Reached(feed) /\ placed # Refused
      /\ fields.status = "aligned" => fields.annotated = Annotating(feed)
      /\ fields.status = "alignmentAmbiguous" => Reached(feed)
  <2> HIDE DEF placed
  <2> QED
    BY <1>2
<1>4. Best = BestOf(rows, Alignments(rows, Heads(feed), Lead(feed)), feed.types)
    BY <1>1 DEF Best, BestOf
<1>5. \A a : Breaks(a) <=> Breaking(rows, a, feed.types)
    BY DEF Breaks, Breaking
<1>6. \A a : AnnotatedBy(a) <=> \A i \in DOMAIN rows : fields.annotated[a[i]] = rows[i].column
    BY DEF AnnotatedBy
<1>7. ASSUME LaidOut(feed), Whole(feed), Captioned(feed), rows # << >>
      PROVE  /\ fields.status = "aligned"
             /\ \A p \in DOMAIN fields.annotated : fields.annotated[p] = feed.owner[p]
  <2>1. /\ Reached(feed) /\ placed # Refused
        /\ \A p \in ToSet(Heads(feed)) : Annotating(feed)[p] = feed.owner[p]
    BY <1>7, OwnAnnotation
  <2>2. DOMAIN Annotating(feed) = ToSet(Heads(feed))
    BY DEF Annotating
  <2> HIDE DEF placed
  <2>3. QED
    BY <1>3, <2>1, <2>2
<1>8. ASSUME fields.status = "aligned"
      PROVE  \E a \in Alignments(rows, Heads(feed), Lead(feed)) : AnnotatedBy(a) /\ ~ Breaks(a)
  <2>1. Reached(feed) /\ placed # Refused /\ fields.annotated = Annotating(feed)
    BY <1>3, <1>8
  <2>2. /\ placed \in Alignments(rows, Heads(feed), Lead(feed))
        /\ \A i \in DOMAIN rows : Annotating(feed)[placed[i]] = rows[i].column
        /\ \A i \in DOMAIN rows : ~ (Score(rows[i], placed[i], feed.types) <= VIOLATION \div 2)
    BY <2>1, PlacedAligns
  <2> HIDE DEF placed, rows
  <2>3. ~ Breaking(rows, placed, feed.types)
    BY <2>2 DEF Breaking
  <2>4. QED
    BY <1>5, <1>6, <2>1, <2>2, <2>3
<1>9. ASSUME fields.status \in {"aligned", "alignmentAmbiguous"}, Len(Lead(feed)) <= 1
      PROVE  fields.status = "aligned" <=> Cardinality(Best) = 1 /\ \A a \in Best : ~ Breaks(a)
  <2>1. Reached(feed)
    BY <1>3, <1>9
  <2>2. placed # Refused <=> Cardinality(Best) = 1 /\ \A a \in Best : ~ Breaking(rows, a, feed.types)
    BY <1>4, <1>9, <2>1, FeedAligned
  <2> HIDE DEF placed, rows
  <2>3. QED
    BY <1>3, <1>5, <2>1, <2>2
<1> HIDE DEF rows, placed
<1>10. AlignmentTruthful
    BY <1>1, <1>7, <1>8, <1>9, Zenon DEF AlignmentTruthful, rows
<1>11. QED
    BY <1>10

(* What the inductive argument carries: the fields are what resolveFields  *)
(* makes of the feed.                                                      *)
BuiltOnce == fields.status # "unbuilt" => FeedType(feed) /\ fields = ResolveFields(feed)

(* gi-registry.ts:715-728: annotations are true of a whole feed whose keys *)
(* are captioned, break no constraint, and are withheld exactly where      *)
(* several alignments are equally good, if at most one property is hoisted.*)
THEOREM AlignmentTruthfulAlways == AlignSpec => []AlignmentTruthful
<1>1. AlignInit => BuiltOnce
    BY DEF AlignInit, BuiltOnce, Bare
<1>2. BuiltOnce /\ [BuildFields]_alignVars => BuiltOnce'
  <2>1. ASSUME BuildFields PROVE BuiltOnce'
    <3>1. PICK sort \in DOMAIN Feeds : feed' \in Feeds[sort]
        BY <2>1 DEF BuildFields
    <3>2. FeedType(feed')
        BY <3>1, FeedAssumption
    <3>3. fields' = ResolveFields(feed')
        BY <2>1 DEF BuildFields
    <3>4. QED
        BY <3>2, <3>3 DEF BuiltOnce
  <2>2. ASSUME BuiltOnce, UNCHANGED alignVars PROVE BuiltOnce'
    BY <2>2 DEF BuiltOnce, alignVars
  <2>3. QED
    BY <2>1, <2>2
<1>3. BuiltOnce => AlignmentTruthful
  <2>1. CASE fields.status = "unbuilt"
    BY <2>1 DEF AlignmentTruthful
  <2>2. CASE fields.status # "unbuilt"
    BY <2>2, ResolvedTruthfully DEF BuiltOnce
  <2>3. QED
    BY <2>1, <2>2
<1>4. QED
    BY <1>1, <1>2, <1>3, PTL DEF AlignSpec
=============================================================================
