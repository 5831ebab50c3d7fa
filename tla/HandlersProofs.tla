--------------------------- MODULE HandlersProofs ---------------------------
(***************************************************************************)
(* Proofs about the parts of MCHandlers, for any values of the constants:  *)
(* the log viewer, the preflight page, the tools that list and that run    *)
(* inquiries, and their composition.                                       *)
(***************************************************************************)
EXTENDS MCHandlers, FiniteSetTheorems, WellFoundedInduction, TLAPS

-----------------------------------------------------------------------------
(* Numbers and sequences.                                                  *)

LEMMA SmallerOfTwo ==
    ASSUME NEW m \in Nat, NEW n \in Nat
    PROVE  /\ Min({m, n}) \in Nat
           /\ Min({m, n}) <= m /\ Min({m, n}) <= n
           /\ Min({m, n}) = m \/ Min({m, n}) = n
<1>1. \E x \in {m, n} : \A y \in {m, n} : x <= y
    OBVIOUS
<1>2. QED
    BY <1>1 DEF Min

LEMMA LeastNatural ==
    ASSUME NEW T \in SUBSET Nat, T # {}
    PROVE  \E n \in T : \A m \in T : n <= m
<1> DEFINE R == {ss \in Nat \X Nat : ss[1] < ss[2]}
<1>1. IsWellFoundedOn(R, Nat)
    BY NatLessThanWellFounded DEF OpToRel
<1>2. \E n \in T : \A m \in T : ~ (<<m, n>> \in R)
  <2> HIDE DEF R
  <2> QED
    BY <1>1, WFMin
<1>3. \A m, n \in Nat : m < n => <<m, n>> \in R
    OBVIOUS
<1>4. PICK n \in T : \A m \in T : ~ (<<m, n>> \in R)
    BY <1>2
<1>5. \A m \in T : n <= m
  <2> HIDE DEF R
  <2>1. SUFFICES ASSUME NEW m \in T, m < n PROVE FALSE
    OBVIOUS
  <2>2. <<m, n>> \in R
    BY <2>1, <1>3
  <2>3. QED
    BY <1>4, <2>2
<1>6. QED
    BY <1>5

-----------------------------------------------------------------------------
(* The log viewer.  The entries of the files have ranks in the viewer's    *)
(* order; while files come in order, what the newest batches hold is a     *)
(* prefix of that order, and an upload only raises ranks.                  *)

(* The entries that match, and the files' type.                            *)
All == Hits(DOMAIN files)
Filed == files \in Seq(Seq(Entries))

-----------------------------------------------------------------------------
(* Entries and their order.                                                *)

LEMMA HitFacts ==
    ASSUME Filed, NEW numbers \in SUBSET DOMAIN files, NEW e \in Hits(numbers)
    PROVE  /\ e = <<e[1], e[2]>> /\ e[1] \in numbers /\ e[2] \in DOMAIN files[e[1]]
           /\ files[e[1]][e[2]].hit /\ Time(e) \in Nat /\ e[1] \in Nat /\ e[2] \in Nat
<1>1. PICK n \in numbers : e \in {<<n, i>> : i \in {k \in DOMAIN files[n] : files[n][k].hit}}
    BY DEF Hits
<1>2. PICK i \in DOMAIN files[n] : e = <<n, i>> /\ files[n][i].hit
    BY <1>1
<1>3. files[n] \in Seq(Entries) /\ n \in Nat
    BY DEF Filed
<1>4. files[n][i] \in Entries /\ i \in Nat
    BY <1>3
<1>5. files[n][i].time \in Nat
    BY <1>4 DEF Entries
<1>6. e[1] = n /\ e[2] = i
    BY <1>2
<1>7. QED
    BY <1>1, <1>2, <1>3, <1>4, <1>5, <1>6 DEF Time

LEMMA IsHit ==
    ASSUME NEW numbers, NEW n \in numbers, NEW i \in DOMAIN files[n], files[n][i].hit
    PROVE  <<n, i>> \in Hits(numbers)
    BY DEF Hits

LEMMA HitsAmong ==
    ASSUME Filed, NEW numbers \in SUBSET DOMAIN files
    PROVE  /\ Hits(numbers) \subseteq All
           /\ \A e \in All : e[1] \in numbers => e \in Hits(numbers)
  BY DEF Hits, All

LEMMA NewerIsOrder ==
    ASSUME Filed, NEW d \in All, NEW e \in All, NEW f \in All
    PROVE  /\ ~Newer(e, e)
           /\ Newer(d, e) /\ Newer(e, f) => Newer(d, f)
           /\ d = e \/ Newer(d, e) \/ Newer(e, d)
<1>1. \A g \in All : /\ g = <<g[1], g[2]>> /\ Time(g) \in Nat /\ g[1] \in Nat /\ g[2] \in Nat
    BY HitFacts DEF All
<1>2. /\ Time(d) \in Nat /\ d[1] \in Nat /\ d[2] \in Nat
      /\ Time(e) \in Nat /\ e[1] \in Nat /\ e[2] \in Nat
      /\ Time(f) \in Nat /\ f[1] \in Nat /\ f[2] \in Nat
    BY <1>1
<1>3. d[1] = e[1] /\ d[2] = e[2] => d = e
    BY <1>1, Zenon
<1>4. QED
    BY <1>2, <1>3 DEF Newer

LEMMA HitsFinite == Filed => IsFiniteSet(All)
<1> SUFFICES ASSUME Filed PROVE IsFiniteSet(All)
    OBVIOUS
<1> DEFINE of == [n \in DOMAIN files |->
                    {<<n, i>> : i \in {k \in DOMAIN files[n] : files[n][k].hit}}]
           parts == {of[n] : n \in DOMAIN files}
<1>1. IsFiniteSet(DOMAIN files)
  <2>1. DOMAIN files = 1..Len(files) /\ Len(files) \in Nat
    BY DEF Filed
  <2>2. QED
    BY <2>1, FS_Interval
<1>2. IsFiniteSet(parts)
  <2>1. of \in Surjection(DOMAIN files, parts)
    BY DEF Surjection
  <2>2. QED
    BY <1>1, <2>1, FS_Surjection
<1>3. ASSUME NEW n \in DOMAIN files PROVE IsFiniteSet(of[n])
  <2> DEFINE hits == {k \in DOMAIN files[n] : files[n][k].hit}
             name == [i \in hits |-> <<n, i>>]
  <2>1. DOMAIN files[n] = 1..Len(files[n]) /\ Len(files[n]) \in Nat
    BY DEF Filed
  <2>2. IsFiniteSet(DOMAIN files[n])
    <3>1. IsFiniteSet(1..Len(files[n]))
        BY <2>1, FS_Interval
    <3>2. QED
        BY <2>1, <3>1
  <2>3. IsFiniteSet(hits)
    BY <2>2, FS_Subset
  <2>4. name \in Surjection(hits, of[n])
    BY DEF Surjection
  <2>5. QED
    BY <2>3, <2>4, FS_Surjection
<1>4. \A T \in parts : IsFiniteSet(T)
    BY <1>3
<1>5. UNION parts = All
    BY DEF All, Hits
<1>6. QED
    BY <1>2, <1>4, <1>5, FS_UNION

-----------------------------------------------------------------------------
(* Ranks, and the sequence they put a set of entries in.                   *)

LEMMA RankBounds ==
    ASSUME Filed, NEW S \in SUBSET All, NEW e \in S
    PROVE  /\ IsFiniteSet(S) /\ Cardinality(S) \in Nat
           /\ Rank(e, S) \in 0..Cardinality(S) - 1
<1>1. IsFiniteSet(S) /\ Cardinality(S) \in Nat
    BY HitsFinite, FS_Subset, FS_CardinalityType
<1>2. IsFiniteSet(S \ {e}) /\ Cardinality(S \ {e}) = Cardinality(S) - 1
    BY <1>1, FS_RemoveElement
<1>3. {d \in S : Newer(d, e)} \in SUBSET (S \ {e})
    BY NewerIsOrder
<1>4. IsFiniteSet({d \in S : Newer(d, e)}) /\ Rank(e, S) <= Cardinality(S \ {e})
    BY <1>2, <1>3, FS_Subset DEF Rank
<1>5. Rank(e, S) \in Nat
    BY <1>4, FS_CardinalityType DEF Rank
<1>6. QED
    BY <1>1, <1>2, <1>4, <1>5

LEMMA RankRises ==
    ASSUME Filed, NEW S \in SUBSET All, NEW d \in S, NEW e \in S, Newer(d, e)
    PROVE  Rank(d, S) < Rank(e, S)
<1> DEFINE below(x) == {c \in S : Newer(c, x)}
<1>1. IsFiniteSet(S)
    BY RankBounds
<1>2. below(d) \in SUBSET below(e) /\ d \in below(e) /\ d \notin below(d)
    BY NewerIsOrder
<1>3. IsFiniteSet(below(e))
    BY <1>1, FS_Subset
<1>4. Cardinality(below(d)) <= Cardinality(below(e)) /\ Cardinality(below(d)) # Cardinality(below(e))
  <2> HIDE DEF below
  <2> QED
    BY <1>2, <1>3, FS_Subset
<1>5. Rank(d, S) = Cardinality(below(d)) /\ Rank(e, S) = Cardinality(below(e))
    BY DEF Rank
<1>6. Rank(d, S) \in Int /\ Rank(e, S) \in Int
    BY RankBounds
<1>7. QED
    BY <1>4, <1>5, <1>6

LEMMA RanksAreAll ==
    ASSUME Filed, NEW S \in SUBSET All
    PROVE  /\ \A d, e \in S : Rank(d, S) = Rank(e, S) => d = e
           /\ \A k \in 0..Cardinality(S) - 1 : \E e \in S : Rank(e, S) = k
<1> DEFINE n == Cardinality(S)
           rank == [e \in S |-> Rank(e, S)]
<1>1. IsFiniteSet(S) /\ n \in Nat
    BY HitsFinite, FS_Subset, FS_CardinalityType
<1>2. \A d, e \in S : Rank(d, S) = Rank(e, S) => d = e
  <2>1. SUFFICES ASSUME NEW d \in S, NEW e \in S, d # e PROVE Rank(d, S) # Rank(e, S)
    OBVIOUS
  <2>2. Newer(d, e) \/ Newer(e, d)
    BY <2>1, NewerIsOrder
  <2>3. Rank(d, S) \in Int /\ Rank(e, S) \in Int
    BY RankBounds
  <2>4. QED
    BY <2>2, <2>3, RankRises
<1>3. rank \in Injection(S, 0..n - 1)
  <2>1. rank \in [S -> 0..n - 1]
    BY RankBounds
  <2>2. \A d, e \in S : rank[d] = rank[e] => d = e
    BY <1>2
  <2> HIDE DEF rank, n
  <2>3. QED
    BY <2>1, <2>2 DEF Injection, IsInjective
<1>4. IsFiniteSet(0..n - 1) /\ Cardinality(0..n - 1) = n
  <2> HIDE DEF n
  <2>1. 0 \in Int /\ n - 1 \in Int /\ (0 > n - 1 => n = 0)
    BY <1>1
  <2>2. IsFiniteSet(0..n - 1) /\ Cardinality(0..n - 1) = IF 0 > n - 1 THEN 0 ELSE n - 1 - 0 + 1
    BY <2>1, FS_Interval
  <2>3. QED
    BY <1>1, <2>1, <2>2
<1>5. rank \in Surjection(S, 0..n - 1)
  <2> HIDE DEF rank
  <2> QED
    BY <1>3, <1>4, FS_Injection
<1>6. \A k \in 0..n - 1 : \E e \in S : rank[e] = k
  <2> HIDE DEF rank
  <2> QED
    BY <1>5 DEF Surjection
<1>7. QED
    BY <1>2, <1>6

LEMMA SortedByRank ==
    ASSUME Filed, NEW S \in SUBSET All, NEW sorted, sorted = NewestFirst(S)
    PROVE  /\ sorted \in Seq(S) /\ Len(sorted) = Cardinality(S)
           /\ \A k \in 1..Cardinality(S) : sorted[k] \in S /\ Rank(sorted[k], S) = k - 1
           /\ \A e \in S : Rank(e, S) + 1 \in 1..Cardinality(S) /\ sorted[Rank(e, S) + 1] = e
<1>1. Cardinality(S) \in Nat
    BY HitsFinite, FS_Subset, FS_CardinalityType
<1>2. DOMAIN sorted = 1..Cardinality(S)
    BY DEF NewestFirst
<1>3. ASSUME NEW k \in 1..Cardinality(S) PROVE sorted[k] \in S /\ Rank(sorted[k], S) = k - 1
  <2>1. k - 1 \in 0..Cardinality(S) - 1
    BY <1>1
  <2>2. \E e \in S : Rank(e, S) = k - 1
    BY <2>1, RanksAreAll
  <2>3. sorted[k] = CHOOSE e \in S : Rank(e, S) = k - 1
    BY DEF NewestFirst
  <2>4. QED
    BY <2>2, <2>3
<1>4. sorted = [k \in 1..Cardinality(S) |-> sorted[k]]
    BY DEF NewestFirst
<1>5. sorted \in Seq(S) /\ Len(sorted) = Cardinality(S)
    BY <1>1, <1>3, <1>4
<1>6. ASSUME NEW e \in S
      PROVE  Rank(e, S) + 1 \in 1..Cardinality(S) /\ sorted[Rank(e, S) + 1] = e
  <2>1. Rank(e, S) + 1 \in 1..Cardinality(S) /\ Rank(e, S) \in Int
    BY <1>1, RankBounds
  <2>2. sorted[Rank(e, S) + 1] \in S /\ Rank(sorted[Rank(e, S) + 1], S) = Rank(e, S)
    BY <1>3, <2>1
  <2>3. QED
    BY <2>1, <2>2, RanksAreAll
<1>7. QED
    BY <1>3, <1>5, <1>6

-----------------------------------------------------------------------------
(* Batches and pages.                                                      *)

Orderly == UploadedInOrder /\ Len(files) <= MaxObjects

LEMMA LeastIsMin ==
    ASSUME NEW T \in SUBSET Nat, T # {}
    PROVE  Min(T) \in T
<1>1. PICK n \in T : \A m \in T : n <= m
    BY LeastNatural
<1>2. QED
    BY <1>1 DEF Min

LEMMA AllListed ==
    ASSUME Filed, Orderly
    PROVE  Listed = Len(files) /\ Len(files) \in Nat /\ DOMAIN files = 1..Len(files)
<1>1. Len(files) \in Nat /\ DOMAIN files = 1..Len(files)
    BY DEF Filed
<1>2. MaxObjects \in Nat /\ Len(files) <= MaxObjects
    BY SearchAssumption DEF Orderly
<1>3. {Len(files), MaxObjects} \in SUBSET Nat /\ {Len(files), MaxObjects} # {}
    BY <1>1, <1>2
<1>4. \A y \in {Len(files), MaxObjects} : Len(files) <= y
    BY <1>1, <1>2
<1>5. \A x \in {Len(files), MaxObjects} :
         (\A y \in {Len(files), MaxObjects} : x <= y) => x = Len(files)
    BY <1>1, <1>2
<1>6. Listed = Len(files)
    BY <1>4, <1>5 DEF Listed, Min
<1>7. QED
    BY <1>1, <1>6

(* What some batches hold is newer than all the rest.                      *)
LEMMA BatchesArePrefix ==
    ASSUME Filed, Orderly, NEW b \in Nat, NEW F, F = Filtered(b)
    PROVE  /\ F \in SUBSET All
           /\ \A e \in F : Rank(e, F) = Rank(e, All)
           /\ \A e \in All \ F : Rank(e, All) >= Cardinality(F)
<1> DEFINE read == {n \in 1..Listed : n > Listed - b * BatchSize}
<1>1. read \in SUBSET DOMAIN files /\ F = Hits(read)
    BY AllListed DEF Filtered
<1>2. F \in SUBSET All /\ \A e \in All : e \in F <=> e[1] \in read
    BY <1>1, HitsAmong, HitFacts
<1>3. ASSUME NEW d \in All, NEW e \in F, Newer(d, e) PROVE d \in F
  <2>1. SUFFICES ASSUME d \notin F PROVE FALSE
    OBVIOUS
  <2>2. d[1] \in DOMAIN files /\ d[2] \in DOMAIN files[d[1]] /\ Time(d) \in Nat
    BY HitFacts DEF All
  <2>3. e[1] \in DOMAIN files /\ e[2] \in DOMAIN files[e[1]] /\ Time(e) \in Nat
    BY <1>2, HitFacts DEF All
  <2>4. d[1] \notin read /\ e[1] \in read
    BY <1>2, <2>1
  <2>5. d[1] \in Nat /\ e[1] \in Nat /\ d[1] < e[1]
    <3>1. b * BatchSize \in Nat
        BY SearchAssumption
    <3>2. QED
        BY <2>2, <2>3, <2>4, <3>1, AllListed
  <2>6. Time(d) <= Time(e)
    BY <2>2, <2>3, <2>5 DEF Orderly, UploadedInOrder, Time
  <2>7. QED
    BY <1>3, <2>2, <2>3, <2>5, <2>6 DEF Newer
<1>4. ASSUME NEW e \in F PROVE Rank(e, F) = Rank(e, All)
  <2>1. {d \in F : Newer(d, e)} = {d \in All : Newer(d, e)}
    BY <1>2, <1>3
  <2>2. QED
    BY <2>1 DEF Rank
<1>5. ASSUME NEW e \in All \ F PROVE Rank(e, All) >= Cardinality(F)
  <2> DEFINE below == {d \in All : Newer(d, e)}
  <2>1. F \in SUBSET below
    BY <1>2, <1>3, NewerIsOrder
  <2>2. IsFiniteSet(below)
    BY HitsFinite, FS_Subset
  <2>3. Cardinality(F) <= Cardinality(below)
    <3> HIDE DEF below
    <3> QED
        BY <2>1, <2>2, FS_Subset
  <2>4. Cardinality(F) \in Nat /\ Cardinality(below) \in Nat
    BY <1>2, <2>2, HitsFinite, FS_Subset, FS_CardinalityType
  <2>5. QED
    BY <2>3, <2>4 DEF Rank
<1>6. QED
    BY <1>2, <1>4, <1>5

(* A page that was not cut short has read enough.                          *)
LEMMA EnoughRead ==
    ASSUME Filed, Orderly, NEW page \in Nat, NEW b \in 0..Enough(page), ~(b < Enough(page))
    PROVE  /\ b \in Nat
           /\ Cardinality(Filtered(b)) >= Need(page) \/ Filtered(b) = All
<1> DEFINE T == {c \in 0..Batches : Cardinality(Filtered(c)) >= Need(page) \/ c = Batches}
<1>1. Listed \in Nat /\ BatchSize \in Nat \ {0}
    BY AllListed, SearchAssumption
<1>2. Batches \in Nat /\ Batches * BatchSize >= Listed
    BY <1>1 DEF Batches
<1>3. Enough(page) \in T
  <2>1. T \in SUBSET Nat /\ Batches \in T
    BY <1>2
  <2>2. Min(T) \in T
    <3> HIDE DEF T
    <3> QED
        BY <2>1, LeastIsMin
  <2>3. QED
    BY <2>2 DEF Enough
<1>4. b = Enough(page) /\ b \in Nat
    BY <1>2, <1>3
<1>5. ASSUME b = Batches PROVE Filtered(b) = All
  <2>1. {n \in 1..Listed : n > Listed - b * BatchSize} = DOMAIN files
    BY <1>1, <1>2, <1>5, AllListed
  <2>2. QED
    BY <2>1 DEF Filtered, All
<1>6. QED
    BY <1>3, <1>4, <1>5

Slice(t, S, s, start, top) ==
    /\ t \in Seq(S) /\ Len(t) \in Nat /\ DOMAIN t = 1..Len(t)
    /\ Len(t) = IF top >= start THEN top - start ELSE 0
    /\ \A k \in DOMAIN t : t[k] = s[start + k]

LEMMA SubSeqOf ==
    ASSUME NEW S, NEW s \in Seq(S), NEW start \in Nat, NEW top \in Nat, top <= Len(s)
    PROVE  Slice(SubSeq(s, start + 1, top), S, s, start, top)
<1> DEFINE t == SubSeq(s, start + 1, top)
<1>1. t \in Seq(S)
    OBVIOUS
<1>2. Len(t) \in Nat /\ DOMAIN t = 1..Len(t)
    BY <1>1
<1>3. Len(t) = IF top >= start THEN top - start ELSE 0
    OBVIOUS
<1>4. ASSUME NEW k \in DOMAIN t PROVE t[k] = s[start + k]
    BY <1>2, <1>3
<1> HIDE DEF t
<1>5. QED
    BY <1>1, <1>2, <1>3, <1>4 DEF Slice, t

(* What a page that was not cut short shows: the ranks it is for, and, if  *)
(* there is no next page, all that follow.                                 *)
LEMMA PageShows ==
    ASSUME Filed, Orderly, NEW page \in Nat, NEW b \in 0..Enough(page),
           NEW on, on = Page(page, b), ~on.timedOut
    PROVE  /\ on.page = page /\ on.hasMore \in BOOLEAN /\ on.logs \in Seq(All)
           /\ \A e \in ToSet(on.logs) :
                 page * PageSize <= Rank(e, All) /\ Rank(e, All) < (page + 1) * PageSize
           /\ \A i, j \in DOMAIN on.logs : on.logs[i] = on.logs[j] => i = j
           /\ \A e \in All : Rank(e, All) >= page * PageSize =>
                 \/ e \in ToSet(on.logs)
                 \/ Rank(e, All) >= (page + 1) * PageSize /\ on.hasMore
<1> DEFINE F == Filtered(b)
           n == Cardinality(F)
           sorted == NewestFirst(F)
           start == page * PageSize
           top == Min({start + PageSize, Len(sorted)})
<1>1. /\ on.page = page /\ on.logs = SubSeq(sorted, start + 1, top)
      /\ on.hasMore = (Len(sorted) > start + PageSize) /\ ~(b < Enough(page))
    BY DEF Page
<1>2. b \in Nat /\ (n >= Need(page) \/ F = All)
    BY <1>1, EnoughRead
<1>3. /\ F \in SUBSET All
      /\ \A e \in F : Rank(e, F) = Rank(e, All)
      /\ \A e \in All \ F : Rank(e, All) >= n
    BY <1>2, BatchesArePrefix
<1>4. /\ sorted \in Seq(F) /\ Len(sorted) = n
      /\ \A k \in 1..n : sorted[k] \in F /\ Rank(sorted[k], All) = k - 1
      /\ \A e \in F : Rank(e, All) + 1 \in 1..n /\ sorted[Rank(e, All) + 1] = e
    BY <1>3, SortedByRank
<1>5. /\ n \in Nat /\ start \in Nat /\ PageSize \in Nat \ {0}
      /\ (page + 1) * PageSize = start + PageSize /\ Need(page) = start + PageSize + 1
  <2>1. PageSize \in Nat \ {0} /\ n \in Nat
    BY <1>3, HitsFinite, FS_Subset, FS_CardinalityType, SearchAssumption
  <2>2. page * PageSize \in Nat /\ (page + 1) * PageSize = page * PageSize + PageSize
    BY <2>1
  <2>3. QED
    BY <2>1, <2>2 DEF Need
<1> HIDE DEF start, n, sorted, F
<1>6. top \in Nat /\ top <= n /\ top <= start + PageSize /\ (top = n \/ top = start + PageSize)
    BY <1>4, <1>5, SmallerOfTwo
<1> HIDE DEF top
<1>7. /\ on.logs \in Seq(F) /\ Len(on.logs) \in Nat /\ DOMAIN on.logs = 1..Len(on.logs)
      /\ Len(on.logs) = IF top >= start THEN top - start ELSE 0
      /\ \A k \in DOMAIN on.logs : on.logs[k] = sorted[start + k]
  <2>1. sorted \in Seq(F) /\ start \in Nat /\ top \in Nat /\ top <= Len(sorted)
    BY <1>4, <1>5, <1>6
  <2>2. on.logs = SubSeq(sorted, start + 1, top)
    BY <1>1
  <2>3. Slice(SubSeq(sorted, start + 1, top), F, sorted, start, top)
    BY <2>1, SubSeqOf
  <2>4. Slice(on.logs, F, sorted, start, top)
    BY <2>2, <2>3
  <2>5. QED
    BY <2>4 DEF Slice
<1>8. on.logs \in Seq(All)
    BY <1>3, <1>7
<1>9. ASSUME NEW k \in DOMAIN on.logs
      PROVE  /\ k \in Nat /\ k >= 1 /\ start + k \in 1..n /\ start + k <= top
             /\ Rank(on.logs[k], All) = start + k - 1
  <2>1. k \in 1..Len(on.logs)
    BY <1>7
  <2>2. k \in Nat /\ k >= 1 /\ start + k \in 1..n /\ start + k <= top
    <3> DEFINE length == Len(on.logs)
    <3>1. length = IF top >= start THEN top - start ELSE 0
      BY <1>7
    <3>2. k \in 1..length
      BY <2>1
    <3>3. n \in Nat /\ start \in Nat /\ top \in Nat /\ top <= n
      BY <1>5, <1>6
    <3> HIDE DEF length
    <3>4. top >= start /\ length = top - start
      BY <3>1, <3>2, <3>3
    <3>5. QED
      BY <3>2, <3>3, <3>4
  <2>3. on.logs[k] = sorted[start + k]
    BY <1>7
  <2>4. PICK m \in 1..n : m = start + k
    BY <2>2
  <2>5. Rank(sorted[m], All) = m - 1
    BY <1>4, Zenon
  <2>6. on.logs[k] = sorted[m]
    BY <2>3, <2>4
  <2>7. Rank(on.logs[k], All) = m - 1
    BY <2>5, <2>6, Zenon
  <2>8. QED
    BY <1>5, <2>2, <2>4, <2>7
<1>10. ASSUME NEW e \in ToSet(on.logs)
       PROVE  start <= Rank(e, All) /\ Rank(e, All) < start + PageSize
  <2>1. PICK k \in DOMAIN on.logs : e = on.logs[k]
    BY DEF ToSet
  <2>2. QED
    BY <1>5, <1>6, <1>9, <2>1
<1>11. ASSUME NEW i \in DOMAIN on.logs, NEW j \in DOMAIN on.logs, on.logs[i] = on.logs[j]
       PROVE  i = j
    BY <1>5, <1>9, <1>11
<1>13. ASSUME n > start + PageSize PROVE on.hasMore
    BY <1>1, <1>4, <1>13
<1>14. on.hasMore \in BOOLEAN
  <2>1. (Len(sorted) > start + PageSize) \in BOOLEAN
    OBVIOUS
  <2>2. on.hasMore = (Len(sorted) > start + PageSize)
    BY <1>1
  <2>3. QED
    BY <2>1, <2>2, Zenon
<1>12. ASSUME NEW e \in All, Rank(e, All) >= start, e \notin ToSet(on.logs)
       PROVE  Rank(e, All) >= start + PageSize /\ on.hasMore
  <2>1. Rank(e, All) \in Nat
    BY RankBounds
  <2>2. CASE e \in F
    <3> DEFINE k == Rank(e, All) + 1 - start
    <3>1. Rank(e, All) + 1 \in 1..n /\ sorted[Rank(e, All) + 1] = e
        BY <1>4, <2>2
    <3>2. k \notin DOMAIN on.logs
      <4>1. SUFFICES ASSUME k \in DOMAIN on.logs PROVE FALSE
        OBVIOUS
      <4>2. start + k = Rank(e, All) + 1
        BY <1>5, <2>1
      <4>3. on.logs[k] = e
        BY <1>7, <3>1, <4>1, <4>2
      <4>4. QED
        BY <1>12, <4>1, <4>3 DEF ToSet
    <3>3. Rank(e, All) + 1 > top
        BY <1>5, <1>6, <1>7, <1>12, <2>1, <3>1, <3>2
    <3>4. top = start + PageSize /\ n > start + PageSize
        BY <1>5, <1>6, <2>1, <3>1, <3>3
    <3>5. QED
        BY <1>5, <1>13, <2>1, <3>3, <3>4
  <2>3. CASE e \notin F
    <3>1. Rank(e, All) >= n
        BY <1>3, <2>3
    <3>2. n >= start + PageSize + 1
        BY <1>2, <1>5, <2>3
    <3>3. QED
        BY <1>5, <1>13, <2>1, <3>1, <3>2
  <2>4. QED
    BY <2>2, <2>3
<1>15. /\ \A e \in ToSet(on.logs) : start <= Rank(e, All) /\ Rank(e, All) < start + PageSize
       /\ \A e \in All : Rank(e, All) >= start =>
             \/ e \in ToSet(on.logs)
             \/ Rank(e, All) >= start + PageSize /\ on.hasMore
    BY <1>10, <1>12
<1>16. on.page = page /\ start = page * PageSize /\ start + PageSize = (page + 1) * PageSize
    BY <1>1, <1>5 DEF start
<1>17. QED
    BY <1>8, <1>11, <1>14, <1>15, <1>16

LEMMA PageFields ==
    ASSUME NEW page, NEW b
    PROVE  /\ Page(page, b).page = page /\ Page(page, b).hasMore \in BOOLEAN
           /\ Page(page, b).timedOut \in BOOLEAN
<1> DEFINE sorted == NewestFirst(Filtered(b))
           start == page * PageSize
<1>1. /\ Page(page, b).page = page /\ Page(page, b).timedOut = (b < Enough(page))
      /\ Page(page, b).hasMore = (Len(sorted) > start + PageSize)
    BY DEF Page
<1>2. (b < Enough(page)) \in BOOLEAN /\ (Len(sorted) > start + PageSize) \in BOOLEAN
  <2> HIDE DEF sorted, start
  <2> QED
    OBVIOUS
<1> HIDE DEF sorted, start
<1>3. QED
    BY <1>1, <1>2, Zenon

LEMMA Joined ==
    ASSUME NEW S, NEW s \in Seq(S), NEW t \in Seq(S)
    PROVE  /\ s \o t \in Seq(S) /\ ToSet(s \o t) = ToSet(s) \cup ToSet(t)
           /\ /\ ToSet(s) \cap ToSet(t) = {}
              /\ \A i, j \in DOMAIN s : s[i] = s[j] => i = j
              /\ \A i, j \in DOMAIN t : t[i] = t[j] => i = j
              => \A i, j \in DOMAIN (s \o t) : (s \o t)[i] = (s \o t)[j] => i = j
<1> DEFINE u == s \o t
           m == Len(s)
           n == Len(t)
<1>1. /\ u \in Seq(S) /\ m \in Nat /\ n \in Nat
      /\ DOMAIN u = 1..m + n /\ DOMAIN s = 1..m /\ DOMAIN t = 1..n
    OBVIOUS
<1>2. /\ \A k \in 1..m : u[k] = s[k]
      /\ \A k \in 1..n : u[k + m] = t[k]
    OBVIOUS
<1>3. \A k \in 1..m + n : \/ k \in 1..m /\ u[k] = s[k]
                          \/ k - m \in 1..n /\ u[k] = t[k - m]
    OBVIOUS
<1>4. ToSet(u) = ToSet(s) \cup ToSet(t)
  <2> HIDE DEF u, m, n
  <2>1. \A k \in 1..m : k \in 1..m + n
    BY <1>1
  <2>2. \A k \in 1..n : k + m \in 1..m + n
    BY <1>1
  <2>3. ASSUME NEW e \in ToSet(u) PROVE e \in ToSet(s) \cup ToSet(t)
    BY <1>1, <1>3 DEF ToSet
  <2>4. ASSUME NEW e \in ToSet(s) PROVE e \in ToSet(u)
    <3>1. PICK k \in 1..m : e = s[k]
        BY <1>1 DEF ToSet
    <3>2. QED
        BY <1>1, <1>2, <2>1, <3>1 DEF ToSet
  <2>5. ASSUME NEW e \in ToSet(t) PROVE e \in ToSet(u)
    <3>1. PICK k \in 1..n : e = t[k]
        BY <1>1 DEF ToSet
    <3>2. k + m \in DOMAIN u /\ u[k + m] = e
        BY <1>1, <1>2, <2>2, <3>1
    <3>3. QED
        BY <3>2 DEF ToSet
  <2>6. QED
    BY <2>3, <2>4, <2>5
<1>5. ASSUME ToSet(s) \cap ToSet(t) = {},
             \A i, j \in DOMAIN s : s[i] = s[j] => i = j,
             \A i, j \in DOMAIN t : t[i] = t[j] => i = j,
             NEW i \in DOMAIN u, NEW j \in DOMAIN u, u[i] = u[j]
      PROVE  i = j
  <2> HIDE DEF u, m, n
  <2>1. \A k \in 1..m : s[k] \in ToSet(s)
    BY <1>1 DEF ToSet
  <2>2. \A k \in 1..n : t[k] \in ToSet(t)
    BY <1>1 DEF ToSet
  <2>3. i - m = j - m => i = j
    BY <1>1
  <2>4. QED
    BY <1>1, <1>3, <1>5, <2>1, <2>2, <2>3
<1>6. QED
    BY <1>1, <1>4, <1>5

-----------------------------------------------------------------------------
(* A search.                                                               *)

(* While a search is under way and nothing made it doubtful: what it has   *)
(* not shown of what was there lies beyond its pages, which uploads only   *)
(* push further; and if there were none, what it has shown lies before.    *)
Searched ==
    viewer.searches > 0 /\ ~viewer.doubtful /\ Orderly =>
       LET reached == (viewer.on.page + 1) * PageSize
       IN  /\ present \subseteq All /\ seen \in Seq(All)
           /\ \A e \in present : \/ e \in ToSet(seen)
                                 \/ Rank(e, All) >= reached /\ viewer.on.hasMore
           /\ ~grown => /\ \A e \in ToSet(seen) : Rank(e, All) < reached
                        /\ \A i, j \in DOMAIN seen : seen[i] = seen[j] => i = j

SearchTyped ==
    /\ Filed /\ grown \in BOOLEAN
    /\ viewer = [on |-> viewer.on, searches |-> viewer.searches, doubtful |-> viewer.doubtful]
    /\ viewer.searches \in Nat /\ viewer.doubtful \in BOOLEAN
    /\ viewer.on.page \in Nat /\ viewer.on.hasMore \in BOOLEAN

LEMMA SearchBegins == SearchInit => SearchTyped /\ Searched
<1> SUFFICES ASSUME SearchInit PROVE SearchTyped /\ Searched
    OBVIOUS
<1>1. /\ NoSearch.page = 0 /\ NoSearch.hasMore = FALSE
    BY DEF NoSearch
<1>2. /\ viewer = [on |-> NoSearch, searches |-> 0, doubtful |-> FALSE]
      /\ viewer.on = NoSearch /\ viewer.searches = 0 /\ viewer.doubtful = FALSE
    BY DEF SearchInit
<1>3. files = << >> /\ grown = FALSE
    BY DEF SearchInit
<1>4. Filed /\ grown \in BOOLEAN
  <2>1. << >> \in Seq(Seq(Entries))
    OBVIOUS
  <2>2. Filed
    BY <1>3, <2>1 DEF Filed
  <2>3. grown \in BOOLEAN
    BY <1>3
  <2>4. QED
    BY <2>2, <2>3
<1>5. viewer.on.page \in Nat /\ viewer.on.hasMore \in BOOLEAN
  <2>1. viewer.on.page = 0 /\ viewer.on.hasMore = FALSE
    BY <1>1, <1>2, Zenon
  <2>2. 0 \in Nat /\ FALSE \in BOOLEAN
    OBVIOUS
  <2>3. QED
    BY <2>1, <2>2, Zenon
<1>6. viewer = [on |-> viewer.on, searches |-> viewer.searches, doubtful |-> viewer.doubtful]
    BY <1>2
<1>7. Searched
    BY <1>2 DEF Searched
<1>8. QED
    BY <1>2, <1>4, <1>5, <1>6, <1>7 DEF SearchTyped

LEMMA UploadStep ==
    ASSUME SearchTyped, Searched, Upload
    PROVE  SearchTyped' /\ Searched'
<1>1. PICK file \in Contents : files' = Append(files, file)
    BY DEF Upload
<1>2. file \in Seq(Entries) /\ files \in Seq(Seq(Entries)) /\ Len(files) \in Nat
    BY <1>1, SearchAssumption DEF SearchTyped, Filed
<1>3. /\ files' \in Seq(Seq(Entries)) /\ Len(files') = Len(files) + 1
      /\ DOMAIN files = 1..Len(files) /\ DOMAIN files' = 1..Len(files) + 1
      /\ \A n \in DOMAIN files : n \in DOMAIN files' /\ files'[n] = files[n]
    BY <1>1, <1>2
<1>4. SearchTyped'
    BY <1>3 DEF SearchTyped, Filed, Upload
<1>5. SUFFICES ASSUME viewer.searches > 0, ~viewer.doubtful, Orderly' PROVE Searched'
    BY <1>4 DEF Searched, Upload
<1>6. Orderly
  <2>1. Len(files) <= MaxObjects
    BY <1>2, <1>3, <1>5, SearchAssumption DEF Orderly
  <2>2. UploadedInOrder
    BY <1>3, <1>5 DEF Orderly, UploadedInOrder
  <2>3. QED
    BY <2>1, <2>2 DEF Orderly
<1>7. \A e \in All : e[1] \in DOMAIN files /\ e = <<e[1], e[2]>> /\ e[2] \in DOMAIN files[e[1]]
                     /\ files[e[1]][e[2]].hit
    BY HitFacts DEF All, SearchTyped
<1>8. All \subseteq All'
  <2>1. SUFFICES ASSUME NEW e \in All PROVE e \in All'
    OBVIOUS
  <2>2. e[1] \in DOMAIN files' /\ e[2] \in DOMAIN files'[e[1]] /\ files'[e[1]][e[2]].hit
    BY <1>3, <1>7
  <2>3. <<e[1], e[2]>> \in All'
    BY <2>2 DEF All, Hits
  <2>4. QED
    BY <1>7, <2>3
<1>9. \A d, e \in All : Newer(d, e) => Newer(d, e)'
    BY <1>3, <1>7 DEF Newer, Time
<1>10. ASSUME NEW e \in All PROVE Rank(e, All) <= Rank(e, All)' /\ Rank(e, All) \in Nat /\ Rank(e, All)' \in Nat
  <2> DEFINE below == {d \in All : Newer(d, e)}
             belowNow == {d \in All' : Newer(d, e)'}
  <2>1. below \in SUBSET belowNow
    BY <1>8, <1>9
  <2>2. IsFiniteSet(All')
    <3>1. Filed'
        BY <1>4 DEF SearchTyped
    <3>2. (Filed => IsFiniteSet(All))'
        BY HitsFinite, PTL
    <3>3. QED
        BY <3>1, <3>2
  <2>3. IsFiniteSet(belowNow)
    BY <2>2, FS_Subset
  <2>4. Cardinality(below) <= Cardinality(belowNow) /\ Cardinality(below) \in Nat
        /\ Cardinality(belowNow) \in Nat
    <3> HIDE DEF below, belowNow
    <3> QED
        BY <2>1, <2>3, FS_Subset, FS_CardinalityType
  <2>5. QED
    BY <2>4 DEF Rank
<1>11. /\ UNCHANGED <<viewer, present, seen>> /\ grown'
    BY DEF Upload
<1>12. viewer.on.page \in Nat /\ PageSize \in Nat
    BY SearchAssumption DEF SearchTyped
<1>13. seen \in Seq(All')
    BY <1>5, <1>6, <1>8 DEF Searched
<1>14. \A e \in present : \/ e \in ToSet(seen)
                          \/ Rank(e, All)' >= (viewer.on.page + 1) * PageSize /\ viewer.on.hasMore
  <2>1. SUFFICES ASSUME NEW e \in present, e \notin ToSet(seen)
                 PROVE  Rank(e, All)' >= (viewer.on.page + 1) * PageSize /\ viewer.on.hasMore
    OBVIOUS
  <2>2. e \in All /\ Rank(e, All) >= (viewer.on.page + 1) * PageSize /\ viewer.on.hasMore
    BY <1>5, <1>6, <2>1 DEF Searched
  <2>3. (viewer.on.page + 1) * PageSize \in Nat
    BY <1>12
  <2>4. QED
    BY <1>10, <2>2, <2>3
<1>15. QED
    BY <1>5, <1>6, <1>8, <1>11, <1>13, <1>14 DEF Searched

(* A page, for the search that it begins or goes on with: what is new in   *)
(* the two cases is only what had been shown before.                       *)
LEMMA SearchStep ==
    ASSUME SearchTyped, Search
    PROVE  SearchTyped' /\ Searched'
<1>1. PICK b \in 0..Enough(0) :
         /\ viewer' = [on |-> Page(0, b), searches |-> viewer.searches + 1,
                       doubtful |-> Page(0, b).timedOut]
         /\ seen' = Page(0, b).logs
    BY DEF Search
<1> DEFINE on == Page(0, b)
<1>2. files' = files /\ present' = All /\ grown' = FALSE
    BY DEF Search, All
<1>3. /\ viewer'.on = on /\ viewer'.searches = viewer.searches + 1
      /\ viewer'.doubtful = on.timedOut
    BY <1>1
<1>4. on.page = 0 /\ on.hasMore \in BOOLEAN /\ on.timedOut \in BOOLEAN
    BY PageFields
<1>5. SearchTyped'
  <2>1. Filed' /\ grown' \in BOOLEAN
    BY <1>2 DEF SearchTyped, Filed
  <2>2. viewer' = [on |-> viewer'.on, searches |-> viewer'.searches, doubtful |-> viewer'.doubtful]
    BY <1>1
  <2>3. viewer'.searches \in Nat
    BY <1>3 DEF SearchTyped
  <2>4. viewer'.on.page \in Nat /\ viewer'.on.hasMore \in BOOLEAN /\ viewer'.doubtful \in BOOLEAN
    BY <1>3, <1>4
  <2>5. QED
    BY <2>1, <2>2, <2>3, <2>4 DEF SearchTyped
<1>6. Hits(DOMAIN files)' = Hits(DOMAIN files) /\ All' = All
    BY <1>2 DEF All, Hits
<1>7. \A e : Rank(e, All)' = Rank(e, All)
    BY <1>2, <1>6 DEF Rank, Newer, Time
<1>8. SUFFICES ASSUME ~viewer'.doubtful, Orderly' PROVE Searched'
    BY <1>5 DEF Searched
<1>9. Orderly /\ Filed /\ ~on.timedOut
  <2>1. Orderly
    BY <1>2, <1>8 DEF Orderly, UploadedInOrder
  <2>2. QED
    BY <1>3, <1>8, <2>1 DEF SearchTyped
<1>10. PageSize \in Nat \ {0} /\ 0 * PageSize = 0 /\ (0 + 1) * PageSize = PageSize
    BY SearchAssumption
<1>11. /\ on.logs \in Seq(All)
       /\ \A e \in ToSet(on.logs) : 0 <= Rank(e, All) /\ Rank(e, All) < (0 + 1) * PageSize
       /\ \A i, j \in DOMAIN on.logs : on.logs[i] = on.logs[j] => i = j
       /\ \A e \in All : Rank(e, All) >= 0 =>
             \/ e \in ToSet(on.logs)
             \/ Rank(e, All) >= (0 + 1) * PageSize /\ on.hasMore
  <2> HIDE DEF on
  <2> QED
    BY <1>9, <1>10, PageShows DEF on
<1>12. \A e \in All : Rank(e, All) >= 0
    BY <1>9, RankBounds
<1>13. /\ viewer'.on.page = 0 /\ viewer'.on.hasMore = on.hasMore /\ seen' = on.logs
    BY <1>1, <1>3, <1>4
<1> HIDE DEF on
<1>14. QED
    BY <1>2, <1>6, <1>7, <1>11, <1>12, <1>13 DEF Searched

LEMMA NextPageStep ==
    ASSUME SearchTyped, Searched, NextPage
    PROVE  SearchTyped' /\ Searched'
<1> DEFINE page == viewer.on.page + 1
<1>1. PICK b \in 0..Enough(page) : Load(page, b)
    BY DEF NextPage
<1> DEFINE on == Page(page, b)
<1>2. files' = files /\ present' = present /\ grown' = grown /\ seen' = seen \o on.logs
    BY <1>1 DEF Load
<1>3. /\ viewer' = [on |-> on, searches |-> viewer.searches,
                    doubtful |-> viewer.doubtful \/ on.timedOut]
      /\ viewer'.on = on /\ viewer'.searches = viewer.searches
      /\ viewer'.doubtful = (viewer.doubtful \/ on.timedOut)
  <2>1. viewer' = [viewer EXCEPT !.on = on, !.doubtful = @ \/ on.timedOut]
    BY <1>1 DEF Load
  <2>2. viewer' = [on |-> on, searches |-> viewer.searches,
                   doubtful |-> viewer.doubtful \/ on.timedOut]
    <3> HIDE DEF on
    <3> QED
        BY <2>1 DEF SearchTyped
  <2>3. QED
    <3> HIDE DEF on
    <3> QED
        BY <2>2
<1>4. on.page = page /\ on.hasMore \in BOOLEAN /\ on.timedOut \in BOOLEAN
    BY PageFields
<1>5. viewer.on.page \in Nat /\ page \in Nat
    BY DEF SearchTyped
<1>6. SearchTyped'
  <2>1. Filed' /\ grown' \in BOOLEAN
    BY <1>2 DEF SearchTyped, Filed
  <2>2. viewer' = [on |-> viewer'.on, searches |-> viewer'.searches, doubtful |-> viewer'.doubtful]
    <3> HIDE DEF on
    <3> QED
        BY <1>3
  <2>3. viewer'.searches \in Nat
    BY <1>3 DEF SearchTyped
  <2>4. viewer'.doubtful \in BOOLEAN
    BY <1>3, <1>4 DEF SearchTyped
  <2>5. viewer'.on.page \in Nat /\ viewer'.on.hasMore \in BOOLEAN
    BY <1>3, <1>4, <1>5
  <2>6. QED
    BY <2>1, <2>2, <2>3, <2>4, <2>5 DEF SearchTyped
<1>7. All' = All
    BY <1>2 DEF All, Hits
<1>8. \A e : Rank(e, All)' = Rank(e, All)
    BY <1>2, <1>7 DEF Rank, Newer, Time
<1>9. SUFFICES ASSUME viewer.searches > 0, ~viewer'.doubtful, Orderly' PROVE Searched'
    BY <1>3, <1>6 DEF Searched
<1>10. Orderly /\ Filed /\ ~viewer.doubtful /\ ~on.timedOut
  <2>1. Orderly
    BY <1>2, <1>9 DEF Orderly, UploadedInOrder
  <2>2. ~(viewer.doubtful \/ on.timedOut)
    BY <1>3, <1>9, Zenon
  <2>3. QED
    BY <2>1, <2>2 DEF SearchTyped
<1> HIDE DEF on, page
<1>11. /\ on.logs \in Seq(All)
       /\ \A e \in ToSet(on.logs) :
             page * PageSize <= Rank(e, All) /\ Rank(e, All) < (page + 1) * PageSize
       /\ \A i, j \in DOMAIN on.logs : on.logs[i] = on.logs[j] => i = j
       /\ \A e \in All : Rank(e, All) >= page * PageSize =>
             \/ e \in ToSet(on.logs)
             \/ Rank(e, All) >= (page + 1) * PageSize /\ on.hasMore
    BY <1>5, <1>10, PageShows DEF on
<1> DEFINE reached == page * PageSize
           reachedNow == (page + 1) * PageSize
<1>12. /\ present \subseteq All /\ seen \in Seq(All)
       /\ \A e \in present : e \in ToSet(seen) \/ Rank(e, All) >= reached
       /\ ~grown => /\ \A e \in ToSet(seen) : Rank(e, All) < reached
                    /\ \A i, j \in DOMAIN seen : seen[i] = seen[j] => i = j
    BY <1>9, <1>10 DEF Searched, page
<1>13. reached \in Nat /\ reachedNow \in Nat /\ reached <= reachedNow
  <2>1. PageSize \in Nat
    BY SearchAssumption
  <2>2. reachedNow = reached + PageSize /\ reached \in Nat
    BY <1>5, <2>1
  <2>3. QED
    BY <2>1, <2>2
<1> HIDE DEF reached, reachedNow
<1>14. /\ seen' \in Seq(All) /\ ToSet(seen') = ToSet(seen) \cup ToSet(on.logs)
       /\ \A e \in ToSet(seen) : e \in All /\ Rank(e, All) \in Nat
       /\ \A e \in ToSet(on.logs) : e \in All /\ Rank(e, All) \in Nat
  <2>1. seen' \in Seq(All) /\ ToSet(seen') = ToSet(seen) \cup ToSet(on.logs)
    BY <1>2, <1>11, <1>12, Joined
  <2>2. ToSet(seen) \subseteq All /\ ToSet(on.logs) \subseteq All
    BY <1>11, <1>12 DEF ToSet
  <2>3. QED
    BY <1>10, <2>1, <2>2, RankBounds
<1>15. \A e \in present : \/ e \in ToSet(seen')
                          \/ Rank(e, All) >= reachedNow /\ on.hasMore
    BY <1>11, <1>12, <1>14 DEF reached, reachedNow
<1>16. ASSUME ~grown
       PROVE  /\ \A e \in ToSet(seen') : Rank(e, All) < reachedNow
              /\ \A i, j \in DOMAIN seen' : seen'[i] = seen'[j] => i = j
  <2>1. /\ \A e \in ToSet(seen) : Rank(e, All) < reached
        /\ \A e \in ToSet(on.logs) : reached <= Rank(e, All) /\ Rank(e, All) < reachedNow
    BY <1>11, <1>12, <1>16 DEF reached, reachedNow
  <2>2. \A e \in ToSet(seen') : Rank(e, All) < reachedNow
    BY <1>13, <1>14, <2>1
  <2>3. ToSet(seen) \cap ToSet(on.logs) = {}
    BY <1>13, <1>14, <2>1
  <2>4. \A i, j \in DOMAIN seen : seen[i] = seen[j] => i = j
    BY <1>12, <1>16
  <2>5. on.logs \in Seq(All) /\ seen \in Seq(All)
    BY <1>11, <1>12
  <2>6. \A i, j \in DOMAIN on.logs : on.logs[i] = on.logs[j] => i = j
    BY <1>11
  <2>7. \A i, j \in DOMAIN (seen \o on.logs) :
           (seen \o on.logs)[i] = (seen \o on.logs)[j] => i = j
    BY <2>3, <2>4, <2>5, <2>6, Joined, Zenon
  <2>8. \A i, j \in DOMAIN seen' : seen'[i] = seen'[j] => i = j
    BY <1>2, <2>7, Zenon
  <2>9. QED
    BY <2>2, <2>8
<1>17. viewer'.on.page = page /\ viewer'.on.hasMore = on.hasMore
    BY <1>3, <1>4
<1>18. QED
    BY <1>2, <1>7, <1>8, <1>12, <1>14, <1>15, <1>16, <1>17 DEF Searched, reachedNow

LEMMA SearchIdle ==
    ASSUME SearchTyped, Searched, UNCHANGED searchVars
    PROVE  SearchTyped' /\ Searched'
<1>1. /\ files' = files /\ viewer' = viewer /\ present' = present /\ seen' = seen
      /\ grown' = grown
    BY DEF searchVars
<1>2. SearchTyped'
    BY <1>1 DEF SearchTyped, Filed
<1>3. All' = All /\ (Orderly' <=> Orderly)
    BY <1>1 DEF All, Hits, Orderly, UploadedInOrder
<1>4. \A e : Rank(e, All)' = Rank(e, All)
    BY <1>1, <1>3 DEF Rank, Newer, Time
<1>5. QED
    BY <1>1, <1>2, <1>3, <1>4 DEF Searched

(* admin-handler.ts:1304-1306, 1338-1387: a search that went to its last   *)
(* page has shown every entry that matched when it began, and showed none  *)
(* twice if no file came in between.                                       *)
THEOREM PagesMissNothingAlways == SearchSpec => []PagesMissNothing
<1>1. SearchInit => SearchTyped /\ Searched
    BY SearchBegins
<1>2. SearchTyped /\ Searched /\ [SearchNext]_searchVars => (SearchTyped /\ Searched)'
  <2> SUFFICES ASSUME SearchTyped, Searched, [SearchNext]_searchVars
               PROVE  SearchTyped' /\ Searched'
    OBVIOUS
  <2>1. CASE Upload
    BY <2>1, UploadStep
  <2>2. CASE Search
    BY <2>2, SearchStep
  <2>3. CASE NextPage
    BY <2>3, NextPageStep
  <2>4. CASE UNCHANGED searchVars
    BY <2>4, SearchIdle
  <2>5. QED
    BY <2>1, <2>2, <2>3, <2>4 DEF SearchNext
<1>3. SearchTyped /\ Searched => PagesMissNothing
  <2>1. SUFFICES ASSUME SearchTyped, Searched, viewer.searches > 0, ~viewer.doubtful, Orderly
                 PROVE  /\ ~viewer.on.hasMore => present \subseteq ToSet(seen)
                        /\ ~grown => IsInjective(seen)
    BY DEF PagesMissNothing, Orderly
  <2>2. QED
    BY <2>1 DEF Searched, IsInjective
<1>4. QED
    BY <1>1, <1>2, <1>3, PTL DEF SearchSpec

-----------------------------------------------------------------------------
(* The preflight page.                                                     *)

(* What the host answers to a check that is made.                          *)
RightFor(h, probe) ==
    CASE probe \in {"reachable"} -> TRUE
      [] probe = "discovery" -> h.is = "acumatica" /\ h.identity = "on"
      [] probe = "client" -> h.client
      [] probe \in {"tenant", "tenant with token"} -> h.tenant
      [] OTHER -> h.version

LEMMA RightIsForHost ==
    \A p : Right(p) = RightFor(host, p)
    BY DEF Right, RightFor

LEMMA ResponseFields ==
    \A number, says : /\ Response(number, says).code = number
                      /\ Response(number, says).says = says
    BY DEF Response

LEMMA PathChecked ==
    ASSUME NEW h, NEW exists \in BOOLEAN, NEW readable \in BOOLEAN, NEW token, NEW a,
           a = NoResponse \/ a = Response("500", "nothing") \/ a = Path(h, exists, readable, token)
    PROVE  /\ a.code = "200" => exists
           /\ a.code = "404" => ~exists
           /\ a.code = "none" => a = NoResponse
<1>1. CASE a = NoResponse \/ a = Response("500", "nothing")
    BY <1>1, ResponseFields DEF NoResponse
<1>2. CASE a = Path(h, exists, readable, token)
  <2>1. \/ a = Response("401", "nothing")
        \/ ~exists /\ a = Response("404", "nothing")
        \/ exists /\ (a = Response("403", "nothing") \/ a = Response("200", "nothing"))
    BY <1>2 DEF Path
  <2>2. QED
    BY <2>1, ResponseFields
<1>3. QED
    BY <1>1, <1>2

LEMMA ChecksAreHonest ==
    ASSUME NEW h, HostType(h), NEW p \in Probes, NEW a \in Answers(h, p)
    PROVE  /\ Status(p, a) = "pass" /\ (p = "discovery" \/ h.is = "acumatica") => RightFor(h, p)
           /\ Status(p, a) = "fail" /\ a # NoResponse /\ p # "discovery"
                /\ h.is = "acumatica" => ~RightFor(h, p)
<1>1. h.is \in {"acumatica", "page", "error page", "login page"}
      /\ h.client \in BOOLEAN /\ h.tenant \in BOOLEAN /\ h.version \in BOOLEAN /\ h.odata \in BOOLEAN
      /\ h.identity \in {"on", "no endpoint", "off"} /\ h.grant \in BOOLEAN
    BY DEF HostType
<1>a. \/ a = NoResponse \/ a = Response("500", "nothing")
      \/ h.is = "acumatica" /\ a = ByAcumatica(h, p)
      \/ h.is # "acumatica" /\ a = ByAnotherSite(h)
    BY DEF Answers
<1>2. CASE p = "reachable"
  <2>1. Status(p, a) = "fail" => a.code = "none"
    BY <1>2 DEF Status
  <2>2. h.is = "acumatica" => a = NoResponse \/ a.code # "none"
    BY <1>a, <1>2, ResponseFields DEF ByAcumatica
  <2>3. QED
    BY <1>2, <2>1, <2>2 DEF RightFor
<1>3. CASE p = "discovery"
  <2>1. Status(p, a) = "pass" => a.code = "200" /\ a.says = "token_endpoint"
    BY <1>3 DEF Status, DiscoveryStatus
  <2>2. ByAnotherSite(h).says = "html"
    BY ResponseFields DEF ByAnotherSite
  <2>3. h.is = "acumatica" /\ a = ByAcumatica(h, p) /\ h.identity # "on" =>
           a = Response("200", "json") \/ a = Response("404", "nothing")
    BY <1>1, <1>3 DEF ByAcumatica
  <2>4. a.says = "token_endpoint" => h.is = "acumatica" /\ h.identity = "on"
    BY <1>a, <2>2, <2>3, ResponseFields DEF NoResponse
  <2>5. QED
    BY <1>3, <2>1, <2>4 DEF RightFor
<1>4. CASE p = "client" /\ h.is = "acumatica"
  <2>1. \/ a = NoResponse \/ a = Response("500", "nothing") \/ a = Response("404", "nothing")
        \/ ~h.client /\ a = Response("400", "invalid_client")
        \/ h.client /\ (a = Response("400", "unauthorized_client") \/ a = Response("200", "json"))
    BY <1>1, <1>a, <1>4 DEF ByAcumatica
  <2>2. /\ ClientStatus(Response("500", "nothing")) = "warn" /\ ClientStatus(Response("404", "nothing")) = "warn"
        /\ ClientStatus(Response("400", "invalid_client")) = "fail"
        /\ ClientStatus(Response("400", "unauthorized_client")) = "pass"
        /\ ClientStatus(Response("200", "json")) = "pass"
        /\ ClientStatus(NoResponse) = "fail"
    BY ResponseFields DEF ClientStatus, NoResponse
  <2>3. QED
    BY <1>4, <2>1, <2>2 DEF RightFor, Status
<1>5. CASE p \in {"tenant", "version", "tenant with token", "version with token"}
           /\ h.is = "acumatica"
  <2>1. PICK exists \in BOOLEAN, readable \in BOOLEAN, token \in {"none", h.token} :
           /\ ByAcumatica(h, p) = Path(h, exists, readable, token)
           /\ RightFor(h, p) = exists
    <3>1. CASE p = "tenant"
        BY <1>1, <3>1 DEF ByAcumatica, RightFor
    <3>2. CASE p = "version"
        BY <1>1, <3>2 DEF ByAcumatica, RightFor
    <3>3. CASE p = "tenant with token"
        BY <1>1, <3>3 DEF ByAcumatica, RightFor
    <3>4. CASE p = "version with token"
        BY <1>1, <3>4 DEF ByAcumatica, RightFor
    <3>5. QED
        BY <1>5, <3>1, <3>2, <3>3, <3>4
  <2>2. /\ a.code = "200" => exists
        /\ a.code = "404" => ~exists
        /\ a.code = "none" => a = NoResponse
    BY <1>a, <1>5, <2>1, PathChecked
  <2>3. /\ Status(p, a) = "pass" => a.code = "200"
        /\ Status(p, a) = "fail" => a.code = "404" \/ a.code = "none"
    BY <1>5 DEF Status, PathStatus, PathStatusWithToken
  <2>4. QED
    BY <1>5, <2>1, <2>2, <2>3
<1>6. QED
    BY <1>2, <1>3, <1>4, <1>5 DEF Probes, Unauthenticated, Authenticated

LEMMA RowsOfProbes ==
    ASSUME NEW probes \in SUBSET Probes, host' \in Hosts, Probe(probes), NEW p \in probes
    PROVE  /\ shown'[p] = "pass" /\ (p = "discovery" \/ host'.is = "acumatica") =>
                RightFor(host', p)
           /\ shown'[p] = "fail" /\ p \notin unreachable' \union {"discovery"}
                /\ host'.is = "acumatica" => ~RightFor(host', p)
<1>1. PICK answer \in [Asked(probes) -> UNION {Answers(host', q) : q \in Asked(probes)}] :
         /\ \A q \in Asked(probes) : answer[q] \in Answers(host', q)
         /\ shown' = [q \in DOMAIN shown \union probes |->
                        IF q \in Asked(probes) THEN Status(q, answer[q])
                        ELSE IF q \in probes THEN "skip" ELSE shown[q]]
         /\ unreachable' =
              (unreachable \ probes) \union {q \in Asked(probes) : answer[q] = NoResponse}
    BY DEF Probe
<1>2. CASE p \in Asked(probes)
  <2>1. shown'[p] = Status(p, answer[p]) /\ answer[p] \in Answers(host', p)
    BY <1>1, <1>2
  <2>2. p \notin unreachable' => answer[p] # NoResponse
    BY <1>1, <1>2
  <2>3. HostType(host')
    BY HostAssumption
  <2>4. QED
    BY <2>1, <2>2, <2>3, ChecksAreHonest
<1>3. CASE p \notin Asked(probes)
    BY <1>1, <1>3
<1>4. QED
    BY <1>2, <1>3

(* Every row that is shown is honest, and no other row was touched.        *)
HonestPage ==
    /\ DOMAIN shown \subseteq Probes
    /\ host = NoHost => DOMAIN shown = {}
    /\ host # NoHost =>
         /\ host \in Hosts /\ "discovery" \in DOMAIN shown
         /\ \A p \in DOMAIN shown :
              /\ shown[p] = "pass" /\ (p = "discovery" \/ host.is = "acumatica") =>
                   RightFor(host, p)
              /\ shown[p] = "fail" /\ p \notin unreachable \union {"discovery"}
                   /\ host.is = "acumatica" => ~RightFor(host, p)

LEMMA HonestNext == HonestPage /\ [PreflightNext]_preflightVars => HonestPage'
<1> SUFFICES ASSUME HonestPage, [PreflightNext]_preflightVars PROVE HonestPage'
    OBVIOUS
<1>1. CASE UNCHANGED preflightVars
    BY <1>1 DEF HonestPage, preflightVars
<1>2. ASSUME NEW probes \in SUBSET Probes, host' \in Hosts, host' # NoHost, Probe(probes),
             "discovery" \in DOMAIN shown \union probes,
             host # NoHost => host' = host
      PROVE  HonestPage'
  <2>1. /\ DOMAIN shown' = DOMAIN shown \union probes
        /\ \A p \in DOMAIN shown \ probes : shown'[p] = shown[p]
        /\ \A p \in DOMAIN shown \ probes : p \in unreachable => p \in unreachable'
    BY <1>2 DEF Probe, Asked
  <2>2. \A p \in DOMAIN shown \ probes : host # NoHost
    BY DEF HonestPage
  <2>3. \A p \in probes :
           /\ shown'[p] = "pass" /\ (p = "discovery" \/ host'.is = "acumatica") =>
                RightFor(host', p)
           /\ shown'[p] = "fail" /\ p \notin unreachable' \union {"discovery"}
                /\ host'.is = "acumatica" => ~RightFor(host', p)
    BY <1>2, RowsOfProbes
  <2>4. QED
    BY <1>2, <2>1, <2>2, <2>3 DEF HonestPage
<1>3. CASE RunPreflight
  <2>1. host' # NoHost
    <3>1. host'.is \in {"acumatica", "page", "error page", "login page"}
        BY <1>3, HostAssumption DEF RunPreflight, HostType
    <3>2. NoHost.is = "none"
        BY DEF NoHost
    <3>3. QED
        BY <3>1, <3>2
  <2>2. {"reachable"} \union Unauthenticated \in SUBSET Probes
        /\ "discovery" \in {"reachable"} \union Unauthenticated
    BY DEF Probes, Unauthenticated
  <2>3. host' \in Hosts /\ Probe({"reachable"} \union Unauthenticated) /\ host = NoHost
    BY <1>3 DEF RunPreflight
  <2>4. QED
    BY <1>2, <2>1, <2>2, <2>3
<1>4. CASE RunAuthenticatedChecks
  <2>1. PICK probes \in {Authenticated, {"tenant with token"}} : Probe(probes)
    BY <1>4 DEF RunAuthenticatedChecks
  <2>2. probes \in SUBSET Probes
    BY DEF Probes, Authenticated
  <2>3. host # NoHost /\ host' = host /\ host \in Hosts /\ "discovery" \in DOMAIN shown
    BY <1>4 DEF RunAuthenticatedChecks, HonestPage
  <2>4. QED
    BY <1>2, <2>1, <2>2, <2>3
<1>5. QED
    BY <1>1, <1>3, <1>4 DEF PreflightNext

(* preflight.ts:225-229, 256-259: what a check of the preflight page       *)
(* passes is right and what it fails is wrong, for any hosts that answer   *)
(* as Preflight says hosts do.                                             *)
THEOREM PreflightHonestAlways == PreflightSpec => []PreflightHonest
<1>1. PreflightInit => HonestPage
    BY DEF PreflightInit, HonestPage, Probes
<1>2. HonestPage => PreflightHonest
  <2>1. SUFFICES ASSUME HonestPage, NEW p \in DOMAIN shown
                 PROVE  /\ shown[p] = "pass" /\ shown["discovery"] = "pass" => Right(p)
                        /\ shown[p] = "fail" /\ p \notin unreachable \union {"discovery"}
                             /\ host.is = "acumatica" => ~Right(p)
    BY DEF PreflightHonest
  <2>2. host # NoHost
    BY <2>1 DEF HonestPage
  <2>3. shown["discovery"] = "pass" => host.is = "acumatica"
    BY <2>1, <2>2 DEF HonestPage, RightFor
  <2>4. QED
    BY <2>1, <2>2, <2>3, RightIsForHost DEF HonestPage
<1>3. QED
    BY <1>1, <1>2, HonestNext, PTL DEF PreflightSpec

-----------------------------------------------------------------------------
(* Lists of entities.                                                      *)

LEMMA OnlyOf ==
    ASSUME NEW S \in SUBSET Nat, S # {}, \A m, n \in S : m = n
    PROVE  Max(S) \in Nat
<1>1. PICK x \in S : TRUE
    OBVIOUS
<1>2. \A y \in S : x >= y
    OBVIOUS
<1>3. Max(S) \in S
    BY <1>2 DEF Max
<1>4. QED
    BY <1>3

LEMMA TopIsNatural ==
    ASSUME NEW l, ListType(l), NEW top, top = Top(l)
    PROVE  top \in Nat
<1>1. (IF l.topN = {} THEN DefaultRows ELSE Max(l.topN)) \in Nat
    BY ListAssumption, OnlyOf DEF ListType
<1>2. l.maxRows \in Nat
    BY DEF ListType
<1>3. QED
    BY <1>1, <1>2, SmallerOfTwo DEF Top

LEMMA ReplyFields ==
    /\ \A why : Failed(why).kind = "error"
    /\ \A rows, word : /\ RowsWith(rows, word).kind = "rows" /\ RowsWith(rows, word).rows = rows
                       /\ RowsWith(rows, word).word = word
    BY DEF Failed, RowsWith

LEMMA BareListIsComplete ==
    ASSUME NEW l, ListType(l), DropsAsDocumented(l), ~Unrepaired(l),
           ListEntities(l).kind = "rows", ListEntities(l).word = "none"
    PROVE  ListEntities(l).rows = l.matching
<1> DEFINE rows == Served(l, Top(l))
<1>1. AfterFailure(l).kind = "error" \/ AfterFailure(l).word = "unselected"
    BY ReplyFields DEF AfterFailure
<1>2. /\ ListEntities(l) = RowsWith(rows, "none") /\ ~Full(rows, Top(l))
      /\ ~(/\ l.entity \in {"keyed", "keyless"} /\ rows = 0
           /\ l.filter # NoFilter /\ ~KeyedFilter(l))
  <2> HIDE DEF rows
  <2>1. \/ ListEntities(l) = AfterFailure(l)
        \/ \E why : ListEntities(l) = Failed(why)
        \/ ListEntities(l) = RowsWith(0, "possible_miss")
        \/ ListEntities(l) = RowsWith(rows, "truncated")
        \/ /\ ListEntities(l) = RowsWith(rows, "none") /\ ~Full(rows, Top(l))
           /\ ~(/\ l.entity \in {"keyed", "keyless"} /\ rows = 0
                /\ l.filter # NoFilter /\ ~KeyedFilter(l))
    BY DEF ListEntities, rows
  <2>2. ListEntities(l) # AfterFailure(l)
    BY <1>1
  <2>3. \A why : ListEntities(l) # Failed(why)
    BY ReplyFields
  <2>4. \A n : ListEntities(l) # RowsWith(n, "possible_miss")
    BY ReplyFields
  <2>5. ListEntities(l) # RowsWith(rows, "truncated")
    BY ReplyFields
  <2>6. QED
    BY <2>1, <2>2, <2>3, <2>4, <2>5
<1>3. ~ComparesFunction(Normal(l.filter)) /\ ~l.drops
    BY <1>2 DEF DropsAsDocumented, Unrepaired, Served
<1>4. rows = Min({l.matching, Top(l)}) /\ l.matching \in Nat /\ Top(l) \in Nat
    BY <1>3, TopIsNatural DEF Served, ListType
<1>5. rows = l.matching
    BY <1>2, <1>4, SmallerOfTwo DEF Full
<1>6. QED
    BY <1>2, <1>5, ReplyFields

LEMMA ListCompleteAlways == ListSpec => []ListComplete
<1>1. ListInit => ListComplete
    BY DEF ListInit, ListComplete, Nothing
<1>2. ListComplete /\ [CallList]_listVars => ListComplete'
  <2>1. ASSUME CallList PROVE ListComplete'
    <3>1. ListType(list') /\ listed' = ListEntities(list')
        BY <2>1, ListAssumption DEF CallList
    <3>2. QED
        BY <3>1, BareListIsComplete DEF ListComplete
  <2>2. QED
    BY <2>1 DEF listVars, ListComplete
<1>3. QED
    BY <1>1, <1>2, PTL DEF ListSpec

-----------------------------------------------------------------------------
(* Inquiries.                                                              *)

LEMMA LargestUpTo ==
    ASSUME NEW n \in Nat, NEW S \in SUBSET (1..n), S # {}
    PROVE  Max(S) \in S /\ \A y \in S : y <= Max(S)
<1> DEFINE T == {m \in Nat : \A y \in S : y <= m}
<1>1. PICK m \in T : \A k \in T : m <= k
  <2>1. n \in T
    OBVIOUS
  <2>2. QED
    BY <2>1, LeastNatural
<1>2. m \in S
  <2>1. SUFFICES ASSUME m \notin S PROVE FALSE
    OBVIOUS
  <2>2. m - 1 \in T
    <3>1. \A y \in S : y <= m - 1
        BY <2>1
    <3>2. m # 0
      <4>1. PICK y \in S : TRUE
        OBVIOUS
      <4>2. y \in 1..n /\ y <= m
        BY <1>1
      <4>3. QED
        BY <4>2
    <3>3. QED
        BY <3>1, <3>2
  <2>3. QED
    BY <1>1, <2>2
<1>3. \A y \in S : m >= y
    OBVIOUS
<1>4. Max(S) \in S /\ \A y \in S : Max(S) >= y
    BY <1>2, <1>3 DEF Max
<1>5. QED
    BY <1>4

LEMMA InquiryTop ==
    ASSUME NEW w, WorldType(w)
    PROVE  EffectiveTop(w) \in Nat
<1>1. (IF w.topN = {} THEN DefaultTop ELSE Max(w.topN)) \in Nat
    BY InquiryAssumption, OnlyOf DEF WorldType
<1>2. QED
    BY <1>1, SmallerOfTwo DEF EffectiveTop, WorldType

(* The reply with rows is of an allowed inquiry and says by which plan.    *)
LEMMA RowsReplied ==
    ASSUME NEW w, RunReply(w).kind = "rows"
    PROVE  /\ Allowed(w, w.asked)
           /\ RunReply(w).plan = Plan(w, w.asked)
           /\ RunReply(w).plan.kind # "refused"
           /\ RunReply(w).rows = Min({w.matching, EffectiveTop(w)})
           /\ RunReply(w).truncated = Truncated(w, RunReply(w).rows)
<1> DEFINE plan == Plan(w, w.asked)
           rows == Min({w.matching, EffectiveTop(w)})
           handed == [kind |-> "rows", plan |-> plan, rows |-> rows,
                      truncated |-> Truncated(w, rows)]
           nothing == [kind |-> "error"]
<1>1. \A why : Refusal(why).kind = "refused"
    BY DEF Refusal
<1>2. nothing.kind = "error"
    OBVIOUS
<1>3. /\ handed.plan = plan /\ handed.rows = rows /\ handed.truncated = Truncated(w, rows)
    OBVIOUS
<1>4. \/ \E why : RunReply(w) = Refusal(why)
      \/ plan.kind = "refused" /\ RunReply(w) = plan
      \/ RunReply(w) = nothing
      \/ Allowed(w, w.asked) /\ plan.kind # "refused" /\ RunReply(w) = handed
  <2> HIDE DEF plan, rows, handed, nothing
  <2>1. Answer404(plan) = nothing \/ \E why : Answer404(plan) = Refusal(why)
    BY DEF Answer404, nothing
  <2>2. QED
    BY <2>1 DEF RunReply, plan, rows, handed, nothing
<1>5. QED
  <2> HIDE DEF plan, rows, handed, nothing
  <2> QED
    BY <1>1, <1>2, <1>3, <1>4 DEF plan, rows

LEMMA InquiryCompleteAlways == InquirySpec => []InquiryComplete
<1>1. InquiryInit => InquiryComplete
    BY DEF InquiryInit, InquiryComplete
<1>2. InquiryComplete /\ [InquiryNext]_inquiryVars => InquiryComplete'
  <2>1. ASSUME RunInquiry PROVE InquiryComplete'
    <3>1. WorldType(world') /\ reply' = RunReply(world')
        BY <2>1, InquiryAssumption DEF RunInquiry
    <3>2. SUFFICES ASSUME reply'.kind = "rows", ~reply'.truncated
                   PROVE  reply'.rows = world'.matching
        BY DEF InquiryComplete
    <3>3. reply'.rows = Min({world'.matching, EffectiveTop(world')})
          /\ ~Truncated(world', reply'.rows)
        BY <3>1, <3>2, RowsReplied
    <3>4. world'.matching \in Nat /\ EffectiveTop(world') \in Nat
        BY <3>1, InquiryTop DEF WorldType
    <3>5. QED
        BY <3>3, <3>4, SmallerOfTwo DEF Truncated
  <2>2. ASSUME DescribeInquiry \/ ListInquiries PROVE InquiryComplete'
    BY <2>2 DEF DescribeInquiry, ListInquiries, InquiryComplete
  <2>3. QED
    BY <2>1, <2>2 DEF InquiryNext, inquiryVars, InquiryComplete
<1>3. QED
    BY <1>1, <1>2, PTL DEF InquirySpec

(* What resolveGiRouting has found when it refuses nothing.                *)
LEMMA RouteFound ==
    ASSUME NEW w, NEW name
    PROVE  /\ Routing(w, name) = "plain" =>
                w.metadata.read /\ Named(w, name) = {} /\ ~Recorded(w, name)
           /\ Routing(w, name) = "function" =>
                /\ w.metadata.read /\ Named(w, name) # {}
                /\ \A f \in Named(w, name) : w.metadata.functions[f].parsed
    BY DEF Routing

LEMMA NamedAlike ==
    ASSUME NEW w, NEW name
    PROVE  /\ Named(w, name) \subseteq DOMAIN w.metadata.functions
           /\ \A f \in Named(w, name) : Alike(f, name)
           /\ name \in DOMAIN w.metadata.functions => Named(w, name) = {name}
           /\ \A f \in DOMAIN w.metadata.functions : Alike(f, name) => Named(w, name) # {}
    BY DEF Named, Alike

(* An inquiry that is found to take no parameters takes none.              *)
LEMMA PlainTakesNone ==
    ASSUME NEW w, NEW name, Current(w, name), Named(w, name) = {}, ~Recorded(w, name)
    PROVE  MeantBy(w, name) = {}
<1>1. \A n \in MeantBy(w, name) : n \in DOMAIN w.metadata.functions
    BY DEF Current
<1>2. \A n \in MeantBy(w, name) : Alike(n, name)
    BY DEF MeantBy, Alike
<1>3. QED
    BY <1>1, <1>2, NamedAlike

(* The function that is run is one that the name stands for.               *)
LEMMA FunctionIsMeant ==
    ASSUME NEW w, NEW name, Current(w, name), Routing(w, name) = "function",
           NEW f, f = CHOOSE g \in Named(w, name) : TRUE
    PROVE  /\ f \in DOMAIN w.takes /\ w.metadata.functions[f] = w.takes[f]
           /\ f \in DOMAIN w.metadata.functions /\ Alike(f, name)
           /\ MeantBy(w, name) \subseteq DOMAIN w.metadata.functions => f \in MeantBy(w, name)
<1>1. w.metadata.read /\ f \in Named(w, name) /\ w.metadata.functions[f].parsed
    BY RouteFound
<1>2. f \in DOMAIN w.takes /\ w.metadata.functions[f] = w.takes[f]
    BY <1>1 DEF Current
<1>3. f \in DOMAIN w.metadata.functions /\ Alike(f, name)
    BY <1>1, NamedAlike
<1>4. MeantBy(w, name) \subseteq DOMAIN w.metadata.functions => f \in MeantBy(w, name)
  <2>1. CASE name \in DOMAIN w.takes
    BY <1>1, <2>1, NamedAlike DEF MeantBy
  <2>2. CASE name \notin DOMAIN w.takes
    BY <1>2, <1>3, <2>2 DEF MeantBy
  <2>3. QED
    BY <2>1, <2>2
<1>5. QED
    BY <1>2, <1>3, <1>4

(* The parameter that a member of `parameters' is for.                     *)
LEMMA ParamForFits ==
    ASSUME NEW params \in Seq(Params), NEW member,
           \A i \in DOMAIN params : params[i].name = member.name => params[i].low = member.low,
           ParamFor(params, member) # 0
    PROVE  LET i == ParamFor(params, member)
           IN  /\ i \in DOMAIN params /\ params[i].low = member.low
               /\ \A j \in DOMAIN params : params[j].name = member.name =>
                     params[i].name = member.name
<1> DEFINE exact == {i \in DOMAIN params : params[i].name = member.name}
           folded == {i \in DOMAIN params : params[i].low = member.low}
<1>1. DOMAIN params = 1..Len(params) /\ Len(params) \in Nat
    OBVIOUS
<1>2. CASE exact # {}
  <2>1. Max(exact) \in exact
    BY <1>1, <1>2, LargestUpTo
  <2>2. ParamFor(params, member) = Max(exact)
    BY <1>2 DEF ParamFor
  <2>3. QED
    BY <2>1, <2>2
<1>3. CASE exact = {} /\ folded # {}
  <2>1. Max(folded) \in folded
    BY <1>1, <1>3, LargestUpTo
  <2>2. ParamFor(params, member) = Max(folded)
    BY <1>3 DEF ParamFor
  <2>3. QED
    BY <1>3, <2>1, <2>2
<1>4. QED
    BY <1>2, <1>3 DEF ParamFor

LEMMA OnlyMax ==
    ASSUME NEW n \in Nat, NEW k \in 1..n
    PROVE  Max({k}) = k
    BY DEF Max

(* What validateGiParameters lets through.                                 *)
LEMMA ValidatedApplies ==
    ASSUME NEW params \in Seq(Params), NEW arg \in Arguments,
           \A k \in DOMAIN arg.members, i \in DOMAIN params :
              params[i].name = arg.members[k].name => params[i].low = arg.members[k].low,
           NEW plan, plan = Validated(params, arg), plan.kind # "refused"
    PROVE  plan.kind = "function" /\ AppliedAsGiven(plan, params, arg.members)
<1> DEFINE given == arg.members
           wrong == {k \in DOMAIN given : Problem(params, given, k) # "none"}
           supplied == {i \in DOMAIN params : SuppliedTo(params, given, i) # {}}
           value(i) == Max(SuppliedTo(params, given, i))
           ready == [kind |-> "function", applied |-> [i \in supplied |-> value(i)],
                     defaulted |-> DOMAIN params \ supplied]
<1>1. given \in Seq(Members) /\ DOMAIN given = 1..Len(given) /\ Len(given) \in Nat
  <2>1. given \in Seq(Members)
    BY DEF Arguments
  <2> HIDE DEF given
  <2>2. QED
    BY <2>1
<1>2. /\ plan = ready /\ wrong = {}
      /\ \A i \in DOMAIN params : params[i].required => i \in supplied
      /\ \A i \in supplied : params[i].type \in given[value(i)].fits
  <2>1. \A why : Refusal(why).kind = "refused"
    BY DEF Refusal
  <2>2. \/ \E why : plan = Refusal(why)
        \/ /\ plan = ready /\ wrong = {}
           /\ \A i \in DOMAIN params : params[i].required => i \in supplied
           /\ \A i \in supplied : params[i].type \in given[value(i)].fits
    BY DEF Validated
  <2>3. QED
    BY <2>1, <2>2
<1>3. \A k \in DOMAIN given :
         /\ ParamFor(params, given[k]) # 0
         /\ \A j \in 1..k - 1 : ParamFor(params, given[j]) # ParamFor(params, given[k])
  <2>1. \A k \in DOMAIN given : Problem(params, given, k) = "none"
    BY <1>2
  <2>2. QED
    BY <2>1 DEF Problem
<1>4. \A j, k \in DOMAIN given : ParamFor(params, given[j]) = ParamFor(params, given[k]) => j = k
  <2>1. \A j, k \in DOMAIN given : j < k => j \in 1..k - 1
    BY <1>1
  <2>2. \A j, k \in DOMAIN given : j < k => ParamFor(params, given[j]) # ParamFor(params, given[k])
    BY <1>3, <2>1
  <2>3. QED
    BY <1>1, <2>2
<1>5. ASSUME NEW k \in DOMAIN given, given[k].form = "scalar"
      PROVE  LET i == ParamFor(params, given[k])
             IN  i \in supplied /\ SuppliedTo(params, given, i) = {k} /\ value(i) = k
  <2>1. ParamFor(params, given[k]) \in DOMAIN params
    BY <1>3, ParamForFits
  <2>2. SuppliedTo(params, given, ParamFor(params, given[k])) = {k}
    BY <1>4, <1>5 DEF SuppliedTo
  <2>3. QED
    BY <1>1, <2>1, <2>2, OnlyMax
<1>6. ASSUME NEW i \in supplied
      PROVE  value(i) \in DOMAIN given /\ given[value(i)].form = "scalar"
             /\ ParamFor(params, given[value(i)]) = i
  <2>1. PICK k \in DOMAIN given : given[k].form = "scalar" /\ ParamFor(params, given[k]) = i
    BY DEF SuppliedTo
  <2>2. value(i) = k
    BY <1>5, <2>1
  <2>3. QED
    BY <2>1, <2>2
<1> HIDE DEF supplied, value, wrong
<1>7. /\ plan.kind = "function" /\ plan.applied = [i \in supplied |-> value(i)]
      /\ plan.defaulted = DOMAIN params \ supplied
    BY <1>2
<1>8. Range(plan.applied) = {k \in DOMAIN given : given[k].form = "scalar"}
    BY <1>5, <1>6, <1>7 DEF Range
<1>9. supplied \subseteq DOMAIN params
    BY DEF supplied
<1>10. ASSUME NEW i \in supplied
       PROVE  /\ params[i].type \in given[value(i)].fits
              /\ params[i].low = given[value(i)].low
              /\ \A j \in DOMAIN params : params[j].name = given[value(i)].name =>
                    params[i].name = given[value(i)].name
  <2>1. value(i) \in DOMAIN given /\ ParamFor(params, given[value(i)]) = i
    BY <1>6
  <2> DEFINE member == given[value(i)]
  <2>2. ParamFor(params, member) = i /\ i # 0
    BY <1>3, <2>1
  <2>3. \A j \in DOMAIN params : params[j].name = member.name => params[j].low = member.low
    BY <2>1
  <2>4. params[i].type \in member.fits
    BY <1>2
  <2> HIDE DEF member, given
  <2>5. /\ params[i].low = member.low
        /\ \A j \in DOMAIN params : params[j].name = member.name =>
              params[i].name = member.name
    BY <2>2, <2>3, ParamForFits
  <2>6. QED
    BY <2>4, <2>5 DEF member
<1>11. \A i \in DOMAIN params : params[i].required => i \in supplied
    BY <1>2
<1> HIDE DEF ready
<1>12. AppliedAsGiven(plan, params, given)
  <2> DEFINE applied == plan.applied
  <2>1. DOMAIN applied = supplied /\ \A i \in supplied : applied[i] = value(i)
    BY <1>7
  <2>2. Range(applied) = {k \in DOMAIN given : given[k].form = "scalar"}
    BY <1>8
  <2>3. supplied \union plan.defaulted = DOMAIN params
    BY <1>7, <1>9
  <2>4. \A i \in supplied :
           /\ params[i].type \in given[applied[i]].fits
           /\ params[i].low = given[applied[i]].low
           /\ \A j \in DOMAIN params : params[j].name = given[applied[i]].name =>
                 params[i].name = given[applied[i]].name
    BY <1>10, <2>1
  <2> HIDE DEF given
  <2>5. QED
    BY <1>11, <2>1, <2>2, <2>3, <2>4 DEF AppliedAsGiven
<1>13. QED
    BY <1>7, <1>12

(* A run with rows of an inquiry that the copies are right about.          *)
LEMMA RunNeverUnfiltered ==
    ASSUME NEW w, WorldType(w), RunReply(w).kind = "rows", Current(w, w.asked)
    PROVE  LET meant == MeantBy(w, w.asked)
           IN  IF meant # {}
               THEN /\ RunReply(w).plan.kind = "function"
                    /\ \E n \in DOMAIN w.takes :
                          /\ Alike(n, w.asked)
                          /\ meant \subseteq DOMAIN w.metadata.functions => n \in meant
                          /\ AppliedAsGiven(RunReply(w).plan, w.takes[n].params, w.arg.members)
               ELSE RunReply(w).plan.kind = "plain" => ~CarriesValues(w.arg)
<1> DEFINE plan == Plan(w, w.asked)
           unmarked == [kind |-> "plain"]
<1>1. RunReply(w).plan = plan /\ plan.kind # "refused"
    BY RowsReplied
<1>2. \A why : Refusal(why).kind = "refused"
    BY DEF Refusal
<1>3. unmarked.kind = "plain"
    OBVIOUS
<1>4. \/ /\ Routing(w, w.asked) = "function"
         /\ plan = Validated(ParamsOf(w, w.asked), w.arg)
      \/ /\ Routing(w, w.asked) = "plain" /\ plan = unmarked /\ ~CarriesValues(w.arg)
  <2> HIDE DEF unmarked
  <2>1. \/ \E why : plan = Refusal(why)
        \/ /\ Routing(w, w.asked) = "function"
           /\ plan = Validated(ParamsOf(w, w.asked), w.arg)
        \/ /\ Routing(w, w.asked) = "plain" /\ plan = unmarked /\ ~CarriesValues(w.arg)
    BY DEF Plan, unmarked
  <2>2. QED
    BY <1>1, <1>2, <2>1
<1>5. CASE Routing(w, w.asked) = "plain" /\ plan = unmarked /\ ~CarriesValues(w.arg)
  <2>1. MeantBy(w, w.asked) = {}
    BY <1>5, RouteFound, PlainTakesNone
  <2>2. QED
    BY <1>1, <1>3, <1>5, <2>1
<1>6. CASE /\ Routing(w, w.asked) = "function"
           /\ plan = Validated(ParamsOf(w, w.asked), w.arg)
  <2> DEFINE f == CHOOSE g \in Named(w, w.asked) : TRUE
             params == w.takes[f].params
  <2>1. /\ f \in DOMAIN w.takes /\ w.metadata.functions[f] = w.takes[f]
        /\ f \in DOMAIN w.metadata.functions /\ Alike(f, w.asked)
        /\ MeantBy(w, w.asked) \subseteq DOMAIN w.metadata.functions =>
              f \in MeantBy(w, w.asked)
    BY <1>6, FunctionIsMeant
  <2>2. ParamsOf(w, w.asked) = params
    BY <2>1 DEF ParamsOf
  <2> HIDE DEF f
  <2>3. params \in Seq(Params)
    BY <2>1 DEF WorldType, Described, Functions
  <2>4. w.arg \in Arguments
    BY DEF WorldType
  <2>5. \A k \in DOMAIN w.arg.members, i \in DOMAIN params :
           params[i].name = w.arg.members[k].name => params[i].low = w.arg.members[k].low
    BY <2>1 DEF WorldType
  <2>6. plan.kind = "function" /\ AppliedAsGiven(plan, params, w.arg.members)
    <3> HIDE DEF plan
    <3>1. plan = Validated(params, w.arg) /\ plan.kind # "refused"
        BY <1>1, <1>6, <2>2
    <3>2. QED
        BY <2>3, <2>4, <2>5, <3>1, ValidatedApplies
  <2>7. QED
    BY <1>1, <2>1, <2>6
<1>7. QED
    BY <1>4, <1>5, <1>6

(* A sample that is taken by the plain path, or kept for all, is of an     *)
(* inquiry without parameters.                                             *)
LEMMA DescribeNeverUnfiltered ==
    ASSUME NEW w, DescribeReply(w).kind = "schema", Current(w, w.asked),
           MeantBy(w, w.asked) # {}
    PROVE  DescribeReply(w).sampled # "plain" /\ ~DescribeReply(w).caches
<1> DEFINE routing == Routing(w, w.asked)
           sampled(by, cache) == [kind |-> "schema", sampled |-> by, caches |-> cache]
           nothing == [kind |-> "error"]
<1>1. routing # "plain"
    BY RouteFound, PlainTakesNone
<1>2. \A why : Refusal(why).kind = "refused"
    BY DEF Refusal
<1>3. nothing.kind = "error"
    OBVIOUS
<1>4. \A by, cache : sampled(by, cache).sampled = by /\ sampled(by, cache).caches = cache
    OBVIOUS
<1>5. \/ \E why : DescribeReply(w) = Refusal(why)
      \/ DescribeReply(w) = nothing
      \/ \E by \in {"no request", "no row", "function"} : DescribeReply(w) = sampled(by, FALSE)
  <2> HIDE DEF sampled, nothing
  <2> QED
    BY <1>1 DEF DescribeReply, sampled, nothing
<1> HIDE DEF sampled, nothing
<1>6. DescribeReply(w) # nothing /\ \A why : DescribeReply(w) # Refusal(why)
    BY <1>2, <1>3
<1>7. PICK by \in {"no request", "no row", "function"} : DescribeReply(w) = sampled(by, FALSE)
    BY <1>5, <1>6
<1>8. QED
    BY <1>4, <1>7

(* What the menu offers, and what it leaves out while parameters are off.  *)
LEMMA MenuNeverUnfiltered ==
    ASSUME NEW w, NEW served, NEW name \in ListReply(w, served).names
    PROVE  /\ Allowed(w, name)
           /\ ~w.enabled /\ Current(w, name) => MeantBy(w, name) = {}
<1> DEFINE menu(names) == [kind |-> "menu", names |-> names]
<1>1. \A names : menu(names).names = names
    OBVIOUS
<1>2. /\ name.id \notin Excluded /\ name \in DOMAIN w.registry.params
      /\ w.enabled \/ ~Parameterized(w, name)
  <2> DEFINE offered == {n \in served :
                          /\ n.id \notin Excluded
                          /\ n \in DOMAIN w.registry.params
                          /\ w.enabled \/ ~Parameterized(w, n)}
  <2>1. ListReply(w, served) = menu({}) \/ ListReply(w, served) = menu(offered)
    BY DEF ListReply
  <2>2. name \in offered
    <3> HIDE DEF menu, offered
    <3> QED
        BY <1>1, <2>1
  <2>3. QED
    BY <2>2
<1>3. ASSUME ~w.enabled, Current(w, name) PROVE MeantBy(w, name) = {}
  <2>1. ~(w.metadata.read /\ Named(w, name) # {}) /\ ~Recorded(w, name)
    BY <1>2, <1>3 DEF Parameterized
  <2>2. \A n \in MeantBy(w, name) : w.metadata.read /\ n \in DOMAIN w.metadata.functions
    BY <1>3, <2>1 DEF Current
  <2>3. \A n \in MeantBy(w, name) : Alike(n, name)
    BY DEF MeantBy, Alike
  <2>4. QED
    BY <2>1, <2>2, <2>3, NamedAlike
<1>4. QED
    BY <1>2, <1>3 DEF Allowed

(* gi-parameters.ts:444-458: no tool queries an inquiry that takes         *)
(* parameters by its plain path, or applies a value that was given to      *)
(* another parameter than its own, for any inquiries, copies of $metadata, *)
(* registries and arguments - if the copies are right about the inquiry.   *)
THEOREM NeverUnfilteredAlways == InquirySpec => []NeverUnfiltered
<1>1. InquiryInit => NeverUnfiltered
    BY DEF InquiryInit, NeverUnfiltered
<1>2. NeverUnfiltered /\ [InquiryNext]_inquiryVars => NeverUnfiltered'
  <2>1. ASSUME RunInquiry PROVE NeverUnfiltered'
    <3>1. WorldType(world') /\ reply' = RunReply(world') /\ tool' = "run"
        BY <2>1, InquiryAssumption DEF RunInquiry
    <3>2. QED
        BY <3>1, RunNeverUnfiltered DEF NeverUnfiltered
  <2>2. ASSUME DescribeInquiry PROVE NeverUnfiltered'
    <3>1. reply' = DescribeReply(world') /\ tool' = "describe"
        BY <2>2 DEF DescribeInquiry
    <3>2. QED
        BY <3>1, DescribeNeverUnfiltered DEF NeverUnfiltered
  <2>3. ASSUME ListInquiries PROVE NeverUnfiltered'
    <3>1. tool' = "list" /\ \E served : reply' = ListReply(world', served)
        BY <2>3 DEF ListInquiries
    <3>2. QED
        BY <3>1, MenuNeverUnfiltered DEF NeverUnfiltered
  <2>4. QED
    BY <2>1, <2>2, <2>3 DEF InquiryNext, inquiryVars, NeverUnfiltered
<1>3. QED
    BY <1>1, <1>2, PTL DEF InquirySpec

-----------------------------------------------------------------------------
(* The parts together.                                                     *)

(* Every behaviour of the parts in one isolate is, seen from any one of    *)
(* them, a behaviour of that part alone: they share no state.              *)
THEOREM EachPartAlone ==
    MCSpec => /\ LoginSpec /\ AdminSpec /\ SearchSpec /\ PreflightSpec
              /\ AlignSpec /\ InquirySpec /\ ListSpec
<1> USE DEF MCSpec
<1> DEFINE allVars == <<part, loginVars, adminVars, decisionVars>>
<1>1. MCInit => /\ LoginInit /\ AdminInit /\ SearchInit /\ PreflightInit
                /\ AlignInit /\ InquiryInit /\ ListInit
    BY DEF MCInit
<1>2. [MCNext]_allVars => [LoginNext]_loginVars
    BY DEF MCNext, Rest
<1>3. [MCNext]_allVars => [AdminNext]_adminVars
    BY DEF MCNext, Rest
<1>4. [MCNext]_allVars => [SearchNext]_searchVars
    BY DEF MCNext, decisionVars, Rest
<1>5. [MCNext]_allVars => [PreflightNext]_preflightVars
    BY DEF MCNext, decisionVars, Rest
<1>6. [MCNext]_allVars => [BuildFields]_alignVars
    BY DEF MCNext, decisionVars, Rest
<1>7. [MCNext]_allVars => [InquiryNext]_inquiryVars
    BY DEF MCNext, decisionVars, Rest
<1>8. [MCNext]_allVars => [CallList]_listVars
    BY DEF MCNext, decisionVars, Rest
<1>9. QED
    BY <1>1, <1>2, <1>3, <1>4, <1>5, <1>6, <1>7, <1>8, PTL
    DEF LoginSpec, AdminSpec, SearchSpec, PreflightSpec, AlignSpec, InquirySpec, ListSpec

(* generic-inquiries.ts:203-239 and entity-list.ts:193-238: a tool that    *)
(* hands rows to the model without a word of doubt hands it every row.     *)
THEOREM BareRowsCompleteAlways == MCSpec => []BareRowsComplete
<1>1. MCSpec => InquirySpec /\ ListSpec
    BY EachPartAlone, PTL
<1>2. InquirySpec => []InquiryComplete
    BY InquiryCompleteAlways
<1>3. ListSpec => []ListComplete
    BY ListCompleteAlways
<1>4. InquiryComplete /\ ListComplete => BareRowsComplete
    BY DEF BareRowsComplete
<1>5. QED
    BY <1>1, <1>2, <1>3, <1>4, PTL
=============================================================================
