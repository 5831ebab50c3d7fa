----------------------------- MODULE LogSearch -----------------------------
(***************************************************************************)
(* The log viewer of the admin console, src/src/admin/admin-handler.ts:    *)
(* GET /logs/api and the page that asks it for one page after another.     *)
(* Each page is made anew from the files that are in R2 by then: files are *)
(* read in batches, newest first, until they fill the page and one more.   *)
(* LogBuffer writes the files.                                             *)
(***************************************************************************)
EXTENDS Integers, SequencesExt

CONSTANTS
    Contents,      \* what a file may hold: sequences of Entries
    BatchSize, PageSize, MaxObjects,
    MaxFiles,      \* bound: files uploaded
    MaxSearches    \* bound: searches begun

Entries == [time: Nat, hit: BOOLEAN]

ASSUME SearchAssumption ==
    /\ BatchSize \in Nat \ {0} /\ PageSize \in Nat \ {0} /\ MaxObjects \in Nat \ {0}
    /\ Contents \subseteq Seq(Entries)

VARIABLES
    files,         \* the files of the range asked for, oldest upload first
    viewer,        \* what the viewer has on the screen
    present,       \* the matching entries that were there when the search began
    seen,          \* the entries that the search has shown, in order
    grown          \* a file was uploaded since

searchVars == <<files, viewer, present, seen, grown>>

-----------------------------------------------------------------------------
(* listObjectsByDateRange: the oldest days first, and no more than         *)
(* MaxObjects.                                                             *)
Listed == Min({Len(files), MaxObjects})

(* An entry's name is its file's number and its place there.  Filtered:    *)
(* matchesFilters over what the first b batches hold.                      *)
Hits(numbers) ==
    UNION {{<<n, i>> : i \in {k \in DOMAIN files[n] : files[n][k].hit}} : n \in numbers}
Filtered(b) == Hits({n \in 1..Listed : n > Listed - b * BatchSize})

(* Sorted by timestamp, newest first; equals stay as they were read, from  *)
(* the newest file to the oldest and each in its own order.                *)
Time(entry) == files[entry[1]][entry[2]].time
Newer(d, e) ==
    \/ Time(d) > Time(e)
    \/ Time(d) = Time(e) /\ d[1] > e[1]
    \/ Time(d) = Time(e) /\ d[1] = e[1] /\ d[2] < e[2]
Rank(entry, entries) == Cardinality({d \in entries : Newer(d, entry)})
NewestFirst(entries) ==
    [k \in 1..Cardinality(entries) |-> CHOOSE e \in entries : Rank(e, entries) = k - 1]

(* Entries enough for the page and to know of another.  The mutant is      *)
(* content with the page.                                                  *)
NeedPageOnly(page) == (page + 1) * PageSize
Need(page) == (page + 1) * PageSize + 1

Batches == (Listed + BatchSize - 1) \div BatchSize
Enough(page) ==
    Min({b \in 0..Batches : Cardinality(Filtered(b)) >= Need(page) \/ b = Batches})

(* GET /logs/api: the page that b batches give.                            *)
Page(page, b) ==
    LET sorted == NewestFirst(Filtered(b))
        start == page * PageSize
    IN  [page |-> page, timedOut |-> b < Enough(page),
         logs |-> SubSeq(sorted, start + 1, Min({start + PageSize, Len(sorted)})),
         hasMore |-> Len(sorted) > start + PageSize]

-----------------------------------------------------------------------------
NoSearch == [page |-> 0, timedOut |-> FALSE, logs |-> << >>, hasMore |-> FALSE]
SearchInit ==
    /\ files = << >> /\ viewer = [on |-> NoSearch, searches |-> 0, doubtful |-> FALSE]
    /\ present = {} /\ seen = << >> /\ grown = FALSE

(* writeLogsToR2, for any user.                                            *)
Upload ==
    /\ Len(files) < MaxFiles
    /\ \E file \in Contents : files' = Append(files, file)
    /\ grown' = TRUE
    /\ UNCHANGED <<viewer, present, seen>>

(* loadLogs: a search starts with page 0, `Next' goes on while there is    *)
(* more.  Within its time a request reads Enough batches, or fewer.        *)
Load(page, b) ==
    LET on == Page(page, b)
    IN  /\ viewer' = [viewer EXCEPT !.on = on, !.doubtful = @ \/ on.timedOut]
        /\ seen' = seen \o on.logs
        /\ UNCHANGED <<files, present, grown>>

Search ==
    /\ viewer.searches < MaxSearches
    /\ \E b \in 0..Enough(0) :
         LET on == Page(0, b)
         IN  /\ viewer' = [on |-> on, searches |-> viewer.searches + 1,
                           doubtful |-> on.timedOut]
             /\ seen' = on.logs
    /\ present' = Hits(DOMAIN files)
    /\ grown' = FALSE
    /\ UNCHANGED files

NextPage ==
    /\ viewer.on.hasMore
    /\ \E b \in 0..Enough(viewer.on.page + 1) : Load(viewer.on.page + 1, b)

SearchNext == Upload \/ Search \/ NextPage
SearchSpec == SearchInit /\ [][SearchNext]_searchVars
-----------------------------------------------------------------------------
(* Files were uploaded in the order of what they hold, as one user's are   *)
(* while R2 accepts them.                                                  *)
UploadedInOrder ==
    \A m, n \in DOMAIN files : m < n =>
       \A i \in DOMAIN files[m], k \in DOMAIN files[n] : files[m][i].time <= files[n][k].time

(* admin-handler.ts:1304-1306, 1338-1387: a search that went through its   *)
(* pages to the last, no page of which was cut short by the time budget,   *)
(* has shown every entry that matched when it began - if the range held    *)
(* no more files than are listed and they were uploaded in order - and     *)
(* showed an entry twice only if files came in between.                    *)
PagesMissNothing ==
    viewer.searches > 0 /\ ~viewer.doubtful /\ UploadedInOrder /\ Len(files) <= MaxObjects =>
       /\ ~viewer.on.hasMore => present \subseteq ToSet(seen)
       /\ ~grown => IsInjective(seen)
=============================================================================
