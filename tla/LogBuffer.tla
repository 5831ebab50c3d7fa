------------------------------ MODULE LogBuffer ------------------------------
(***************************************************************************)
(* The audit-log buffer of a session's Durable Object (src/src/index.ts):  *)
(* tool calls append entries to a buffer mirrored in DO storage, and a     *)
(* flush, started by the buffer's size or by the Agent scheduler, moves    *)
(* them to R2.                                                             *)
(*                                                                         *)
(* Input gates make everything up to the R2 put one step; while the put is *)
(* awaited other tool calls append, schedules fire, and the object may be  *)
(* evicted.  Entries are numbered in the order tool calls record them.     *)
(***************************************************************************)
EXTENDS Naturals, Sequences

CONSTANTS
    Threshold,    \* LOG_FLUSH_THRESHOLD
    MaxEntries,   \* bound: entries recorded
    MaxFaults     \* bound: failed puts and evictions

ASSUME ConstantsAssumption ==
    Threshold \in Nat \ {0} /\ MaxEntries \in Nat /\ MaxFaults \in Nat

VARIABLES
    logged,          \* how many entries tool calls have recorded
    logBuffer, bufferHydrated, flushScheduled,   \* memory of the instance
    flushing,        \* is a flush awaiting its R2 put
    entries, timer,  \* its snapshot; was it started by the scheduler
    storage,         \* "log_buffer" in DO storage
    rows,            \* rows of the Agent scheduler that are still to fire
    shipped,         \* the entries in R2, in the order of their files
    faults,          \* faults injected so far
    lost,            \* history: entries of flushes cut off by an eviction
    resent,          \* history: was a batch stored by a put that failed
    missed           \* history: did a row fire while a flush was on

memory == <<logBuffer, bufferHydrated, flushScheduled>>
flush  == <<flushing, entries, timer>>
hist   == <<lost, resent, missed>>
vars   == <<logged, memory, flush, storage, rows, shipped, faults, hist>>

-----------------------------------------------------------------------------
Entries == Nat \ {0}
Elements(s) == {s[i] : i \in DOMAIN s}

TypeOK ==
    /\ logged \in Nat
    /\ logBuffer \in Seq(Entries) /\ storage \in Seq(Entries)
    /\ entries \in Seq(Entries) /\ shipped \in Seq(Entries)
    /\ bufferHydrated \in BOOLEAN /\ flushScheduled \in BOOLEAN
    /\ flushing \in BOOLEAN /\ timer \in BOOLEAN
    /\ rows \in Nat /\ faults \in Nat
    /\ lost \subseteq Entries /\ resent \in BOOLEAN /\ missed \in BOOLEAN
    /\ IF flushing THEN bufferHydrated ELSE entries = << >> /\ ~timer
    /\ bufferHydrated => logBuffer = storage
    /\ ~bufferHydrated => logBuffer = << >>

Init ==
    /\ logged = 0 /\ rows = 0 /\ faults = 0
    /\ logBuffer = << >> /\ storage = << >> /\ entries = << >> /\ shipped = << >>
    /\ bufferHydrated = FALSE /\ flushScheduled = FALSE
    /\ flushing = FALSE /\ timer = FALSE
    /\ lost = {} /\ resent = FALSE /\ missed = FALSE

-----------------------------------------------------------------------------
(* hydrateBuffer: the first use by an instance puts what storage holds     *)
(* before what the instance has.                                           *)
Hydrated == IF bufferHydrated THEN logBuffer ELSE storage \o logBuffer

(* persistBuffer after an assignment of the buffer.  The mutant forgets to *)
(* mirror it.                                                              *)
KeepUnmirrored(buffer) ==
    logBuffer' = buffer /\ bufferHydrated' = TRUE /\ UNCHANGED storage

Keep(buffer) ==
    logBuffer' = buffer /\ bufferHydrated' = TRUE /\ storage' = buffer

(* scheduleFlush: `paid' rows have just been used up.                      *)
ScheduleFlush(paid) ==
    /\ flushScheduled' = TRUE
    /\ rows' = rows - paid + (IF flushScheduled THEN 0 ELSE 1)

(* flushLogs up to the R2 put: the snapshot leaves buffer and storage.     *)
(* The mutant leaves it there until the put is done.                       *)
StartFlushKeeping(batch, byTimer) ==
    /\ flushing' = TRUE /\ entries' = batch /\ timer' = byTimer
    /\ Keep(batch)

StartFlush(batch, byTimer) ==
    /\ flushing' = TRUE /\ entries' = batch /\ timer' = byTimer
    /\ Keep(<< >>)

EndFlush == flushing' = FALSE /\ entries' = << >> /\ timer' = FALSE

Fault == faults < MaxFaults /\ faults' = faults + 1

-----------------------------------------------------------------------------
(* A tool call has ended: one entry, or two (a mutation, a redaction or a  *)
(* rate-limit hit beside the invocation).                                  *)
BufferLogs(n) ==
    LET new == [i \in 1..n |-> logged + i]
        all == Hydrated \o new
    IN  /\ logged + n <= MaxEntries
        /\ logged' = logged + n
        /\ \/ /\ Len(all) >= Threshold /\ ~flushing
              /\ StartFlush(all, FALSE)
              /\ UNCHANGED <<flushScheduled, rows>>
           \/ /\ Len(all) < Threshold \/ flushing
              /\ Keep(all)
              /\ ScheduleFlush(0)
              /\ UNCHANGED flush
        /\ UNCHANGED <<shipped, faults, hist>>

(* flushLogsScheduled: clear the flag, then flushLogs, which returns at    *)
(* once if a flush is on.  The scheduler runs its rows one at a time and   *)
(* deletes a row when its callback has returned.                           *)
FireIntoFlush ==
    /\ rows > 0 /\ flushing /\ ~timer
    /\ flushScheduled' = FALSE /\ rows' = rows - 1
    /\ missed' = TRUE
    /\ UNCHANGED <<logged, logBuffer, bufferHydrated, flush, storage, shipped,
                   faults, lost, resent>>

FireOnEmpty ==
    /\ rows > 0 /\ ~flushing /\ Hydrated = << >>
    /\ flushScheduled' = FALSE /\ rows' = rows - 1
    /\ Keep(<< >>)
    /\ UNCHANGED <<logged, flush, shipped, faults, hist>>

(* The mutant leaves the flag set: nothing is scheduled ever after.        *)
FireKeepingFlag ==
    /\ rows > 0 /\ ~flushing /\ Hydrated # << >>
    /\ StartFlush(Hydrated, TRUE)
    /\ UNCHANGED <<logged, flushScheduled, rows, shipped, faults, hist>>

Fire ==
    /\ rows > 0 /\ ~flushing /\ Hydrated # << >>
    /\ flushScheduled' = FALSE
    /\ StartFlush(Hydrated, TRUE)
    /\ UNCHANGED <<logged, rows, shipped, faults, hist>>

-----------------------------------------------------------------------------
(* R2 (external) and the rest of flushLogs.                                *)

RowsPaid == IF timer THEN 1 ELSE 0

PutSucceeds ==
    /\ flushing
    /\ shipped' = shipped \o entries
    /\ rows' = rows - RowsPaid
    /\ EndFlush
    /\ UNCHANGED <<logged, memory, storage, faults, hist>>

(* The batch goes back to the head of the buffer, and a retry is armed.    *)
(* Mutants: it goes to the tail; no retry is armed; it is dropped.         *)
ReenqueueAtTail ==
    Keep(logBuffer \o entries) /\ ScheduleFlush(RowsPaid)
ReenqueueUnscheduled ==
    /\ Keep(entries \o logBuffer)
    /\ UNCHANGED flushScheduled /\ rows' = rows - RowsPaid
ReenqueueNothing ==
    Keep(logBuffer) /\ ScheduleFlush(RowsPaid)

Reenqueue ==
    Keep(entries \o logBuffer) /\ ScheduleFlush(RowsPaid)

(* A put that fails may have stored the batch all the same.                *)
PutFails ==
    /\ flushing
    /\ Fault
    /\ \/ UNCHANGED <<shipped, resent>>
       \/ shipped' = shipped \o entries /\ resent' = TRUE
    /\ Reenqueue
    /\ EndFlush
    /\ UNCHANGED <<logged, lost, missed>>

(* The object is evicted: memory is gone, rows and storage stay.  A batch  *)
(* whose put was open is in R2 or lost.                                    *)
Evict ==
    /\ Fault
    /\ logBuffer' = << >> /\ bufferHydrated' = FALSE /\ flushScheduled' = FALSE
    /\ EndFlush
    /\ \/ shipped' = shipped \o entries /\ UNCHANGED lost
       \/ UNCHANGED shipped /\ lost' = lost \union Elements(entries)
    /\ UNCHANGED <<logged, storage, rows, resent, missed>>

-----------------------------------------------------------------------------
Next ==
    \/ \E n \in {1, 2} : BufferLogs(n)
    \/ FireIntoFlush \/ FireOnEmpty \/ Fire
    \/ PutSucceeds \/ PutFails \/ Evict

(* Rows fire when they are due, and a put ends; faults are finitely many.  *)
Fairness == WF_vars(Fire) /\ WF_vars(FireOnEmpty) /\ WF_vars(PutSucceeds \/ PutFails)

Spec     == Init /\ [][Next]_vars
FairSpec == Spec /\ Fairness
-----------------------------------------------------------------------------
(* Storage survives evictions: whatever is not in R2 or in a flush that is *)
(* on, or was cut off by an eviction, is in storage at every step.         *)
NothingDropped ==
    1..logged = Elements(storage) \union Elements(entries)
                  \union Elements(shipped) \union lost

(* R2 files are chronologically ordered, and unless a failed put stored    *)
(* its batch no entry is in R2 twice or will be.                           *)
InOrder ==
    LET trail == shipped \o entries \o storage
    IN  ~resent => \A i, j \in DOMAIN trail : i < j => trail[i] < trail[j]

(* Entries waiting in an idle object have a row that will flush them,      *)
(* through failed puts and evictions, unless one fired into a flush.       *)
IdleBufferScheduled ==
    (~missed /\ storage # << >> /\ ~flushing) => rows > 0

(* Then every entry gets to R2, if no eviction cuts its flush off.         *)
EveryEntryLands ==
    \A e \in 1..MaxEntries :
        e <= logged ~> e \in Elements(shipped) \union lost \/ missed

(* Entries leave in the order they were recorded; only the oldest ones are *)
(* ever sent twice or lost.                                                *)
Trail == INSTANCE AuditTrail WITH pending <- entries \o storage, delivered <- shipped
TrailSpec == Trail!Spec

-----------------------------------------------------------------------------
(* index.ts:597: "otherwise ensure a flush is scheduled so an idle buffer  *)
(* still lands in R2".                                                     *)
IdleBufferLands == (storage # << >> /\ ~flushing) => rows > 0
=============================================================================
