--------------------------- MODULE LogBufferProofs ---------------------------
(***************************************************************************)
(* Proofs about LogBuffer, for any threshold and without bounds on what    *)
(* is logged: it implements AuditTrail, drops nothing, and keeps an idle   *)
(* buffer scheduled.                                                       *)
(***************************************************************************)
EXTENDS LogBuffer, SequenceTheorems, TLAPS

(* Rows that are still to fire, without the one whose callback is running. *)
Free == rows - RowsPaid

(* A set flag, and entries in storage, have such a row behind them, as     *)
(* long as no row has fired into a flush.                                  *)
Armed ==
    /\ timer => rows > 0
    /\ flushScheduled => Free > 0
    /\ (~missed /\ storage # << >>) => Free > 0

-----------------------------------------------------------------------------
(* Types, and the mirror of the buffer in storage.                         *)

LEMMA BatchTyped ==
    ASSUME TypeOK, NEW n \in {1, 2}
    PROVE  [i \in 1..n |-> logged + i] \in Seq(Entries)
<1>1. \A i \in 1..n : logged + i \in Entries
    BY DEF TypeOK, Entries
<1>2. [i \in 1..n |-> logged + i] \in [1..n -> Entries]
    BY <1>1
<1>3. QED
    BY <1>2, SeqDef

LEMMA HydratedIsStorage == TypeOK => Hydrated = storage
    BY ConcatEmptySeq DEF TypeOK, Hydrated

LEMMA KeepTyped ==
    ASSUME NEW buffer \in Seq(Entries), Keep(buffer)
    PROVE  /\ logBuffer' \in Seq(Entries) /\ storage' \in Seq(Entries)
           /\ bufferHydrated' \in BOOLEAN
           /\ bufferHydrated' /\ logBuffer' = storage'
    BY DEF Keep

(* What one tool call leaves behind.                                       *)
LEMMA BufferLogsCases ==
    ASSUME TypeOK, NEW n \in {1, 2}, BufferLogs(n)
    PROVE  \E new \in Seq(Entries) :
              /\ new = [i \in 1..n |-> logged + i]
              /\ \/ /\ ~flushing /\ StartFlush(storage \o new, FALSE)
                    /\ UNCHANGED <<flushScheduled, rows>>
                 \/ Keep(storage \o new) /\ ScheduleFlush(0) /\ UNCHANGED flush
              /\ logged' = logged + n /\ UNCHANGED <<shipped, faults, hist>>
<1>1. [i \in 1..n |-> logged + i] \in Seq(Entries) /\ Hydrated = storage
    BY BatchTyped, HydratedIsStorage
<1>2. QED
    BY <1>1 DEF BufferLogs

LEMMA TypeNext == TypeOK /\ Armed /\ [Next]_vars => TypeOK'
<1> SUFFICES ASSUME TypeOK, Armed, [Next]_vars PROVE TypeOK'
    OBVIOUS
<1> USE DEF TypeOK
<1>e. << >> \in Seq(Entries)
    BY EmptySeq
<1>1. ASSUME NEW n \in {1, 2}, BufferLogs(n)
      PROVE  TypeOK'
  <2>1. PICK new \in Seq(Entries) :
           \/ /\ ~flushing /\ StartFlush(storage \o new, FALSE)
              /\ UNCHANGED <<flushScheduled, rows>>
           \/ Keep(storage \o new) /\ ScheduleFlush(0) /\ UNCHANGED flush
      BY <1>1, BufferLogsCases
  <2>2. storage \o new \in Seq(Entries)
      BY ConcatProperties
  <2>3. logged' \in Nat /\ UNCHANGED <<shipped, faults, hist>>
      BY <1>1 DEF BufferLogs
  <2>4. CASE StartFlush(storage \o new, FALSE) /\ UNCHANGED <<flushScheduled, rows>>
      BY <1>e, <2>2, <2>3, <2>4, KeepTyped DEF StartFlush, hist
  <2>5. CASE Keep(storage \o new) /\ ScheduleFlush(0) /\ UNCHANGED flush
    <3>1. rows' \in Nat
        BY <2>5 DEF ScheduleFlush
    <3>2. flushScheduled' = TRUE
        BY <2>5 DEF ScheduleFlush
    <3>3. QED
        BY <2>2, <2>3, <2>5, <3>1, <3>2, KeepTyped DEF hist, flush
  <2>6. QED
      BY <2>1, <2>4, <2>5
<1>2. CASE FireIntoFlush
  <2>1. rows' \in Nat
      BY <1>2 DEF FireIntoFlush
  <2>2. QED
      BY <1>2, <2>1 DEF FireIntoFlush, flush
<1>3. CASE FireOnEmpty
  <2>1. rows' \in Nat
      BY <1>3 DEF FireOnEmpty
  <2>2. QED
      BY <1>3, <1>e, <2>1, KeepTyped DEF FireOnEmpty, flush, hist
<1>4. CASE Fire
    BY <1>4, <1>e, HydratedIsStorage, KeepTyped DEF Fire, StartFlush, hist
<1>5. CASE PutSucceeds
  <2>1. shipped \o entries \in Seq(Entries) /\ rows - RowsPaid \in Nat
      BY ConcatProperties DEF Armed, RowsPaid
  <2>2. QED
      BY <1>5, <1>e, <2>1 DEF PutSucceeds, EndFlush, memory, hist
<1>6. CASE PutFails
  <2>1. shipped \o entries \in Seq(Entries) /\ entries \o logBuffer \in Seq(Entries)
      BY ConcatProperties
  <2>2. rows' \in Nat /\ faults' \in Nat
      BY <1>6 DEF PutFails, Reenqueue, ScheduleFlush, Armed, RowsPaid, Fault
  <2>3. flushScheduled' = TRUE /\ Keep(entries \o logBuffer)
      BY <1>6 DEF PutFails, Reenqueue, ScheduleFlush
  <2>4. shipped' \in Seq(Entries) /\ resent' \in BOOLEAN
      BY <1>6, <2>1 DEF PutFails
  <2>5. QED
      BY <1>6, <1>e, <2>1, <2>2, <2>3, <2>4, KeepTyped DEF PutFails, EndFlush
<1>7. CASE Evict
  <2>1. shipped \o entries \in Seq(Entries) /\ Elements(entries) \subseteq Entries
      BY ConcatProperties, ElementOfSeq, LenProperties DEF Elements
  <2>2. faults' \in Nat
      BY <1>7 DEF Evict, Fault
  <2>3. shipped' \in Seq(Entries) /\ lost' \subseteq Entries
      BY <1>7, <2>1 DEF Evict
  <2>4. QED
      BY <1>7, <1>e, <2>2, <2>3 DEF Evict, EndFlush
<1>8. CASE UNCHANGED vars
    BY <1>8 DEF vars, memory, flush, hist
<1>9. QED
    BY <1>1, <1>2, <1>3, <1>4, <1>5, <1>6, <1>7, <1>8 DEF Next

LEMMA ArmedNext == TypeOK /\ Armed /\ [Next]_vars => Armed'
<1> SUFFICES ASSUME TypeOK, Armed, [Next]_vars PROVE Armed'
    OBVIOUS
<1> USE DEF Armed, Free, RowsPaid
<1>t. rows \in Nat /\ (~flushing => ~timer) /\ timer \in BOOLEAN /\ flushScheduled \in BOOLEAN
    BY DEF TypeOK
<1>1. ASSUME NEW n \in {1, 2}, BufferLogs(n)
      PROVE  Armed'
  <2>1. PICK new \in Seq(Entries) :
           \/ /\ ~flushing /\ StartFlush(storage \o new, FALSE)
              /\ UNCHANGED <<flushScheduled, rows>>
           \/ Keep(storage \o new) /\ ScheduleFlush(0) /\ UNCHANGED flush
      BY <1>1, BufferLogsCases
  <2>2. UNCHANGED missed
      BY <1>1 DEF BufferLogs, hist
  <2>3. CASE /\ ~flushing /\ StartFlush(storage \o new, FALSE)
             /\ UNCHANGED <<flushScheduled, rows>>
      BY <1>t, <2>3 DEF StartFlush, Keep
  <2>4. CASE Keep(storage \o new) /\ ScheduleFlush(0) /\ UNCHANGED flush
      BY <1>t, <2>4 DEF ScheduleFlush, flush
  <2>5. QED
      BY <2>1, <2>3, <2>4
<1>2. CASE FireIntoFlush
    BY <1>2, <1>t DEF FireIntoFlush, flush
<1>3. CASE FireOnEmpty
    BY <1>3, <1>t DEF FireOnEmpty, flush, Keep
<1>4. CASE Fire
    BY <1>4, <1>t DEF Fire, StartFlush, Keep
<1>5. CASE PutSucceeds
    BY <1>5, <1>t DEF PutSucceeds, EndFlush, memory, hist
<1>6. CASE PutFails
    BY <1>6, <1>t DEF PutFails, Reenqueue, ScheduleFlush, EndFlush
<1>7. CASE Evict
    BY <1>7, <1>t DEF Evict, EndFlush
<1>8. CASE UNCHANGED vars
    BY <1>8 DEF vars, memory, flush, hist
<1>9. QED
    BY <1>1, <1>2, <1>3, <1>4, <1>5, <1>6, <1>7, <1>8 DEF Next

(* Every variable keeps its type, and storage mirrors the buffer of an     *)
(* instance that has hydrated it.                                          *)
THEOREM TypeCorrect == Spec => [](TypeOK /\ Armed)
<1>1. Init => TypeOK /\ Armed
  <2> SUFFICES ASSUME Init PROVE TypeOK /\ Armed
      OBVIOUS
  <2>1. << >> \in Seq(Entries)
      BY EmptySeq
  <2>2. TypeOK
      BY <2>1 DEF Init, TypeOK
  <2>3. Armed
      BY DEF Init, Armed
  <2>4. QED
      BY <2>2, <2>3
<1>2. TypeOK /\ Armed /\ [Next]_vars => (TypeOK /\ Armed)'
    BY TypeNext, ArmedNext
<1>3. QED
    BY <1>1, <1>2, PTL DEF Spec

(* As long as no row has fired into a flush, entries waiting in an idle    *)
(* object have a row that will flush them.                                 *)
THEOREM IdleBufferScheduledAlways == Spec => []IdleBufferScheduled
<1>1. TypeOK /\ Armed => IdleBufferScheduled
    BY DEF TypeOK, Armed, Free, RowsPaid, IdleBufferScheduled
<1>2. QED
    BY <1>1, TypeCorrect, PTL

-----------------------------------------------------------------------------
(* The buffer implements AuditTrail.                                       *)

pendingEntries == entries \o storage

LEMMA SplitTrail ==
    ASSUME NEW s \in Seq(Entries), NEW t \in Seq(Entries)
    PROVE  /\ Len(s) \in 0..Len(s \o t)
           /\ SubSeq(s \o t, 1, Len(s)) = s
           /\ SubSeq(s \o t, Len(s) + 1, Len(s \o t)) = t
<1>1. Len(s) \in Nat /\ Len(t) \in Nat /\ Len(s \o t) = Len(s) + Len(t)
    BY LenProperties, ConcatProperties
<1>2. SubSeq(s \o t, 1, Len(s)) = s
  <2>1. CASE Len(s) = 0
      BY <2>1, EmptySeq, SubSeqEmpty
  <2>2. CASE Len(s) # 0
      BY <1>1, <2>2, SubSeqOfConcat1, SubSeqFull
  <2>3. QED
      BY <2>1, <2>2
<1>3. SubSeq(s \o t, Len(s) + 1, Len(s \o t)) = t
  <2>1. CASE Len(t) = 0
      BY <1>1, <2>1, EmptySeq, SubSeqEmpty
  <2>2. CASE Len(t) # 0
    <3>1. SubSeq(s \o t, Len(s) + 1, Len(s \o t))
            = SubSeq(t, Len(s) + 1 - Len(s), Len(s \o t) - Len(s))
        BY <1>1, <2>2, SubSeqOfConcat2
    <3>2. Len(s) + 1 - Len(s) = 1 /\ Len(s \o t) - Len(s) = Len(t)
        BY <1>1
    <3>3. QED
        BY <3>1, <3>2, SubSeqFull
  <2>3. QED
      BY <2>1, <2>2
<1>4. QED
    BY <1>1, <1>2, <1>3

(* A step that leaves the oldest entries, delivers, resends or drops them  *)
(* is a step of AuditTrail.                                                *)
LEMMA TrailSteps ==
    ASSUME TypeOK,
           \/ \E new \in Seq(Entries) :
                 pendingEntries' = pendingEntries \o new /\ UNCHANGED shipped
           \/ pendingEntries' = storage /\ shipped' = shipped \o entries
           \/ UNCHANGED pendingEntries /\ shipped' = shipped \o entries
           \/ pendingEntries' = storage /\ UNCHANGED shipped
           \/ UNCHANGED <<pendingEntries, shipped>>
    PROVE  [Trail!Next]_(Trail!vars)
<1> DEFINE n == Len(entries)
<1>1. entries \in Seq(Entries) /\ storage \in Seq(Entries)
    BY DEF TypeOK
<1>2. /\ n \in 0..Len(pendingEntries)
      /\ Trail!First(n) = entries /\ Trail!Rest(n) = storage
    BY <1>1, SplitTrail DEF Trail!First, Trail!Rest, pendingEntries
<1>3. ASSUME NEW new \in Seq(Entries),
             pendingEntries' = pendingEntries \o new, UNCHANGED shipped
      PROVE  Trail!Record
  <2>1. pendingEntries \in Seq(Entries)
      BY <1>1, ConcatProperties DEF pendingEntries
  <2>2. /\ Len(pendingEntries \o new) >= Len(pendingEntries)
        /\ SubSeq(pendingEntries \o new, 1, Len(pendingEntries)) = pendingEntries
      BY <2>1, SplitTrail, LenProperties, ConcatProperties
  <2>3. QED
      BY <1>3, <2>2 DEF Trail!Record, pendingEntries
<1>4. CASE pendingEntries' = storage /\ shipped' = shipped \o entries
    BY <1>2, <1>4 DEF Trail!Next, Trail!Deliver, pendingEntries
<1>5. CASE UNCHANGED pendingEntries /\ shipped' = shipped \o entries
    BY <1>2, <1>5 DEF Trail!Next, Trail!DeliverUnknown, pendingEntries
<1>6. CASE pendingEntries' = storage /\ UNCHANGED shipped
    BY <1>2, <1>6 DEF Trail!Next, Trail!Lose, pendingEntries
<1>7. CASE UNCHANGED <<pendingEntries, shipped>>
    BY <1>7 DEF Trail!vars, pendingEntries
<1>8. QED
    BY <1>3, <1>4, <1>5, <1>6, <1>7 DEF Trail!Next

LEMMA TrailNext == TypeOK /\ [Next]_vars => [Trail!Next]_(Trail!vars)
<1> SUFFICES ASSUME TypeOK, [Next]_vars PROVE [Trail!Next]_(Trail!vars)
    OBVIOUS
<1>t. /\ entries \in Seq(Entries) /\ storage \in Seq(Entries)
      /\ ~flushing => entries = << >>
    BY DEF TypeOK
<1>1. ASSUME NEW n \in {1, 2}, BufferLogs(n)
      PROVE  \E new \in Seq(Entries) :
                pendingEntries' = pendingEntries \o new /\ UNCHANGED shipped
  <2>1. PICK new \in Seq(Entries) :
           /\ \/ /\ ~flushing /\ StartFlush(storage \o new, FALSE)
                 /\ UNCHANGED <<flushScheduled, rows>>
              \/ Keep(storage \o new) /\ ScheduleFlush(0) /\ UNCHANGED flush
           /\ UNCHANGED shipped
      BY <1>1, BufferLogsCases
  <2>2. storage \o new \in Seq(Entries)
      BY <1>t, ConcatProperties
  <2>3. CASE ~flushing /\ StartFlush(storage \o new, FALSE)
    <3>1. pendingEntries' = storage \o new
        BY <2>2, <2>3, ConcatEmptySeq DEF StartFlush, Keep, pendingEntries
    <3>2. pendingEntries = storage
        BY <1>t, <2>3, ConcatEmptySeq DEF pendingEntries
    <3>3. QED
        BY <2>1, <3>1, <3>2
  <2>4. CASE Keep(storage \o new) /\ UNCHANGED flush
    <3>1. storage' = storage \o new /\ entries' = entries
        BY <2>4 DEF Keep, flush
    <3>2. entries \o (storage \o new) = (entries \o storage) \o new
        BY <1>t, ConcatAssociative
    <3>3. QED
        BY <2>1, <3>1, <3>2 DEF pendingEntries
  <2>5. QED
      BY <2>1, <2>3, <2>4
<1>2. ASSUME FireIntoFlush
      PROVE  UNCHANGED <<pendingEntries, shipped>>
    BY <1>2 DEF FireIntoFlush, flush, pendingEntries
<1>3. ASSUME FireOnEmpty
      PROVE  UNCHANGED <<pendingEntries, shipped>>
  <2>1. storage = << >>
      BY <1>3, HydratedIsStorage DEF FireOnEmpty
  <2>2. QED
      BY <1>3, <2>1 DEF FireOnEmpty, Keep, flush, pendingEntries
<1>4. ASSUME Fire
      PROVE  UNCHANGED <<pendingEntries, shipped>>
  <2>1. pendingEntries' = storage
      BY <1>4, <1>t, HydratedIsStorage, ConcatEmptySeq DEF Fire, StartFlush, Keep, pendingEntries
  <2>2. pendingEntries = storage
      BY <1>4, <1>t, ConcatEmptySeq DEF Fire, pendingEntries
  <2>3. QED
      BY <1>4, <2>1, <2>2 DEF Fire
<1>5. ASSUME PutSucceeds
      PROVE  pendingEntries' = storage /\ shipped' = shipped \o entries
    BY <1>5, <1>t, ConcatEmptySeq DEF PutSucceeds, EndFlush, pendingEntries
<1>6. ASSUME PutFails
      PROVE  UNCHANGED pendingEntries /\ (UNCHANGED shipped \/ shipped' = shipped \o entries)
  <2>1. entries' = << >> /\ storage' = entries \o logBuffer
      BY <1>6 DEF PutFails, Reenqueue, Keep, EndFlush
  <2>2. flushing /\ logBuffer = storage
      BY <1>6 DEF PutFails, TypeOK
  <2>3. << >> \o (entries \o storage) = entries \o storage
      BY <1>t, ConcatProperties, ConcatEmptySeq
  <2>4. QED
      BY <1>6, <2>1, <2>2, <2>3 DEF PutFails, pendingEntries
<1>7. ASSUME Evict
      PROVE  pendingEntries' = storage /\ (UNCHANGED shipped \/ shipped' = shipped \o entries)
    BY <1>7, <1>t, ConcatEmptySeq DEF Evict, EndFlush, pendingEntries
<1>8. ASSUME UNCHANGED vars
      PROVE  UNCHANGED <<pendingEntries, shipped>>
    BY <1>8 DEF vars, flush, pendingEntries
<1>9. QED
    BY <1>1, <1>2, <1>3, <1>4, <1>5, <1>6, <1>7, <1>8, TrailSteps DEF Next

(* Whatever flushes, failures and evictions do, entries leave the buffer   *)
(* in the order they were recorded, and only the oldest can be sent twice  *)
(* or lost: the buffer implements AuditTrail.                              *)
THEOREM ImplementsTrail == Spec => TrailSpec
<1>1. Init => Trail!Init
    BY EmptySeq, ConcatEmptySeq DEF Init, Trail!Init
<1>2. TypeOK /\ [Next]_vars => [Trail!Next]_(Trail!vars)
    BY TrailNext
<1>3. QED
    BY <1>1, <1>2, TypeCorrect, PTL DEF Spec, TrailSpec, Trail!Spec

-----------------------------------------------------------------------------
(* No entry is dropped.                                                    *)

LEMMA ElementsEmpty == Elements(<< >>) = {}
    BY DEF Elements

LEMMA ElementsConcat ==
    ASSUME NEW s \in Seq(Entries), NEW t \in Seq(Entries)
    PROVE  Elements(s \o t) = Elements(s) \union Elements(t)
<1>1. /\ Len(s) \in Nat /\ Len(t) \in Nat
      /\ DOMAIN s = 1..Len(s) /\ DOMAIN t = 1..Len(t)
    BY LenProperties
<1>2. DOMAIN (s \o t) = 1..(Len(s) + Len(t))
    BY ConcatProperties, LenProperties
<1>3. \A i \in 1..(Len(s) + Len(t)) :
         (s \o t)[i] = IF i <= Len(s) THEN s[i] ELSE t[i - Len(s)]
    BY ConcatProperties
<1>4. Elements(s \o t) \subseteq Elements(s) \union Elements(t)
  <2> SUFFICES ASSUME NEW i \in 1..(Len(s) + Len(t))
               PROVE  (s \o t)[i] \in Elements(s) \union Elements(t)
      BY <1>2 DEF Elements
  <2>1. CASE i <= Len(s)
      BY <1>1, <1>3, <2>1 DEF Elements
  <2>2. CASE ~(i <= Len(s))
    <3>1. i - Len(s) \in 1..Len(t)
        BY <1>1, <2>2
    <3>2. QED
        BY <1>1, <1>3, <2>2, <3>1 DEF Elements
  <2>3. QED
      BY <2>1, <2>2
<1>5. Elements(s) \subseteq Elements(s \o t)
  <2>1. \A i \in 1..Len(s) : i \in 1..(Len(s) + Len(t)) /\ (s \o t)[i] = s[i]
      BY <1>1, <1>3
  <2>2. QED
      BY <1>1, <1>2, <2>1 DEF Elements
<1>6. Elements(t) \subseteq Elements(s \o t)
  <2> SUFFICES ASSUME NEW i \in 1..Len(t)
               PROVE  t[i] \in Elements(s \o t)
      BY <1>1 DEF Elements
  <2>1. /\ Len(s) + i \in 1..(Len(s) + Len(t))
        /\ ~(Len(s) + i <= Len(s)) /\ Len(s) + i - Len(s) = i
      BY <1>1
  <2>2. (s \o t)[Len(s) + i] = t[i]
      BY <1>3, <2>1
  <2>3. QED
      BY <1>2, <2>1, <2>2 DEF Elements
<1>7. QED
    BY <1>4, <1>5, <1>6

LEMMA BatchElements ==
    ASSUME NEW k \in Nat, NEW n \in Nat
    PROVE  1..(k + n) = (1..k) \union Elements([i \in 1..n |-> k + i])
<1>1. Elements([i \in 1..n |-> k + i]) = {k + i : i \in 1..n}
    BY DEF Elements
<1>2. \A j \in 1..(k + n) : j \in 1..k \/ (j - k \in 1..n /\ j = k + (j - k))
    OBVIOUS
<1>3. QED
    BY <1>1, <1>2

LEMMA NothingDroppedNext == TypeOK /\ NothingDropped /\ [Next]_vars => NothingDropped'
<1> SUFFICES ASSUME TypeOK, NothingDropped, [Next]_vars PROVE NothingDropped'
    OBVIOUS
<1>t. /\ entries \in Seq(Entries) /\ storage \in Seq(Entries) /\ shipped \in Seq(Entries)
      /\ flushing => logBuffer = storage
      /\ ~flushing => entries = << >>
      /\ Elements(<< >>) = {}
    BY ElementsEmpty DEF TypeOK
<1>s. Elements(shipped \o entries) = Elements(shipped) \union Elements(entries)
    BY <1>t, ElementsConcat
<1>1. ASSUME NEW n \in {1, 2}, BufferLogs(n)
      PROVE  NothingDropped'
  <2>1. PICK new \in Seq(Entries) :
           /\ new = [i \in 1..n |-> logged + i]
           /\ \/ /\ ~flushing /\ StartFlush(storage \o new, FALSE)
                 /\ UNCHANGED <<flushScheduled, rows>>
              \/ Keep(storage \o new) /\ ScheduleFlush(0) /\ UNCHANGED flush
           /\ logged' = logged + n /\ UNCHANGED <<shipped, faults, hist>>
      BY <1>1, BufferLogsCases
  <2>2. Elements(storage \o new) = Elements(storage) \union Elements(new)
      BY <1>t, ElementsConcat
  <2>3. 1..logged' = (1..logged) \union Elements(new)
      BY <2>1, BatchElements DEF TypeOK
  <2>4. Elements(storage') \union Elements(entries')
          = Elements(storage) \union Elements(entries) \union Elements(new)
    <3>1. CASE ~flushing /\ StartFlush(storage \o new, FALSE)
        BY <1>t, <2>2, <3>1 DEF StartFlush, Keep
    <3>2. CASE Keep(storage \o new) /\ UNCHANGED flush
        BY <2>2, <3>2 DEF Keep, flush
    <3>3. QED
        BY <2>1, <3>1, <3>2
  <2>5. UNCHANGED <<shipped, lost>>
      BY <2>1 DEF hist
  <2>6. QED
      BY <2>3, <2>4, <2>5 DEF NothingDropped
<1>2. CASE FireIntoFlush
    BY <1>2 DEF FireIntoFlush, flush, NothingDropped
<1>3. CASE FireOnEmpty
  <2>1. storage = << >> /\ storage' = << >>
      BY <1>3, HydratedIsStorage DEF FireOnEmpty, Keep
  <2>2. QED
      BY <1>3, <2>1 DEF FireOnEmpty, flush, hist, NothingDropped
<1>4. CASE Fire
  <2>1. entries' = storage /\ storage' = << >> /\ entries = << >>
      BY <1>4, <1>t, HydratedIsStorage DEF Fire, StartFlush, Keep
  <2>2. UNCHANGED <<logged, shipped, lost>>
      BY <1>4 DEF Fire, hist
  <2>3. QED
      BY <1>t, <2>1, <2>2 DEF NothingDropped
<1>5. CASE PutSucceeds
  <2>1. entries' = << >> /\ UNCHANGED <<logged, storage, lost>> /\ shipped' = shipped \o entries
      BY <1>5 DEF PutSucceeds, EndFlush, hist
  <2>2. QED
      BY <1>t, <1>s, <2>1 DEF NothingDropped
<1>6. CASE PutFails
  <2>1. entries' = << >> /\ storage' = entries \o storage /\ UNCHANGED <<logged, lost>>
      BY <1>6, <1>t DEF PutFails, Reenqueue, Keep, EndFlush
  <2>2. Elements(storage') = Elements(entries) \union Elements(storage)
      BY <1>t, <2>1, ElementsConcat
  <2>3. shipped' = shipped \/ shipped' = shipped \o entries
      BY <1>6 DEF PutFails
  <2>4. QED
      BY <1>t, <1>s, <2>1, <2>2, <2>3 DEF NothingDropped
<1>7. CASE Evict
  <2>1. entries' = << >> /\ UNCHANGED <<logged, storage>>
      BY <1>7 DEF Evict, EndFlush
  <2>2. \/ shipped' = shipped \o entries /\ lost' = lost
        \/ shipped' = shipped /\ lost' = lost \union Elements(entries)
      BY <1>7 DEF Evict
  <2>3. QED
      BY <1>t, <1>s, <2>1, <2>2 DEF NothingDropped
<1>8. CASE UNCHANGED vars
    BY <1>8 DEF vars, flush, hist, NothingDropped
<1>9. QED
    BY <1>1, <1>2, <1>3, <1>4, <1>5, <1>6, <1>7, <1>8 DEF Next

(* Every entry recorded is in storage, in a flush that is on, in R2, or    *)
(* was in a flush that an eviction cut off.                                *)
THEOREM NothingDroppedAlways == Spec => []NothingDropped
<1>1. Init => NothingDropped
    BY ElementsEmpty DEF Init, NothingDropped
<1>2. TypeOK /\ NothingDropped /\ [Next]_vars => NothingDropped'
    BY NothingDroppedNext
<1>3. QED
    BY <1>1, <1>2, TypeCorrect, PTL DEF Spec
-----------------------------------------------------------------------------
(* The trail in R2 is in order.                                            *)

trail == shipped \o entries \o storage

Rising(s)   == \A i, j \in DOMAIN s : i < j => s[i] < s[j]
Below(s, t) == \A d \in Elements(s), e \in Elements(t) : d < e

LEMMA RisingConcat ==
    ASSUME NEW s \in Seq(Entries), NEW t \in Seq(Entries)
    PROVE  Rising(s \o t) <=> Rising(s) /\ Rising(t) /\ Below(s, t)
<1>1. /\ Len(s) \in Nat /\ Len(t) \in Nat
      /\ DOMAIN s = 1..Len(s) /\ DOMAIN t = 1..Len(t)
    BY LenProperties
<1>2. DOMAIN (s \o t) = 1..(Len(s) + Len(t))
    BY ConcatProperties, LenProperties
<1>3. \A i \in 1..Len(s) : i \in 1..(Len(s) + Len(t)) /\ (s \o t)[i] = s[i]
    BY <1>1, ConcatProperties
<1>4. \A j \in 1..Len(t) :
         Len(s) + j \in 1..(Len(s) + Len(t)) /\ (s \o t)[Len(s) + j] = t[j]
  <2> SUFFICES ASSUME NEW j \in 1..Len(t)
               PROVE  Len(s) + j \in 1..(Len(s) + Len(t)) /\ (s \o t)[Len(s) + j] = t[j]
      OBVIOUS
  <2>1. /\ Len(s) + j \in 1..(Len(s) + Len(t))
        /\ ~(Len(s) + j <= Len(s)) /\ Len(s) + j - Len(s) = j
      BY <1>1
  <2>2. QED
      BY <2>1, ConcatProperties
<1>5. ASSUME Rising(s \o t)
      PROVE  Rising(s) /\ Rising(t) /\ Below(s, t)
  <2>1. Rising(s)
      BY <1>1, <1>2, <1>3, <1>5 DEF Rising
  <2>2. Rising(t)
    <3> SUFFICES ASSUME NEW i \in 1..Len(t), NEW j \in 1..Len(t), i < j
                 PROVE  t[i] < t[j]
        BY <1>1 DEF Rising
    <3>1. Len(s) + i < Len(s) + j
        BY <1>1
    <3>2. QED
        BY <1>2, <1>4, <1>5, <3>1 DEF Rising
  <2>3. Below(s, t)
    <3> SUFFICES ASSUME NEW i \in 1..Len(s), NEW j \in 1..Len(t)
                 PROVE  s[i] < t[j]
        BY <1>1 DEF Below, Elements
    <3>1. i < Len(s) + j
        BY <1>1
    <3>2. QED
        BY <1>2, <1>3, <1>4, <1>5, <3>1 DEF Rising
  <2>4. QED
      BY <2>1, <2>2, <2>3
<1>6. ASSUME Rising(s), Rising(t), Below(s, t)
      PROVE  Rising(s \o t)
  <2> SUFFICES ASSUME NEW i \in 1..(Len(s) + Len(t)), NEW j \in 1..(Len(s) + Len(t)),
                      i < j
               PROVE  (s \o t)[i] < (s \o t)[j]
      BY <1>2 DEF Rising
  <2>1. CASE j <= Len(s)
    <3>1. i \in 1..Len(s) /\ j \in 1..Len(s)
        BY <1>1, <2>1
    <3>2. QED
        BY <1>1, <1>3, <1>6, <3>1 DEF Rising
  <2>2. CASE i <= Len(s) /\ ~(j <= Len(s))
    <3>1. i \in 1..Len(s) /\ j - Len(s) \in 1..Len(t) /\ Len(s) + (j - Len(s)) = j
        BY <1>1, <2>2
    <3>2. (s \o t)[i] = s[i] /\ (s \o t)[j] = t[j - Len(s)]
        BY <1>3, <1>4, <3>1
    <3>3. s[i] \in Elements(s) /\ t[j - Len(s)] \in Elements(t)
        BY <1>1, <3>1 DEF Elements
    <3>4. QED
        BY <1>6, <3>2, <3>3 DEF Below
  <2>3. CASE ~(i <= Len(s))
    <3>1. /\ i - Len(s) \in 1..Len(t) /\ Len(s) + (i - Len(s)) = i
          /\ j - Len(s) \in 1..Len(t) /\ Len(s) + (j - Len(s)) = j
          /\ i - Len(s) < j - Len(s)
        BY <1>1, <2>3
    <3>2. (s \o t)[i] = t[i - Len(s)] /\ (s \o t)[j] = t[j - Len(s)]
        BY <1>4, <3>1
    <3>3. QED
        BY <1>1, <1>6, <3>1, <3>2 DEF Rising
  <2>4. QED
      BY <1>1, <2>1, <2>2, <2>3
<1>7. QED
    BY <1>5, <1>6

(* A batch may be taken out of an ordered trail.                           *)
LEMMA RisingWithout ==
    ASSUME NEW s \in Seq(Entries), NEW t \in Seq(Entries), NEW u \in Seq(Entries),
           Rising(s \o t \o u)
    PROVE  Rising(s \o u)
<1>1. s \o t \in Seq(Entries)
    BY ConcatProperties
<1>2. Rising(s \o t) /\ Rising(u) /\ Below(s \o t, u)
    BY <1>1, RisingConcat
<1>3. Rising(s) /\ Below(s, u)
    BY <1>2, RisingConcat, ElementsConcat DEF Below
<1>4. QED
    BY <1>2, <1>3, RisingConcat

LEMMA TrailElements ==
    ASSUME TypeOK, NothingDropped
    PROVE  trail \in Seq(Entries) /\ Elements(trail) \subseteq 1..logged
<1>1. shipped \in Seq(Entries) /\ entries \in Seq(Entries) /\ storage \in Seq(Entries)
    BY DEF TypeOK
<1>2. shipped \o entries \in Seq(Entries)
    BY <1>1, ConcatProperties
<1>3. /\ trail \in Seq(Entries)
      /\ Elements(trail) = Elements(shipped) \union Elements(entries) \union Elements(storage)
    BY <1>1, <1>2, ConcatProperties, ElementsConcat DEF trail
<1>4. QED
    BY <1>3 DEF NothingDropped

(* Unless a failed put stored its batch, a step appends new entries to the *)
(* trail, leaves it, or cuts out the batch of an evicted flush.            *)
LEMMA TrailMoves ==
    ASSUME TypeOK, [Next]_vars, ~resent'
    PROVE  /\ ~resent
           /\ \/ \E n \in {1, 2} : trail' = trail \o [i \in 1..n |-> logged + i]
              \/ trail' = trail
              \/ trail' = shipped \o storage
<1>t. /\ shipped \in Seq(Entries) /\ entries \in Seq(Entries) /\ storage \in Seq(Entries)
      /\ shipped \o entries \in Seq(Entries) /\ shipped \o storage \in Seq(Entries)
      /\ ~flushing => entries = << >>
      /\ shipped \o << >> = shipped
      /\ (shipped \o entries) \o << >> = shipped \o entries
      /\ (shipped \o storage) \o << >> = shipped \o storage
    BY ConcatProperties, ConcatEmptySeq DEF TypeOK
<1>a. \A s, t, u \in Seq(Entries) : (s \o t) \o u = s \o (t \o u)
    BY ConcatAssociative
<1>1. ASSUME NEW n \in {1, 2}, BufferLogs(n)
      PROVE  ~resent /\ trail' = trail \o [i \in 1..n |-> logged + i]
  <2>1. PICK new \in Seq(Entries) :
           /\ new = [i \in 1..n |-> logged + i]
           /\ \/ /\ ~flushing /\ StartFlush(storage \o new, FALSE)
                 /\ UNCHANGED <<flushScheduled, rows>>
              \/ Keep(storage \o new) /\ ScheduleFlush(0) /\ UNCHANGED flush
           /\ UNCHANGED <<shipped, faults, hist>>
      BY <1>1, BufferLogsCases
  <2>2. /\ storage \o new \in Seq(Entries)
        /\ (shipped \o entries) \o (storage \o new) = ((shipped \o entries) \o storage) \o new
        /\ shipped \o (storage \o new) = (shipped \o storage) \o new
    <3>1. storage \o new \in Seq(Entries)
        BY <1>t, ConcatProperties
    <3>2. /\ shipped \in Seq(Entries) /\ shipped \o entries \in Seq(Entries)
          /\ storage \in Seq(Entries) /\ new \in Seq(Entries)
        BY <1>t
    <3>3. (shipped \o entries) \o (storage \o new) = ((shipped \o entries) \o storage) \o new
        BY <1>a, <3>2
    <3>4. shipped \o (storage \o new) = (shipped \o storage) \o new
        BY <1>a, <3>2
    <3>5. QED
        BY <3>1, <3>3, <3>4
  <2>3. CASE ~flushing /\ StartFlush(storage \o new, FALSE)
    <3>1. /\ entries = << >> /\ entries' = storage \o new
          /\ storage' = << >> /\ shipped' = shipped
        BY <1>t, <2>1, <2>3 DEF StartFlush, Keep
    <3>2. shipped \o (storage \o new) \in Seq(Entries)
        BY <1>t, <2>2, ConcatProperties
    <3>3. trail' = shipped \o (storage \o new)
        BY <3>1, <3>2, ConcatEmptySeq DEF trail
    <3>4. trail = shipped \o storage
        BY <1>t, <3>1 DEF trail
    <3>5. QED
        BY <2>1, <2>2, <3>3, <3>4 DEF hist
  <2>4. CASE Keep(storage \o new) /\ UNCHANGED flush
      BY <2>1, <2>2, <2>4 DEF Keep, flush, hist, trail
  <2>5. QED
      BY <2>1, <2>3, <2>4
<1>2. CASE FireIntoFlush
    BY <1>2 DEF FireIntoFlush, flush, trail
<1>3. CASE FireOnEmpty
  <2>1. storage = << >> /\ storage' = << >>
      BY <1>3, HydratedIsStorage DEF FireOnEmpty, Keep
  <2>2. QED
      BY <1>3, <2>1 DEF FireOnEmpty, flush, hist, trail
<1>4. CASE Fire
  <2>1. entries' = storage /\ storage' = << >> /\ entries = << >>
      BY <1>4, <1>t, HydratedIsStorage DEF Fire, StartFlush, Keep
  <2>2. UNCHANGED <<shipped, resent>>
      BY <1>4 DEF Fire, hist
  <2>3. QED
      BY <1>t, <2>1, <2>2 DEF trail
<1>5. CASE PutSucceeds
  <2>1. entries' = << >> /\ UNCHANGED <<storage, resent>> /\ shipped' = shipped \o entries
      BY <1>5 DEF PutSucceeds, EndFlush, hist
  <2>2. QED
      BY <1>t, <2>1 DEF trail
<1>6. CASE PutFails
  <2>1. entries' = << >> /\ storage' = entries \o storage
      BY <1>6 DEF PutFails, Reenqueue, Keep, EndFlush, TypeOK
  <2>2. shipped' = shipped /\ ~resent
      BY <1>6 DEF PutFails
  <2>3. shipped \o (entries \o storage) = (shipped \o entries) \o storage
      BY <1>t, <1>a
  <2>4. QED
      BY <1>t, <2>1, <2>2, <2>3 DEF trail
<1>7. CASE Evict
  <2>1. entries' = << >> /\ UNCHANGED <<storage, resent>>
      BY <1>7 DEF Evict, EndFlush
  <2>2. shipped' = shipped \o entries \/ shipped' = shipped
      BY <1>7 DEF Evict
  <2>3. QED
      BY <1>t, <2>1, <2>2 DEF trail
<1>8. CASE UNCHANGED vars
    BY <1>8 DEF vars, flush, hist, trail
<1>9. QED
    BY <1>1, <1>2, <1>3, <1>4, <1>5, <1>6, <1>7, <1>8 DEF Next

LEMMA InOrderNext ==
    TypeOK /\ NothingDropped /\ InOrder /\ [Next]_vars => InOrder'
<1> SUFFICES ASSUME TypeOK, NothingDropped, InOrder, [Next]_vars, ~resent'
             PROVE  Rising(trail)'
    BY DEF InOrder, Rising, trail
<1>1. ~resent /\ Rising(trail)
    BY TrailMoves DEF InOrder, Rising, trail
<1>2. ASSUME NEW n \in {1, 2}, trail' = trail \o [i \in 1..n |-> logged + i]
      PROVE  Rising(trail)'
  <2> DEFINE new == [i \in 1..n |-> logged + i]
  <2>1. new \in Seq(Entries) /\ trail \in Seq(Entries)
      BY BatchTyped, TrailElements
  <2>2. Rising(new)
      BY DEF Rising, TypeOK
  <2>3. Below(trail, new)
    <3>1. Elements(trail) \subseteq 1..logged /\ Elements(new) = {logged + i : i \in 1..n}
        BY TrailElements DEF Elements
    <3>2. QED
        BY <3>1 DEF Below, TypeOK
  <2>4. Rising(trail \o new)
      BY <1>1, <2>1, <2>2, <2>3, RisingConcat
  <2>5. QED
      BY <1>2, <2>4 DEF Rising
<1>3. CASE trail' = trail
    BY <1>1, <1>3 DEF Rising
<1>4. CASE trail' = shipped \o storage
  <2>1. Rising(shipped \o storage)
      BY <1>1, RisingWithout DEF trail, TypeOK
  <2>2. QED
      BY <1>4, <2>1 DEF Rising
<1>5. QED
    BY <1>2, <1>3, <1>4, TrailMoves

(* Unless a failed put stored its batch, R2 and what is still to get there *)
(* are in the order of recording, without an entry twice: batches that     *)
(* failed go back before whatever was recorded meanwhile.                  *)
THEOREM InOrderAlways == Spec => []InOrder
<1>1. Init => InOrder
    BY ConcatEmptySeq, EmptySeq DEF Init, InOrder
<1>2. TypeOK /\ NothingDropped /\ InOrder /\ [Next]_vars => InOrder'
    BY InOrderNext
<1>3. QED
    BY <1>1, <1>2, TypeCorrect, NothingDroppedAlways, PTL DEF Spec
=============================================================================
