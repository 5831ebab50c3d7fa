----------------------------- MODULE AuditTrail -----------------------------
(***************************************************************************)
(* What a session's audit log promises, seen from outside: entries are     *)
(* recorded in order and leave in that order; only the oldest ones can be  *)
(* sent twice, or be lost.  The buffer of src/src/index.ts implements it.  *)
(***************************************************************************)
EXTENDS Naturals, Sequences

VARIABLES
    pending,     \* entries recorded and not known to be delivered
    delivered    \* entries in R2, in the order they got there

vars == <<pending, delivered>>

First(n) == SubSeq(pending, 1, n)
Rest(n)  == SubSeq(pending, n + 1, Len(pending))

Init == pending = << >> /\ delivered = << >>

(* A tool call records entries behind those pending.                       *)
Record ==
    /\ Len(pending') >= Len(pending)
    /\ SubSeq(pending', 1, Len(pending)) = pending
    /\ UNCHANGED delivered

(* The oldest entries are delivered.                                       *)
Deliver(n) == delivered' = delivered \o First(n) /\ pending' = Rest(n)

(* They are delivered but not known to be: they will be sent again.        *)
DeliverUnknown(n) == delivered' = delivered \o First(n) /\ UNCHANGED pending

(* They are lost.                                                          *)
Lose(n) == pending' = Rest(n) /\ UNCHANGED delivered

Next ==
    \/ Record
    \/ \E n \in 0..Len(pending) : Deliver(n) \/ DeliverUnknown(n) \/ Lose(n)

Spec == Init /\ [][Next]_vars
=============================================================================
