--------------------------- MODULE ToolCallProofs ---------------------------
(***************************************************************************)
(* Proofs about ToolCall, for any number of calls and any bounds.  CallInv *)
(* says of one call, at each place between dispatch and reply, what it has *)
(* written, whether it might, and what its trail holds; since a step       *)
(* touches one call or changes the setting under all of them, CallInv of   *)
(* every call is inductive together with TypeOK.                           *)
(***************************************************************************)
EXTENDS ToolCall, SequenceTheorems, TLAPS

-----------------------------------------------------------------------------
(* Types.                                                                  *)

CallSteps ==
    {"idle", "gate", "limit", "token", "send", "answer", "log", "catch", "revoke",
     "replied"}

LEMMA Seqs ==
    /\ << >> \in Seq({"dry_run", "committed"}) /\ << >> \in Seq(Entries)
    /\ <<"dry_run">> \in Seq({"dry_run", "committed"})
    /\ <<"committed">> \in Seq({"dry_run", "committed"})
    /\ <<"success">> \in Seq(Entries) /\ <<"error">> \in Seq(Entries)
    /\ <<"rate_limit">> \in Seq(Entries)
    BY DEF Entries

LEMMA ExtraEntries ==
    ASSUME NEW s \in Seq({"dry_run", "committed"})
    PROVE  s \in Seq(Entries)
    BY DEF Entries

LEMMA IdleTyped == Idle \in CallType
    BY Seqs DEF Idle, CallType, Requests, Errors, Steps

LEMMA CallTyped == TypeOK => \A c \in Calls : call[c] \in CallType
    BY DEF TypeOK

(* A step that leaves call c as `to'.                                      *)
LEMMA CallMoves ==
    ASSUME TypeOK, NEW c \in Calls, NEW to \in CallType, call' = [call EXCEPT ![c] = to]
    PROVE  call' \in [Calls -> CallType]
    BY DEF TypeOK

LEMMA GoTyped ==
    ASSUME TypeOK, NEW c \in Calls, NEW pc \in CallSteps, Go(c, pc)
    PROVE  call' \in [Calls -> CallType]
<1>1. [call[c] EXCEPT !.pc = pc] \in CallType
    BY CallTyped DEF CallType, CallSteps, Steps
<1>2. QED
    BY <1>1 DEF Go, TypeOK

LEMMA CaughtTyped ==
    ASSUME TypeOK, NEW c \in Calls, NEW error \in Errors
    PROVE  [call[c] EXCEPT !.pc = "catch", !.error = error] \in CallType
    BY CallTyped DEF CallType, Steps

LEMMA ThrowTyped ==
    ASSUME TypeOK, NEW c \in Calls, NEW error \in Errors, Throw(c, error)
    PROVE  call' \in [Calls -> CallType]
    BY CaughtTyped DEF Throw, TypeOK

LEMMA FailTyped ==
    ASSUME TypeOK, NEW c \in Calls, NEW error \in Errors, Aside(c) \/ Fail(c, error)
    PROVE  call' \in [Calls -> CallType]
<1>1. CASE Aside(c)
  <2>1. PICK pc \in {"limit", "log"} :
           call' = [call EXCEPT ![c].pc = pc, ![c].aside = FALSE, ![c].retried = FALSE,
                                ![c].answer = "none"]
    BY <1>1 DEF Aside
  <2> DEFINE to == [call[c] EXCEPT !.pc = pc, !.aside = FALSE, !.retried = FALSE,
                                   !.answer = "none"]
  <2>2. to \in CallType
    <3>1. [call[c] EXCEPT !.pc = pc] \in CallType
        BY CallTyped DEF CallType, Steps
    <3> DEFINE moved == [call[c] EXCEPT !.pc = pc]
               loaded == [moved EXCEPT !.aside = FALSE, !.retried = FALSE]
    <3>2. [moved EXCEPT !.aside = FALSE] \in CallType
        BY <3>1 DEF CallType
    <3>3. loaded \in CallType
        BY <3>2 DEF CallType
    <3>4. [loaded EXCEPT !.answer = "none"] \in CallType
        BY <3>3 DEF CallType
    <3>5. QED
        BY <3>4
  <2>3. call' = [call EXCEPT ![c] = to]
    BY <2>1
  <2> HIDE DEF to
  <2>4. QED
    BY <2>2, <2>3, CallMoves
<1>2. CASE Throw(c, error)
    BY <1>2, ThrowTyped
<1>3. QED
    BY <1>1, <1>2 DEF Fail

LEMMA EntriesTyped ==
    ASSUME TypeOK, NEW c \in Calls
    PROVE  SuccessEntries(c) \in Seq(Entries) /\ ErrorEntries(c) \in Seq(Entries)
<1>1. call[c].extra \in Seq(Entries) /\ call[c].entries \in Seq(Entries)
    BY CallTyped, ExtraEntries DEF CallType
<1>2. SuccessEntries(c) \in Seq(Entries)
    BY <1>1, Seqs DEF SuccessEntries
<1> DEFINE limited == IF call[c].error = "limited" THEN <<"rate_limit">> ELSE << >>
<1>3. limited \in Seq(Entries)
    BY Seqs
<1>4. call[c].entries \o <<"error">> \in Seq(Entries)
    BY <1>1, Seqs
<1>5. (call[c].entries \o <<"error">>) \o limited \in Seq(Entries)
    BY <1>3, <1>4
<1>6. ErrorEntries(c) = ((call[c].entries \o <<"error">>) \o limited) \o call[c].extra
    BY DEF ErrorEntries
<1>7. QED
    BY <1>1, <1>2, <1>5, <1>6

LEMMA BufferTyped ==
    ASSUME TypeOK, NEW c \in Calls, NEW entries \in Seq(Entries),
           Buffer(c, entries) \/ UNCHANGED trail
    PROVE  trail' \in [Calls -> Seq(Entries)]
<1>1. trail[c] \o entries \in Seq(Entries)
    BY DEF TypeOK
<1>2. QED
    BY <1>1 DEF Buffer, TypeOK

LEMMA FaultTyped == TypeOK /\ Fault => faults' \in Nat
    BY DEF TypeOK, Fault

LEMMA TypeInit == Init => TypeOK
    BY Seqs, IdleTyped DEF Init, TypeOK, On, Values

LEMMA DispatchTyped ==
    ASSUME TypeOK, NEW c \in Calls, NEW req \in Requests, Dispatch(c, req),
           retries' \in Nat, blind' \in [Calls -> BOOLEAN]
    PROVE  TypeOK'
<1>1. [Idle EXCEPT !.pc = FirstStep(req), !.req = req, !.aside = (req = "inquiry")] \in CallType
  <2>1. FirstStep(req) \in Steps
    BY DEF FirstStep, Steps
  <2>2. QED
    BY <2>1, IdleTyped DEF CallType
<1>2. call' \in [Calls -> CallType]
    BY <1>1, CallMoves DEF Dispatch
<1>3. trail' \in [Calls -> Seq(Entries)]
    BY Seqs DEF Dispatch, TypeOK
<1>4. mayWrite' \in [Calls -> BOOLEAN] /\ revoked' \in [Calls -> {"no", "tried", "all"}]
      /\ dead' \in [Calls -> BOOLEAN]
      /\ logFault' \in [Calls -> BOOLEAN] /\ applied' \in [Calls -> Nat]
    BY DEF Dispatch, TypeOK
<1>5. QED
    BY <1>2, <1>3, <1>4 DEF Dispatch, TypeOK, settings

(* The steps of one call, the faults among them.                           *)
CallStep(c) ==
    Begin(c) \/ Retry(c) \/ Step(c) \/ GateUnread(c) \/ LogThrows(c) \/ CatchThrows(c)

LEMMA NextSplit ==
    ASSUME [Next]_vars
    PROVE  \/ \E c \in Calls : CallStep(c)
           \/ \E value \in Values : SaveSetting(value)
           \/ KvSettles \/ Restart \/ UNCHANGED vars
    BY DEF Next, CallStep

LEMMA GateTyped ==
    ASSUME TypeOK, NEW c \in Calls, NEW on \in BOOLEAN, GateWith(c, on)
    PROVE  call' \in [Calls -> CallType]
<1>1. CASE on /\ call[c].req = "commit"
    BY <1>1, GoTyped DEF GateWith, CallSteps
<1>2. CASE ~(on /\ call[c].req = "commit")
  <2> DEFINE extra == IF on /\ call[c].req = "preview" THEN <<"dry_run">> ELSE << >>
             to == [call[c] EXCEPT !.pc = "log", !.extra = extra]
  <2>1. extra \in Seq({"dry_run", "committed"})
    BY Seqs
  <2> HIDE DEF extra
  <2>2. to \in CallType
    BY <2>1, CallTyped DEF CallType, Steps
  <2>3. call' = [call EXCEPT ![c].pc = "log", ![c].extra = extra]
    BY <1>2 DEF GateWith, extra
  <2>4. call' = [call EXCEPT ![c] = to]
    BY <2>3
  <2> HIDE DEF to
  <2>5. QED
    BY <2>2, <2>4, CallMoves
<1>3. QED
    BY <1>1, <1>2

LEMMA OnTyped == TypeOK => \A value \in Values : On(value) \in BOOLEAN
    BY DEF TypeOK, On

LEMMA StepTyped ==
    ASSUME TypeOK, NEW c \in Calls, CallStep(c)
    PROVE  TypeOK'
<1> USE DEF settings, hist
<1>1. CASE Begin(c) \/ Retry(c)
  <2>1. PICK req \in Requests : Dispatch(c, req)
    BY <1>1, CallTyped DEF Begin, Retry, CallType
  <2>2. retries' \in Nat /\ blind' \in [Calls -> BOOLEAN]
    <3>1. CASE Begin(c)
        BY <3>1 DEF Begin, TypeOK
    <3>2. CASE Retry(c)
      <4>1. retries' \in Nat
        BY <3>2 DEF Retry, TypeOK
      <4>2. blind' \in [Calls -> BOOLEAN]
        BY <3>2 DEF Retry, TypeOK, Unclear
      <4>3. QED
        BY <4>1, <4>2
    <3>3. QED
        BY <1>1, <3>1, <3>2
  <2>3. QED
    BY <2>1, <2>2, DispatchTyped
<1>2. CASE Gate(c)
  <2>1. PICK value \in seen : GateWith(c, On(value))
    BY <1>2 DEF Gate
  <2>2. call' \in [Calls -> CallType]
    BY <2>1, OnTyped, GateTyped DEF TypeOK
  <2>3. QED
    BY <1>2, <2>2 DEF Gate, TypeOK
<1>3. CASE GateUnread(c)
  <2>1. call' \in [Calls -> CallType]
    BY <1>3, GateTyped DEF GateUnread, TypeOK
  <2>2. mayWrite' \in [Calls -> BOOLEAN]
    BY <1>3 DEF GateUnread, TypeOK
  <2>3. QED
    BY <1>3, <2>1, <2>2, FaultTyped DEF GateUnread, TypeOK
<1>4. CASE Admit(c) \/ GetToken(c)
  <2>1. call' \in [Calls -> CallType]
    BY <1>4, GoTyped, FailTyped DEF Admit, GetToken, CallSteps, Errors
  <2>2. dead' \in [Calls -> BOOLEAN]
    <3>1. (~call[c].aside) \in BOOLEAN
        OBVIOUS
    <3>2. dead' = dead \/ dead' = [dead EXCEPT ![c] = ~call[c].aside]
        BY <1>4 DEF Admit, GetToken
    <3>3. QED
        BY <3>1, <3>2 DEF TypeOK
  <2>3. QED
    BY <1>4, <2>1, <2>2 DEF Admit, GetToken, TypeOK
<1>5. CASE Send(c)
  <2>1. PICK o \in Outcomes :
           /\ call' = [call EXCEPT ![c].pc = "answer", ![c].answer = o.answer]
           /\ IF o.done
              THEN /\ applied' = [applied EXCEPT ![c] = @ + 1]
                   /\ created' = [created EXCEPT ![c] = @ + 1]
              ELSE UNCHANGED <<applied, created>>
    BY <1>5 DEF Send, OutcomesOf
  <2>2. o.answer \in {"ok", "empty", "garbled", "error", "lost", "401"}
    BY DEF Outcomes
  <2>3. [call[c] EXCEPT !.pc = "answer", !.answer = o.answer] \in CallType
    BY <2>2, CallTyped DEF CallType, Steps
  <2>4. call' \in [Calls -> CallType]
    BY <2>1, <2>3 DEF TypeOK
  <2>5. applied' \in [Calls -> Nat] /\ created' \in [Calls -> Nat]
    <3>1. CASE o.done
      <4>1. /\ applied' = [applied EXCEPT ![c] = @ + 1]
            /\ created' = [created EXCEPT ![c] = @ + 1]
        BY <2>1, <3>1
      <4>2. applied \in [Calls -> Nat] /\ created \in [Calls -> Nat]
        BY DEF TypeOK
      <4>3. applied[c] + 1 \in Nat /\ created[c] + 1 \in Nat
        BY <4>2
      <4>4. QED
        BY <4>1, <4>2, <4>3
    <3>2. CASE ~o.done
        BY <2>1, <3>2 DEF TypeOK
    <3>3. QED
        BY <3>1, <3>2
  <2>6. QED
    BY <1>5, <2>4, <2>5 DEF Send, TypeOK
<1>6. CASE Receive(c)
  <2>1. CASE Resends(c)
    <3>1. [call[c] EXCEPT !.pc = "token", !.retried = TRUE] \in CallType
        BY CallTyped DEF CallType, Steps
    <3>2. QED
        BY <1>6, <2>1, <3>1 DEF Receive, TypeOK
  <2>2. CASE ~Resends(c) /\ Aside(c)
    <3>1. call' \in [Calls -> CallType]
        BY <2>2, FailTyped DEF Errors
    <3>2. QED
        BY <1>6, <3>1 DEF Receive, TypeOK
  <2>3. CASE Throw(c, ParseError(c)) /\ ParseError(c) # "none"
    <3>1. ParseError(c) \in Errors
        BY DEF ParseError, Errors
    <3>2. call' \in [Calls -> CallType]
        BY <2>3, <3>1, ThrowTyped
    <3>3. QED
        BY <1>6, <3>2 DEF Receive, TypeOK
  <2> DEFINE extra == IF call[c].req = "commit" THEN <<"committed">> ELSE << >>
  <2>4. CASE call' = [call EXCEPT ![c].pc = "log", ![c].extra = extra]
    <3>1. extra \in Seq({"dry_run", "committed"})
        BY Seqs
    <3> HIDE DEF extra
    <3>2. [call[c] EXCEPT !.pc = "log", !.extra = extra] \in CallType
        BY <3>1, CallTyped DEF CallType, Steps
    <3>3. call' \in [Calls -> CallType]
        BY <2>4, <3>2 DEF TypeOK
    <3>4. QED
        BY <1>6, <3>3 DEF Receive, TypeOK
  <2>5. QED
    BY <1>6, <2>1, <2>2, <2>3, <2>4 DEF Receive
<1>7. CASE LogSuccess(c)
  <2>1. [call[c] EXCEPT !.pc = "replied", !.reply = "result"] \in CallType
    BY CallTyped DEF CallType
  <2>2. call' \in [Calls -> CallType]
    BY <1>7, <2>1 DEF LogSuccess, TypeOK
  <2>3. trail' \in [Calls -> Seq(Entries)]
    BY <1>7, EntriesTyped, BufferTyped DEF LogSuccess
  <2>4. QED
    BY <1>7, <2>2, <2>3 DEF LogSuccess, TypeOK
<1>8. CASE LogThrows(c)
  <2>1. [call[c] EXCEPT !.pc = "catch", !.error = "log", !.entries = SuccessEntries(c)]
           \in CallType
    <3> DEFINE caught == [call[c] EXCEPT !.pc = "catch", !.error = "log"]
    <3>1. caught \in CallType
        BY CaughtTyped DEF Errors
    <3>2. SuccessEntries(c) \in Seq(Entries)
        BY EntriesTyped
    <3> DEFINE entries == SuccessEntries(c)
    <3> HIDE DEF caught, entries
    <3>3. [caught EXCEPT !.entries = entries] \in CallType
        BY <3>1, <3>2 DEF CallType, entries
    <3> USE DEF entries
    <3>4. QED
        BY <3>3 DEF caught
  <2>2. call' \in [Calls -> CallType]
    BY <1>8, <2>1 DEF LogThrows, TypeOK
  <2>3. trail' \in [Calls -> Seq(Entries)]
    BY <1>8, EntriesTyped, BufferTyped DEF LogThrows
  <2>4. logFault' \in [Calls -> BOOLEAN]
    BY <1>8 DEF LogThrows, TypeOK
  <2>5. QED
    BY <1>8, <2>2, <2>3, <2>4, FaultTyped DEF LogThrows, TypeOK
<1>9. CASE Catch(c)
  <2>1. ReplyTo(c) \in {"envelope", "error"}
    BY DEF ReplyTo
  <2>2. [call[c] EXCEPT !.pc = "replied", !.reply = ReplyTo(c)] \in CallType
    BY <2>1, CallTyped DEF CallType
  <2>3. call' \in [Calls -> CallType]
    BY <1>9, <2>2, GoTyped DEF Catch, TypeOK, CallSteps
  <2>4. trail' \in [Calls -> Seq(Entries)]
    BY <1>9, EntriesTyped, BufferTyped DEF Catch
  <2>5. QED
    BY <1>9, <2>3, <2>4 DEF Catch, TypeOK
<1>10. CASE CatchThrows(c)
  <2>1. [call[c] EXCEPT !.pc = "replied", !.reply = "thrown"] \in CallType
    BY CallTyped DEF CallType
  <2>2. call' \in [Calls -> CallType]
    BY <1>10, <2>1 DEF CatchThrows, TypeOK
  <2>3. trail' \in [Calls -> Seq(Entries)]
    BY <1>10, EntriesTyped, BufferTyped DEF CatchThrows
  <2>4. logFault' \in [Calls -> BOOLEAN]
    BY <1>10 DEF CatchThrows, TypeOK
  <2>5. QED
    BY <1>10, <2>2, <2>3, <2>4, FaultTyped DEF CatchThrows, TypeOK
<1>11. CASE Revoke(c)
  <2>1. ReplyTo(c) \in {"envelope", "error"}
    BY DEF ReplyTo
  <2>2. [call[c] EXCEPT !.pc = "replied", !.reply = ReplyTo(c)] \in CallType
    BY <2>1, CallTyped DEF CallType
  <2>3. call' \in [Calls -> CallType]
    BY <1>11, <2>2 DEF Revoke, TypeOK
  <2>4. revoked' \in [Calls -> {"no", "tried", "all"}] /\ faults' \in Nat
    BY <1>11, FaultTyped DEF Revoke, TypeOK
  <2>5. QED
    BY <1>11, <2>3, <2>4 DEF Revoke, TypeOK
<1>12. QED
    BY <1>1, <1>2, <1>3, <1>4, <1>5, <1>6, <1>7, <1>8, <1>9, <1>10, <1>11
       DEF CallStep, Step

LEMMA TypeNext == TypeOK /\ [Next]_vars => TypeOK'
<1> SUFFICES ASSUME TypeOK, [Next]_vars PROVE TypeOK'
    OBVIOUS
<1> USE DEF settings, hist
<1>1. ASSUME NEW c \in Calls, CallStep(c) PROVE TypeOK'
    BY <1>1, StepTyped
<1>2. ASSUME NEW value \in Values, SaveSetting(value) PROVE TypeOK'
  <2>1. mayWrite' \in [Calls -> BOOLEAN]
    BY <1>2, OnTyped DEF SaveSetting, TypeOK
  <2>2. QED
    BY <1>2, <2>1 DEF SaveSetting, TypeOK
<1>3. CASE KvSettles
    BY <1>3 DEF KvSettles, TypeOK
<1>4. CASE Restart
  <2>1. offered' \in BOOLEAN
    BY <1>4, OnTyped DEF Restart, TypeOK
  <2>2. \A c \in Calls : [call[c] EXCEPT !.pc = "replied", !.reply = "gone"] \in CallType
    BY CallTyped DEF CallType
  <2>3. call' \in [Calls -> CallType]
    BY <1>4, <2>2, CallTyped DEF Restart
  <2>4. QED
    BY <1>4, <2>1, <2>3, FaultTyped DEF Restart, TypeOK
<1>5. CASE UNCHANGED vars
    BY <1>5 DEF vars, TypeOK
<1>6. QED
    BY <1>1, <1>2, <1>3, <1>4, <1>5, NextSplit

(* Calls, settings, trails and histories keep their types, for any number  *)
(* of concurrent calls and of retries, changes and faults (index.ts:       *)
(* callTool and what it awaits).                                           *)
THEOREM CallTypeCorrect == Spec => []TypeOK
    BY TypeInit, TypeNext, PTL DEF Spec

-----------------------------------------------------------------------------
(* What holds of a call at each place.                                     *)

(* Acumatica has not got this attempt's request, or answered it with 401.  *)
Unsent(c) ==
    \/ call[c].pc \in {"idle", "gate", "limit", "token", "send"}
    \/ call[c].pc = "answer" /\ call[c].answer \in {"none", "401"}

Wrote(c) ==
    /\ applied[c] <= 1 /\ (Unsent(c) => applied[c] = 0)
    /\ applied[c] > 0 => call[c].req = "commit"
    /\ call[c].aside => call[c].req = "inquiry"
    /\ call[c].pc = "answer" /\ call[c].answer = "ok" /\ call[c].req = "commit" =>
          applied[c] = 1

(* A commit past the gate found the switch on, and mayWrite has noted it.  *)
Permits(c) ==
    /\ Running(c) => \A value \in seen : On(value) => mayWrite[c]
    /\ call[c].req = "commit" /\ call[c].pc \in {"limit", "token", "send", "answer"} =>
          mayWrite[c]
    /\ applied[c] > 0 => mayWrite[c]

(* The trail is empty until the reply is due; a caught error was thrown by *)
(* the limiter, the token manager or the client, before anything was       *)
(* recorded.                                                               *)
Records(c) ==
    /\ call[c].pc \in {"gate", "limit", "token", "send", "answer", "log"} =>
          /\ trail[c] = << >> /\ call[c].entries = << >>
          /\ call[c].error = "none"
    /\ call[c].pc \in {"gate", "limit", "token", "send", "answer"} =>
          call[c].extra = << >>
    /\ Running(c) => call[c].reply = "none"
    /\ call[c].pc = "log" /\ call[c].extra = <<"committed">> => applied[c] = 1
    /\ call[c].pc = "catch" /\ ~logFault[c] =>
          /\ trail[c] = << >> /\ call[c].entries = << >> /\ call[c].extra = << >>
          /\ call[c].error \in {"limited", "reauth", "api", "unconfirmed"}
    /\ call[c].pc = "revoke" /\ ~logFault[c] =>
          trail[c] = <<"error">> /\ call[c].extra = << >> /\ call[c].error = "reauth"
    /\ call[c].pc = "replied" /\ call[c].reply # "gone" /\ ~logFault[c] =>
          /\ trail[c] = TrailOf(c)
          /\ call[c].extra = <<"committed">> => applied[c] = 1

(* A failure that the model may take for one before the write is one.      *)
Counts(c) ==
    /\ ~blind[c] => created[c] = applied[c]
    /\ /\ call[c].pc \in {"catch", "revoke", "replied"} /\ ~logFault[c]
       /\ call[c].reply # "gone" /\ call[c].error \in {"limited", "reauth", "api"}
       /\ call[c].answer \notin {"lost", "error", "garbled"}
       => applied[c] = 0
    /\ call[c].pc = "replied" /\ call[c].reply \in {"error", "thrown"} /\ ~logFault[c] =>
          call[c].error \in {"reauth", "api", "unconfirmed"}

(* A dead token is thrown at once, caught, and answered by revoking.       *)
Evicts(c) ==
    /\ call[c].pc \notin {"catch", "revoke", "replied"} => ~dead[c]
    /\ call[c].pc = "catch" => (dead[c] <=> call[c].error = "reauth")
    /\ call[c].pc = "revoke" => dead[c]
    /\ call[c].pc \notin {"revoke", "replied"} => revoked[c] = "no"
    /\ revoked[c] # "no" => dead[c]
    /\ dead[c] /\ call[c].pc = "replied" /\ call[c].reply # "gone" /\ ~logFault[c] =>
          revoked[c] # "no"

Proper(c) == Wrote(c) /\ Permits(c) /\ Records(c) /\ Counts(c)
CallSafe(c) == Proper(c) /\ Evicts(c)
CallInv == \A c \in Calls : CallSafe(c)

LEMMA CallInvInit == Init => CallInv
    BY DEF Init, CallInv, CallSafe, Evicts, Proper, Wrote, Permits, Records, Counts, Unsent, Running, Steps, Idle

-----------------------------------------------------------------------------
(* A step of one call.                                                     *)

Frozen(d) ==
    /\ call'[d] = call[d] /\ trail'[d] = trail[d] /\ revoked'[d] = revoked[d]
    /\ mayWrite'[d] = mayWrite[d] /\ applied'[d] = applied[d] /\ created'[d] = created[d]
    /\ blind'[d] = blind[d] /\ logFault'[d] = logFault[d] /\ dead'[d] = dead[d]

LEMMA Untouched ==
    ASSUME TypeOK, NEW c \in Calls, CallStep(c), NEW d \in Calls, d # c
    PROVE  Frozen(d) /\ UNCHANGED <<envOn, seen>>
<1> USE DEF TypeOK, Frozen, settings, hist
<1>1. CASE Begin(c) \/ Retry(c)
  <2>1. PICK req : Dispatch(c, req)
    BY <1>1 DEF Begin, Retry
  <2>2. blind'[d] = blind[d]
    BY <1>1 DEF Begin, Retry
  <2>3. QED
    BY <2>1, <2>2 DEF Dispatch
<1>2. CASE Gate(c) \/ GateUnread(c)
    BY <1>2 DEF Gate, GateUnread, GateWith, Go
<1>3. CASE Admit(c) \/ GetToken(c) \/ Send(c) \/ Receive(c)
    BY <1>3 DEF Admit, GetToken, Send, Receive, Go, Fail, Aside, Throw
<1>4. CASE LogSuccess(c) \/ LogThrows(c) \/ Catch(c) \/ CatchThrows(c) \/ Revoke(c)
    BY <1>4 DEF LogSuccess, LogThrows, Catch, CatchThrows, Revoke, Go, Buffer
<1>5. QED
    BY <1>1, <1>2, <1>3, <1>4 DEF CallStep, Step

LEMMA FrozenKept ==
    ASSUME NEW d \in Calls, Frozen(d), UNCHANGED envOn, seen' \subseteq seen,
           CallSafe(d)
    PROVE  CallSafe(d)'
<1> USE DEF CallSafe, Proper
<1>1. Wrote(d)' /\ Counts(d)'
    BY DEF Frozen, Wrote, Counts, Unsent
<1>2. Permits(d)'
    BY DEF Frozen, Permits, Running, On
<1>3. Records(d)'
    BY DEF Frozen, Records, Running, Steps, TrailOf
<1>4. Evicts(d)'
    BY DEF Frozen, Evicts
<1>5. QED
    BY <1>1, <1>2, <1>3, <1>4

(* The entries of an attempt in which no log has failed.                   *)
LEMMA FirstEntries ==
    ASSUME TypeOK, NEW c \in Calls, trail[c] = << >>
    PROVE  /\ Buffer(c, SuccessEntries(c)) => trail'[c] = <<"success">> \o call[c].extra
           /\ Buffer(c, ErrorEntries(c)) /\ call[c].entries = << >>
                 /\ call[c].extra = << >> =>
              trail'[c] = IF call[c].error = "limited" THEN <<"error", "rate_limit">>
                          ELSE <<"error">>
<1>1. call[c].extra \in Seq(Entries)
    BY CallTyped, ExtraEntries DEF CallType
<1>2. SuccessEntries(c) \in Seq(Entries) /\ ErrorEntries(c) \in Seq(Entries)
    BY EntriesTyped
<1>3. << >> \o SuccessEntries(c) = SuccessEntries(c)
      /\ << >> \o ErrorEntries(c) = ErrorEntries(c)
    BY <1>2, ConcatEmptySeq
<1>4. Buffer(c, SuccessEntries(c)) => trail'[c] = SuccessEntries(c)
    BY <1>3 DEF Buffer, TypeOK
<1>5. Buffer(c, ErrorEntries(c)) => trail'[c] = ErrorEntries(c)
    BY <1>3 DEF Buffer, TypeOK
<1>6. ASSUME call[c].entries = << >>, call[c].extra = << >>
      PROVE  ErrorEntries(c) = IF call[c].error = "limited" THEN <<"error", "rate_limit">>
                               ELSE <<"error">>
  <2>1. << >> \o <<"error">> = <<"error">> /\ <<"error">> \o << >> = <<"error">>
    BY Seqs, ConcatEmptySeq
  <2>2. <<"error">> \o <<"rate_limit">> = <<"error", "rate_limit">>
    <3> DEFINE both == <<"error">> \o <<"rate_limit">>
    <3>1. /\ <<"error">> \in Seq(Entries) /\ <<"rate_limit">> \in Seq(Entries)
          /\ <<"error", "rate_limit">> \in Seq(Entries)
        BY Seqs DEF Entries
    <3>2. /\ both \in Seq(Entries) /\ Len(both) = 2
          /\ both[1] = "error" /\ both[2] = "rate_limit"
        BY <3>1, ConcatProperties
    <3> HIDE DEF both
    <3>3. both = <<"error", "rate_limit">>
        BY <3>1, <3>2, SeqEqual
    <3>4. QED
        BY <3>3 DEF both
  <2>3. <<"error", "rate_limit">> \o << >> = <<"error", "rate_limit">>
    BY ConcatEmptySeq DEF Entries
  <2>4. QED
    BY <1>6, <2>1, <2>2, <2>3 DEF ErrorEntries
<1>7. QED
    BY <1>4, <1>5, <1>6 DEF SuccessEntries

LEMMA NotCommitted ==
    << >> # <<"committed">> /\ <<"dry_run">> # <<"committed">>
<1>1. << >> # <<"committed">>
  <2>1. Len(<< >>) # Len(<<"committed">>)
    OBVIOUS
  <2>2. QED
    BY <2>1
<1>2. <<"dry_run">> # <<"committed">>
  <2>1. <<"dry_run">>[1] # <<"committed">>[1]
    OBVIOUS
  <2>2. QED
    BY <2>1
<1>3. QED
    BY <1>1, <1>2

(* Where a call stands once the load of the registry or of $metadata ended. *)
LEMMA AsideGoes ==
    ASSUME TypeOK, NEW c \in Calls, Aside(c)
    PROVE  /\ call'[c].pc \in {"limit", "log"} /\ ~call'[c].aside
           /\ call'[c].req = call[c].req /\ call'[c].extra = call[c].extra
           /\ call'[c].entries = call[c].entries /\ call'[c].error = call[c].error
           /\ call'[c].reply = call[c].reply
<1>1. PICK pc \in {"limit", "log"} :
         call' = [call EXCEPT ![c].pc = pc, ![c].aside = FALSE,
                              ![c].retried = FALSE, ![c].answer = "none"]
    BY DEF Aside
<1> DEFINE to == [call[c] EXCEPT !.pc = pc, !.aside = FALSE, !.retried = FALSE,
                                 !.answer = "none"]
<1>2. call'[c] = to
    BY <1>1 DEF TypeOK
<1>3. /\ to.pc = pc /\ ~to.aside /\ to.req = call[c].req /\ to.extra = call[c].extra
      /\ to.entries = call[c].entries /\ to.error = call[c].error
      /\ to.reply = call[c].reply
    BY CallTyped DEF CallType
<1> HIDE DEF to
<1>4. QED
    BY <1>2, <1>3

LEMMA DispatchKept ==
    ASSUME TypeOK, NEW c \in Calls, NEW req \in Requests, Dispatch(c, req),
           ~blind'[c] => created[c] = 0
    PROVE  Proper(c)'
<1> DEFINE to == [Idle EXCEPT !.pc = FirstStep(req), !.req = req, !.aside = (req = "inquiry")]
<1>1. FirstStep(req) \in {"gate", "limit", "log"}
    BY DEF FirstStep
<1>2. /\ to.pc = FirstStep(req) /\ to.req = req /\ to.answer = "none"
      /\ to.aside => req = "inquiry"
      /\ to.error = "none" /\ to.extra = << >> /\ to.entries = << >> /\ to.reply = "none"
    BY DEF Idle
<1>3. /\ call'[c] = to /\ trail'[c] = << >> /\ applied'[c] = 0
      /\ ~logFault'[c] /\ created' = created
      /\ mayWrite'[c] = \E value \in seen : On(value)
      /\ UNCHANGED <<envOn, seen>>
    BY DEF Dispatch, TypeOK, settings
<1>4. req = "commit" => to.pc = "gate"
    BY <1>2 DEF FirstStep, Writes
<1> HIDE DEF to
<1>5. Wrote(c)'
    BY <1>1, <1>2, <1>3 DEF Wrote, Unsent
<1>6. Permits(c)'
  <2>1. call'[c].req = "commit" => call'[c].pc = "gate"
    BY <1>2, <1>3, <1>4
  <2>2. \A value \in seen' : On(value)' => mayWrite'[c]
    BY <1>3 DEF On
  <2>3. QED
    BY <1>3, <2>1, <2>2 DEF Permits
<1>7. Records(c)'
    BY <1>1, <1>2, <1>3, NotCommitted DEF Records, Running, Steps
<1>8. Counts(c)'
    BY <1>1, <1>2, <1>3 DEF Counts
<1>9. QED
    BY <1>5, <1>6, <1>7, <1>8 DEF Proper

LEMMA GateKept ==
    ASSUME TypeOK, NEW c \in Calls, NEW on \in BOOLEAN, GateWith(c, on), Proper(c),
           on => mayWrite'[c], mayWrite[c] => mayWrite'[c],
           UNCHANGED <<envOn, seen, trail, applied, created, blind, logFault>>
    PROVE  Proper(c)'
<1> USE DEF Proper
<1>1. /\ call[c].pc = "gate" /\ UNCHANGED <<envOn, seen, trail, applied>>
      /\ applied[c] = 0 /\ trail[c] = << >>
      /\ call[c].entries = << >> /\ call[c].error = "none" /\ call[c].extra = << >>
      /\ call[c].reply = "none"
    BY DEF GateWith, Wrote, Unsent, Records, Running, Steps
<1> DEFINE extra == IF on /\ call[c].req = "preview" THEN <<"dry_run">> ELSE << >>
<1>2. /\ \/ call'[c].pc = "limit" /\ on /\ call'[c].extra = << >>
         \/ call'[c].pc = "log" /\ call'[c].extra \in {<<"dry_run">>, << >>}
      /\ call'[c].req = call[c].req /\ call'[c].aside = call[c].aside
      /\ call'[c].answer = call[c].answer
      /\ call'[c].error = "none" /\ call'[c].entries = << >> /\ call'[c].reply = "none"
  <2>1. CASE on /\ Go(c, "limit")
    BY <1>1, <2>1, CallTyped DEF Go, TypeOK, CallType
  <2>2. CASE call' = [call EXCEPT ![c].pc = "log", ![c].extra = extra]
    <3>1. extra \in {<<"dry_run">>, << >>}
        OBVIOUS
    <3> HIDE DEF extra
    <3>2. QED
        BY <1>1, <2>2, <3>1, CallTyped DEF TypeOK, CallType
  <2>3. QED
    BY <2>1, <2>2 DEF GateWith
<1> HIDE DEF extra
<1>3. Wrote(c)' /\ Counts(c)'
    BY <1>1, <1>2 DEF Wrote, Unsent, Counts
<1>4. Permits(c)'
    BY <1>1, <1>2 DEF Permits, Running, Steps, On
<1>5. Records(c)'
    BY <1>1, <1>2, NotCommitted DEF Records, Running, Steps
<1>6. QED
    BY <1>3, <1>4, <1>5

(* The limiter and the token manager, before anything is sent.             *)
LEMMA AdmitKept ==
    ASSUME TypeOK, NEW c \in Calls, Admit(c) \/ GetToken(c), Proper(c)
    PROVE  Proper(c)'
<1> USE DEF Proper
<1>1. /\ call[c].pc \in {"limit", "token"}
      /\ UNCHANGED <<envOn, seen, trail, mayWrite, applied, created, blind, logFault>>
    BY DEF Admit, GetToken, settings, hist
<1>2. /\ applied[c] = 0 /\ trail[c] = << >>
      /\ call[c].entries = << >> /\ call[c].error = "none" /\ call[c].extra = << >>
      /\ call[c].reply = "none"
    BY <1>1 DEF Wrote, Unsent, Records, Running, Steps
<1>3. /\ \/ call'[c].pc \in {"limit", "token", "send", "log"} /\ call'[c].error = "none"
         \/ call'[c].pc = "catch" /\ call'[c].error \in {"limited", "reauth", "api"}
      /\ call'[c].req = call[c].req
      /\ call'[c].aside = call[c].aside \/ ~call'[c].aside
      /\ (call'[c].pc = "catch" => call'[c].answer = call[c].answer)
      /\ call'[c].extra = << >> /\ call'[c].entries = << >> /\ call'[c].reply = "none"
  <2>1. CASE \E pc \in {"token", "send"} : Go(c, pc)
    BY <1>2, <2>1, CallTyped DEF Go, TypeOK, CallType
  <2>2. CASE Aside(c)
    BY <1>2, <2>2, AsideGoes
  <2>3. CASE \E error \in {"limited", "reauth", "api"} : Throw(c, error)
    <3>1. PICK error \in {"limited", "reauth", "api"} : Throw(c, error)
        BY <2>3
    <3>2. QED
        BY <1>2, <3>1, CallTyped DEF Throw, TypeOK, CallType
  <2>4. QED
    BY <2>1, <2>2, <2>3 DEF Admit, GetToken, Fail
<1>4. Wrote(c)' /\ Counts(c)'
    BY <1>1, <1>2, <1>3 DEF Wrote, Unsent, Counts
<1>5. Permits(c)'
    BY <1>1, <1>2, <1>3 DEF Permits, Running, Steps, On
<1>6. Records(c)'
    BY <1>1, <1>2, <1>3, NotCommitted DEF Records, Running, Steps
<1>7. QED
    BY <1>4, <1>5, <1>6

LEMMA SendKept ==
    ASSUME TypeOK, NEW c \in Calls, Send(c), Proper(c)
    PROVE  Proper(c)'
<1> USE DEF Proper
<1>1. /\ call[c].pc = "send"
      /\ UNCHANGED <<envOn, seen, trail, mayWrite, blind, logFault>>
    BY DEF Send, settings
<1>2. /\ applied[c] = 0 /\ trail[c] = << >>
      /\ call[c].entries = << >> /\ call[c].error = "none" /\ call[c].extra = << >>
      /\ call[c].reply = "none"
    BY <1>1 DEF Wrote, Unsent, Records, Running, Steps
<1>3. PICK o \in OutcomesOf(call[c].req) :
         /\ call' = [call EXCEPT ![c].pc = "answer", ![c].answer = o.answer]
         /\ IF o.done
            THEN /\ applied' = [applied EXCEPT ![c] = @ + 1]
                 /\ created' = [created EXCEPT ![c] = @ + 1]
            ELSE UNCHANGED <<applied, created>>
    BY DEF Send
<1>4. /\ call'[c].pc = "answer" /\ call'[c].answer = o.answer
      /\ call'[c].req = call[c].req /\ (call'[c].aside => call[c].aside)
      /\ call'[c].error = "none" /\ call'[c].extra = << >> /\ call'[c].entries = << >>
      /\ call'[c].reply = "none"
    BY <1>2, <1>3 DEF TypeOK
<1>5. /\ o.done \in BOOLEAN /\ o.answer # "none" /\ (o.answer = "401" => ~o.done)
      /\ o.done => call[c].req = "commit"
      /\ o.answer = "ok" /\ call[c].req = "commit" => o.done
    BY DEF OutcomesOf, Outcomes
<1>6. /\ applied'[c] = IF o.done THEN 1 ELSE 0
      /\ created'[c] = IF o.done THEN created[c] + 1 ELSE created[c]
  <2>1. CASE o.done
    <3>1. /\ applied' = [applied EXCEPT ![c] = @ + 1]
          /\ created' = [created EXCEPT ![c] = @ + 1]
        BY <1>3, <2>1
    <3>2. applied'[c] = applied[c] + 1 /\ created'[c] = created[c] + 1
        BY <3>1 DEF TypeOK
    <3>3. QED
        BY <1>2, <2>1, <3>2
  <2>2. CASE ~o.done
    BY <1>2, <1>3, <2>2
  <2>3. QED
    BY <2>1, <2>2
<1>7. Wrote(c)'
    BY <1>4, <1>5, <1>6 DEF Wrote, Unsent
<1>8. Permits(c)'
    BY <1>1, <1>4, <1>5, <1>6 DEF Permits, Running, Steps, On
<1>9. Records(c)'
    BY <1>1, <1>2, <1>4 DEF Records, Running, Steps
<1>10. Counts(c)'
    BY <1>1, <1>2, <1>4, <1>6 DEF Counts
<1>11. QED
    BY <1>7, <1>8, <1>9, <1>10

LEMMA ReceiveKept ==
    ASSUME TypeOK, NEW c \in Calls, Receive(c), Proper(c)
    PROVE  Proper(c)'
<1> USE DEF Proper
<1>1. /\ call[c].pc = "answer"
      /\ UNCHANGED <<envOn, seen, trail, mayWrite, applied, created, blind, logFault>>
    BY DEF Receive, settings, hist
<1>2. /\ trail[c] = << >>
      /\ call[c].entries = << >> /\ call[c].error = "none" /\ call[c].extra = << >>
      /\ call[c].reply = "none"
    BY <1>1 DEF Records, Running, Steps
<1>3. CASE Resends(c)
  <2>1. applied[c] = 0
    BY <1>1, <1>3 DEF Resends, Wrote, Unsent
  <2>2. /\ call'[c].pc = "token" /\ call'[c].req = call[c].req
        /\ call'[c].aside = call[c].aside /\ call'[c].extra = << >>
        /\ call'[c].entries = << >> /\ call'[c].error = "none" /\ call'[c].reply = "none"
    <3>1. call' = [call EXCEPT ![c].pc = "token", ![c].retried = TRUE]
        BY <1>3 DEF Receive
    <3>2. QED
        BY <1>2, <3>1, CallTyped DEF TypeOK, CallType
  <2>3. Wrote(c)' /\ Counts(c)'
    BY <1>1, <2>1, <2>2 DEF Wrote, Unsent, Counts
  <2>4. Permits(c)'
    BY <1>1, <2>1, <2>2 DEF Permits, Running, Steps, On
  <2>5. Records(c)'
    BY <1>1, <1>2, <2>2 DEF Records, Running, Steps
  <2>6. QED
    BY <2>3, <2>4, <2>5
<1>4. CASE Throw(c, ParseError(c)) /\ ParseError(c) # "none"
  <2>1. /\ call'[c].pc = "catch" /\ call'[c].error = ParseError(c)
        /\ call'[c].req = call[c].req /\ (call'[c].aside => call[c].aside)
        /\ call'[c].answer = call[c].answer
        /\ call'[c].extra = << >> /\ call'[c].entries = << >> /\ call'[c].reply = "none"
    BY <1>2, <1>4, CallTyped DEF Receive, Throw, TypeOK, CallType
  <2>2. ParseError(c) \in {"api", "unconfirmed"}
    BY <1>4 DEF ParseError
  <2>3. ASSUME ParseError(c) = "api", call[c].answer \notin {"lost", "error", "garbled"}
        PROVE  applied[c] = 0
    <3>1. call[c].answer \in {"none", "ok", "empty", "401"}
        BY <2>3, CallTyped DEF CallType
    <3>2. CASE call[c].answer \in {"none", "401"}
        BY <1>1, <3>2 DEF Wrote, Unsent
    <3>3. CASE call[c].answer \in {"ok", "empty"}
      <4>1. call[c].req # "commit"
        BY <2>3, <3>3 DEF ParseError
      <4>2. QED
        BY <4>1 DEF Wrote, TypeOK
    <3>4. QED
        BY <3>1, <3>2, <3>3
  <2>4. Wrote(c)'
    BY <1>1, <2>1 DEF Wrote, Unsent
  <2>5. Permits(c)'
    BY <1>1, <2>1 DEF Permits, Running, Steps, On
  <2>6. Records(c)'
    BY <1>1, <1>2, <2>1, <2>2 DEF Records, Running, Steps
  <2>7. Counts(c)'
    BY <1>1, <2>1, <2>2, <2>3 DEF Counts
  <2>8. QED
    BY <2>4, <2>5, <2>6, <2>7
<1> DEFINE extra == IF call[c].req = "commit" THEN <<"committed">> ELSE << >>
<1>5. CASE /\ ParseError(c) = "none" \/ ToldInWords(c)
           /\ call' = [call EXCEPT ![c].pc = "log", ![c].extra = extra]
  <2>1. /\ call'[c].pc = "log" /\ call'[c].req = call[c].req
        /\ (call'[c].aside => call[c].aside)
        /\ call'[c].extra = IF call[c].req = "commit" THEN <<"committed">> ELSE << >>
        /\ call'[c].entries = << >> /\ call'[c].error = "none" /\ call'[c].reply = "none"
    BY <1>2, <1>5, CallTyped DEF TypeOK, CallType
  <2>2. call[c].req = "commit" => applied[c] = 1
    BY <1>1, <1>5 DEF ParseError, ToldInWords, Wrote
  <2>3. Wrote(c)' /\ Counts(c)'
    BY <1>1, <2>1 DEF Wrote, Unsent, Counts
  <2>4. Permits(c)'
    BY <1>1, <2>1 DEF Permits, Running, Steps, On
  <2>5. Records(c)'
    BY <1>1, <1>2, <2>1, <2>2, NotCommitted DEF Records, Running, Steps
  <2>6. QED
    BY <2>3, <2>4, <2>5
<1>6. CASE call[c].aside /\ Aside(c)
  <2>1. applied[c] = 0
    BY <1>6 DEF Wrote, TypeOK
  <2>2. /\ call'[c].pc \in {"limit", "log"} /\ call'[c].req = call[c].req
        /\ call'[c].aside => call[c].aside
        /\ call'[c].extra = << >> /\ call'[c].entries = << >>
        /\ call'[c].error = "none" /\ call'[c].reply = "none"
    BY <1>2, <1>6, AsideGoes
  <2>3. Wrote(c)' /\ Counts(c)'
    BY <1>1, <2>1, <2>2 DEF Wrote, Unsent, Counts
  <2>4. Permits(c)'
    BY <1>1, <2>1, <2>2 DEF Permits, Running, Steps, On
  <2>5. Records(c)'
    BY <1>1, <1>2, <2>2, NotCommitted DEF Records, Running, Steps
  <2>6. QED
    BY <2>3, <2>4, <2>5
<1>7. QED
    BY <1>3, <1>4, <1>5, <1>6 DEF Receive

LEMMA LogKept ==
    ASSUME TypeOK, NEW c \in Calls, LogSuccess(c) \/ LogThrows(c), Proper(c)
    PROVE  Proper(c)'
<1> USE DEF Proper
<1>1. /\ call[c].pc = "log"
      /\ UNCHANGED <<envOn, seen, mayWrite, applied, created, blind>>
    BY DEF LogSuccess, LogThrows, settings, hist
<1>2. /\ trail[c] = << >> /\ call[c].error = "none"
      /\ call[c].reply = "none" /\ (call[c].extra = <<"committed">> => applied[c] = 1)
    BY <1>1 DEF Records, Running, Steps
<1>3. CASE LogSuccess(c)
  <2>1. /\ call'[c].pc = "replied" /\ call'[c].reply = "result"
        /\ call'[c].req = call[c].req /\ (call'[c].aside => call[c].aside)
        /\ call'[c].answer = call[c].answer
        /\ call'[c].error = "none" /\ call'[c].extra = call[c].extra
        /\ logFault' = logFault
    BY <1>2, <1>3, CallTyped DEF LogSuccess, TypeOK, CallType, hist
  <2>2. trail'[c] = <<"success">> \o call[c].extra
    BY <1>2, <1>3, FirstEntries DEF LogSuccess
  <2>3. Wrote(c)' /\ Permits(c)' /\ Counts(c)'
    BY <1>1, <2>1 DEF Wrote, Permits, Counts, Unsent, Running, Steps, On
  <2>4. Records(c)'
    <3>1. TrailOf(c)' = <<"success">> \o call[c].extra
        BY <2>1 DEF TrailOf
    <3>2. QED
        BY <1>1, <1>2, <2>1, <2>2, <3>1 DEF Records, Running, Steps
  <2>5. QED
    BY <2>3, <2>4
<1>4. CASE LogThrows(c)
  <2>1. /\ call'[c].pc = "catch" /\ call'[c].error = "log" /\ logFault'[c]
        /\ call'[c].req = call[c].req /\ (call'[c].aside => call[c].aside)
        /\ call'[c].answer = call[c].answer
        /\ call'[c].reply = "none"
    BY <1>2, <1>4, CallTyped DEF LogThrows, TypeOK, CallType
  <2>2. Wrote(c)' /\ Permits(c)' /\ Records(c)' /\ Counts(c)'
    BY <1>1, <2>1 DEF Wrote, Permits, Records, Counts, Unsent, Running, Steps, On
  <2>3. QED
    BY <2>2
<1>5. QED
    BY <1>3, <1>4

LEMMA CatchKept ==
    ASSUME TypeOK, NEW c \in Calls, Catch(c) \/ CatchThrows(c), Proper(c)
    PROVE  Proper(c)'
<1> USE DEF Proper
<1>1. /\ call[c].pc = "catch" /\ call[c].reply = "none"
      /\ UNCHANGED <<envOn, seen, mayWrite, applied, created, blind>>
    BY DEF Catch, CatchThrows, settings, hist, Records, Running, Steps
<1>2. CASE CatchThrows(c)
  <2>1. /\ call'[c].pc = "replied" /\ call'[c].reply = "thrown" /\ logFault'[c]
        /\ call'[c].req = call[c].req /\ (call'[c].aside => call[c].aside)
        /\ call'[c].answer = call[c].answer
    BY <1>2, CallTyped DEF CatchThrows, TypeOK, CallType
  <2>2. Wrote(c)' /\ Permits(c)' /\ Records(c)' /\ Counts(c)'
    BY <1>1, <2>1 DEF Wrote, Permits, Records, Counts, Unsent, Running, Steps, On
  <2>3. QED
    BY <2>2
<1>3. CASE Catch(c)
  <2>1. /\ \/ call'[c].pc = "revoke" /\ call[c].error = "reauth"
                 /\ call'[c].reply = "none"
           \/ call'[c].pc = "replied" /\ call[c].error # "reauth"
                 /\ call'[c].reply = ReplyTo(c)
        /\ call'[c].req = call[c].req /\ call'[c].aside = call[c].aside
        /\ call'[c].answer = call[c].answer
        /\ call'[c].error = call[c].error /\ call'[c].extra = call[c].extra
        /\ logFault' = logFault
    <3>1. logFault' = logFault
        BY <1>3 DEF Catch, hist
    <3>2. CASE call[c].error = "reauth" /\ Go(c, "revoke")
        BY <1>1, <3>1, <3>2, CallTyped DEF Go, TypeOK, CallType
    <3>3. CASE /\ call[c].error # "reauth"
               /\ call' = [call EXCEPT ![c].pc = "replied", ![c].reply = ReplyTo(c)]
        BY <1>1, <3>1, <3>3, CallTyped DEF TypeOK, CallType
    <3>4. QED
        BY <1>3, <3>2, <3>3 DEF Catch, Revokes
  <2>2. ASSUME ~logFault[c]
        PROVE  /\ call[c].extra = << >>
               /\ call[c].error \in {"limited", "reauth", "api", "unconfirmed"}
               /\ trail'[c] = IF call[c].error = "limited" THEN <<"error", "rate_limit">>
                              ELSE <<"error">>
    BY <1>1, <1>3, <2>2, FirstEntries DEF Catch, Records, Running, Steps
  <2>3. ReplyTo(c) = IF call[c].error = "limited" THEN "envelope" ELSE "error"
    BY DEF ReplyTo
  <2>4. Wrote(c)' /\ Permits(c)'
    BY <1>1, <2>1 DEF Wrote, Permits, Unsent, Running, Steps, On
  <2>5. Records(c)'
    <3>1. CASE logFault[c]
        BY <2>1, <3>1 DEF Records, Running, Steps
    <3>2. CASE ~logFault[c]
      <4>1. call'[c].pc = "replied" => trail'[c] = TrailOf(c)'
        BY <2>1, <2>2, <2>3, <3>2 DEF TrailOf
      <4>2. QED
        BY <1>1, <2>1, <2>2, <3>2, <4>1, NotCommitted DEF Records, Running, Steps
    <3>3. QED
        BY <3>1, <3>2
  <2>6. Counts(c)'
    BY <1>1, <2>1, <2>2, <2>3 DEF Counts
  <2>7. QED
    BY <2>4, <2>5, <2>6
<1>4. QED
    BY <1>2, <1>3

LEMMA RevokeKept ==
    ASSUME TypeOK, NEW c \in Calls, Revoke(c), Proper(c)
    PROVE  Proper(c)'
<1> USE DEF Proper
<1>1. /\ call[c].pc = "revoke" /\ call[c].reply = "none"
      /\ UNCHANGED <<envOn, seen, trail, mayWrite, applied, created, blind, logFault>>
    BY DEF Revoke, settings, hist, TypeOK, Records, Running, Steps
<1>2. /\ call'[c].pc = "replied" /\ call'[c].reply = ReplyTo(c)
      /\ call'[c].req = call[c].req /\ (call'[c].aside => call[c].aside)
      /\ call'[c].answer = call[c].answer
      /\ call'[c].error = call[c].error /\ call'[c].extra = call[c].extra
    BY CallTyped DEF Revoke, TypeOK, CallType
<1>3. ~logFault[c] => /\ trail[c] = <<"error">> /\ call[c].extra = << >>
                      /\ call[c].error = "reauth" /\ ReplyTo(c) = "error"
    BY <1>1 DEF Records, Running, Steps, ReplyTo
<1>4. Wrote(c)' /\ Permits(c)'
    BY <1>1, <1>2 DEF Wrote, Permits, Unsent, Running, Steps, On
<1>5. Records(c)'
  <2>1. ~logFault[c] => TrailOf(c)' = <<"error">>
    BY <1>2, <1>3 DEF TrailOf
  <2>2. QED
    BY <1>1, <1>2, <1>3, <2>1, NotCommitted DEF Records, Running, Steps
<1>6. Counts(c)'
    BY <1>1, <1>2, <1>3 DEF Counts, ReplyTo
<1>7. QED
    BY <1>4, <1>5, <1>6

(* A job is tried again knowingly only when it was not carried out.        *)
LEMMA RetryKept ==
    ASSUME TypeOK, NEW c \in Calls, Begin(c) \/ Retry(c), Proper(c)
    PROVE  Proper(c)'
<1>1. PICK req \in Requests : Dispatch(c, req)
    BY CallTyped DEF Begin, Retry, CallType
<1>2. ~blind'[c] => created[c] = 0
  <2>1. CASE Begin(c)
    BY <2>1 DEF Begin, Proper, Wrote, Unsent, Counts
  <2>2. CASE Retry(c) /\ ~blind'[c]
    <3>1. ~blind[c] /\ ~Unclear(c)
        BY <2>2 DEF Retry, TypeOK
    <3>2. call[c].pc = "replied" /\ call[c].reply \in {"error", "thrown"}
        BY <2>2, <3>1 DEF Retry, Unclear
    <3>3. call[c].error \in {"reauth", "api"}
        BY <2>2, <3>1, <3>2 DEF Retry, Unclear, Proper, Counts
    <3>4. applied[c] = 0
        BY <3>1, <3>2, <3>3 DEF Unclear, Proper, Counts
    <3>5. QED
        BY <3>1, <3>4 DEF Proper, Counts
  <2>3. QED
    BY <2>1, <2>2
<1>3. QED
    BY <1>1, <1>2, DispatchKept

LEMMA CallKept ==
    ASSUME TypeOK, NEW c \in Calls, CallStep(c), Proper(c)
    PROVE  Proper(c)'
<1>1. CASE Gate(c)
  <2>1. PICK value \in seen : GateWith(c, On(value))
    BY <1>1 DEF Gate
  <2>2. call[c].pc = "gate"
    BY <2>1 DEF GateWith
  <2>3. On(value) => mayWrite[c]
    BY <2>2 DEF Proper, Permits, Running, Steps
  <2>4. On(value) \in BOOLEAN
    BY OnTyped DEF TypeOK
  <2>5. UNCHANGED <<envOn, seen, trail, revoked, mayWrite, applied, created, blind, logFault>>
    BY <1>1 DEF Gate, settings, hist
  <2>6. QED
    BY <2>1, <2>3, <2>4, <2>5, GateKept
<1>2. CASE GateUnread(c)
  <2>1. /\ GateWith(c, envOn) /\ envOn \in BOOLEAN
        /\ UNCHANGED <<envOn, seen, trail, revoked, applied, created, blind, logFault>>
        /\ mayWrite'[c] = (mayWrite[c] \/ envOn)
    BY <1>2 DEF GateUnread, settings, TypeOK
  <2>2. QED
    BY <2>1, GateKept
<1>3. QED
    BY <1>1, <1>2, AdmitKept, SendKept, ReceiveKept, LogKept, CatchKept, RevokeKept,
       RetryKept DEF CallStep, Step

LEMMA EvictsKept ==
    ASSUME TypeOK, NEW c \in Calls, CallStep(c), Evicts(c)
    PROVE  Evicts(c)'
<1> USE DEF settings, hist
<1>1. CASE Begin(c) \/ Retry(c)
  <2>1. PICK req \in Requests : Dispatch(c, req)
    BY <1>1, CallTyped DEF Begin, Retry, CallType
  <2>2. FirstStep(req) \in {"gate", "limit", "log"}
    BY DEF FirstStep
  <2>3. call'[c].pc \in {"gate", "limit", "log"} /\ revoked'[c] = "no" /\ ~dead'[c]
    BY <2>1, <2>2 DEF Dispatch, TypeOK, Idle
  <2>4. QED
    BY <2>3 DEF Evicts
<1>2. CASE Gate(c) \/ GateUnread(c)
  <2>1. call[c].pc = "gate" /\ call'[c].pc \in {"limit", "log"} /\ UNCHANGED <<revoked, dead>>
    <3>1. UNCHANGED <<revoked, dead>> /\ \E on : GateWith(c, on)
        BY <1>2 DEF Gate, GateUnread
    <3>2. PICK on : GateWith(c, on)
        BY <3>1
    <3>3. call[c].pc = "gate" /\ call'[c].pc \in {"limit", "log"}
        BY <3>2, CallTyped DEF GateWith, Go, TypeOK, CallType
    <3>4. QED
        BY <3>1, <3>3
  <2>2. QED
    BY <2>1 DEF Evicts
<1>3. CASE Admit(c)
  <2>1. /\ call[c].pc = "limit" /\ UNCHANGED <<revoked, dead>>
        /\ \/ call'[c].pc \in {"limit", "token", "log"}
           \/ call'[c].pc = "catch" /\ call'[c].error = "limited"
    <3>1. call[c].pc = "limit" /\ UNCHANGED <<revoked, dead>>
        BY <1>3 DEF Admit
    <3>2. CASE Go(c, "token")
        BY <3>1, <3>2, CallTyped DEF Go, TypeOK, CallType
    <3>3. CASE Aside(c)
        BY <3>1, <3>3, AsideGoes
    <3>4. CASE Throw(c, "limited")
        BY <3>1, <3>4, CallTyped DEF Throw, TypeOK, CallType
    <3>5. QED
        BY <1>3, <3>2, <3>3, <3>4 DEF Admit, Fail
  <2>2. QED
    BY <2>1 DEF Evicts
<1>4. CASE GetToken(c)
  <2>1. call[c].pc = "token" /\ UNCHANGED revoked
    BY <1>4 DEF GetToken
  <2>2. CASE (Go(c, "send") \/ Fail(c, "api")) /\ UNCHANGED dead
    <3>1. \/ call'[c].pc \in {"send", "limit", "log"}
          \/ call'[c].pc = "catch" /\ call'[c].error = "api"
      <4>1. CASE Go(c, "send")
        BY <4>1, CallTyped DEF Go, TypeOK, CallType
      <4>2. CASE Aside(c)
        BY <4>2, AsideGoes
      <4>3. CASE Throw(c, "api")
        BY <4>3, CallTyped DEF Throw, TypeOK, CallType
      <4>4. QED
        BY <2>2, <4>1, <4>2, <4>3 DEF Fail
    <3>2. QED
        BY <2>1, <2>2, <3>1 DEF Evicts
  <2>3. CASE Fail(c, "reauth") /\ dead' = [dead EXCEPT ![c] = ~call[c].aside]
    <3>1. dead'[c] = ~call[c].aside
        BY <2>3 DEF TypeOK
    <3>2. CASE call[c].aside
      <4>1. call'[c].pc \in {"limit", "log"}
        BY <2>3, <3>2, AsideGoes DEF Fail
      <4>2. QED
        BY <2>1, <3>1, <3>2, <4>1 DEF Evicts
    <3>3. CASE ~call[c].aside
      <4>1. call'[c].pc = "catch" /\ call'[c].error = "reauth"
        <5>1. Throw(c, "reauth")
          BY <2>3, <3>3 DEF Fail
        <5>2. QED
          BY <5>1, CallTyped DEF Throw, TypeOK, CallType
      <4>2. QED
        BY <2>1, <3>1, <3>3, <4>1 DEF Evicts
    <3>4. QED
        BY <3>2, <3>3
  <2>4. QED
    BY <1>4, <2>2, <2>3 DEF GetToken
<1>5. CASE Send(c)
  <2>1. call[c].pc = "send" /\ call'[c].pc = "answer" /\ UNCHANGED <<revoked, dead>>
    BY <1>5, CallTyped DEF Send, TypeOK, CallType
  <2>2. QED
    BY <2>1 DEF Evicts
<1>6. CASE Receive(c)
  <2>1. ParseError(c) # "reauth"
    BY DEF ParseError
  <2>2. /\ call[c].pc = "answer" /\ UNCHANGED <<revoked, dead>>
        /\ \/ call'[c].pc \in {"token", "limit", "log"}
           \/ call'[c].pc = "catch" /\ call'[c].error = ParseError(c)
    <3>1. call[c].pc = "answer" /\ UNCHANGED <<revoked, dead>>
        BY <1>6 DEF Receive
    <3>2. CASE Resends(c)
      <4>1. call' = [call EXCEPT ![c].pc = "token", ![c].retried = TRUE]
        BY <1>6, <3>2 DEF Receive
      <4>2. QED
        BY <3>1, <4>1, CallTyped DEF TypeOK, CallType
    <3>3. CASE Aside(c)
        BY <3>1, <3>3, AsideGoes
    <3>4. CASE Throw(c, ParseError(c))
        BY <3>1, <3>4, CallTyped DEF Throw, TypeOK, CallType
    <3>5. CASE \E extra : call' = [call EXCEPT ![c].pc = "log", ![c].extra = extra]
        BY <3>1, <3>5, CallTyped DEF TypeOK, CallType
    <3>6. QED
        BY <1>6, <3>2, <3>3, <3>4, <3>5 DEF Receive
  <2>3. QED
    BY <2>1, <2>2 DEF Evicts
<1>7. CASE LogSuccess(c) \/ LogThrows(c)
  <2>1. /\ call[c].pc = "log" /\ UNCHANGED <<revoked, dead>>
        /\ \/ call'[c].pc = "replied"
           \/ call'[c].pc = "catch" /\ call'[c].error = "log"
    <3>1. CASE LogSuccess(c)
        BY <3>1, CallTyped DEF LogSuccess, TypeOK, CallType
    <3>2. CASE LogThrows(c)
      <4>1. call[c].pc = "log" /\ UNCHANGED <<revoked, dead>>
        BY <3>2 DEF LogThrows
      <4>2. call' = [call EXCEPT ![c].pc = "catch", ![c].error = "log",
                                 ![c].entries = SuccessEntries(c)]
        BY <3>2 DEF LogThrows
      <4>3. QED
        BY <4>1, <4>2, CallTyped DEF TypeOK, CallType
    <3>3. QED
        BY <1>7, <3>1, <3>2
  <2>2. QED
    BY <2>1 DEF Evicts
<1>8. CASE Catch(c)
  <2>1. /\ call[c].pc = "catch" /\ UNCHANGED <<revoked, dead>>
        /\ \/ call'[c].pc = "revoke" /\ call[c].error = "reauth"
           \/ call'[c].pc = "replied" /\ call[c].error # "reauth"
    <3>1. call[c].pc = "catch" /\ UNCHANGED <<revoked, dead>>
        BY <1>8 DEF Catch
    <3>2. CASE call[c].error = "reauth" /\ Go(c, "revoke")
        BY <3>1, <3>2, CallTyped DEF Go, TypeOK, CallType
    <3>3. CASE /\ call[c].error # "reauth"
               /\ call' = [call EXCEPT ![c].pc = "replied", ![c].reply = ReplyTo(c)]
        BY <3>1, <3>3, CallTyped DEF TypeOK, CallType
    <3>4. QED
        BY <1>8, <3>2, <3>3 DEF Catch, Revokes
  <2>2. QED
    BY <2>1 DEF Evicts
<1>9. CASE CatchThrows(c)
  <2>1. /\ call[c].pc = "catch" /\ UNCHANGED <<revoked, dead>>
        /\ call'[c].pc = "replied" /\ logFault'[c]
    BY <1>9, CallTyped DEF CatchThrows, TypeOK, CallType
  <2>2. QED
    BY <2>1 DEF Evicts
<1>10. CASE Revoke(c)
  <2>1. /\ call[c].pc = "revoke" /\ UNCHANGED dead
        /\ call'[c].pc = "replied" /\ revoked'[c] \in {"all", "tried"}
    BY <1>10, CallTyped DEF Revoke, TypeOK, CallType
  <2>2. QED
    BY <2>1 DEF Evicts
<1>11. QED
    BY <1>1, <1>2, <1>3, <1>4, <1>5, <1>6, <1>7, <1>8, <1>9, <1>10 DEF CallStep, Step

LEMMA CallInvNext == TypeOK /\ CallInv /\ [Next]_vars => CallInv'
<1> SUFFICES ASSUME TypeOK, CallInv, [Next]_vars, NEW d \in Calls PROVE CallSafe(d)'
    BY DEF CallInv
<1>1. CallSafe(d) /\ Proper(d) /\ Evicts(d)
    BY DEF CallInv, CallSafe
<1>2. ASSUME NEW c \in Calls, CallStep(c) PROVE CallSafe(d)'
  <2>1. CASE d = c
    BY <1>1, <1>2, <2>1, CallKept, EvictsKept DEF CallSafe
  <2>2. CASE d # c
    BY <1>1, <1>2, <2>2, Untouched, FrozenKept
  <2>3. QED
    BY <2>1, <2>2
<1>3. ASSUME NEW value \in Values, SaveSetting(value) PROVE CallSafe(d)'
  <2>1. /\ call' = call /\ seen' = seen \union {value}
        /\ mayWrite'[d] = (mayWrite[d] \/ On(value))
        /\ UNCHANGED <<envOn, trail, revoked, applied, created, blind, logFault, dead>>
    BY <1>3 DEF SaveSetting, TypeOK
  <2>2. Wrote(d)' /\ Records(d)' /\ Counts(d)'
    BY <1>1, <2>1 DEF Proper, Wrote, Records, Running, Steps, Counts, Unsent, TrailOf
  <2>3. Permits(d)'
    BY <1>1, <2>1 DEF Proper, Permits, Running, On
  <2>4. Evicts(d)'
    BY <1>1, <2>1 DEF Evicts
  <2>5. QED
    BY <2>2, <2>3, <2>4 DEF CallSafe, Proper
<1>4. CASE KvSettles \/ UNCHANGED vars
  <2>1. Frozen(d) /\ UNCHANGED envOn /\ seen' \subseteq seen
    BY <1>4 DEF KvSettles, vars, settings, hist, Frozen, TypeOK
  <2>2. QED
    BY <1>1, <2>1, FrozenKept
<1>5. CASE Restart
  <2>1. UNCHANGED <<envOn, seen, trail, revoked, mayWrite, applied, created, blind, logFault, dead>>
    BY <1>5 DEF Restart, settings, hist
  <2>2. CASE Running(d)
    <3>1. /\ call'[d].pc = "replied" /\ call'[d].reply = "gone"
          /\ call'[d].req = call[d].req /\ call'[d].aside = call[d].aside
        BY <1>5, <2>2, CallTyped DEF Restart, CallType
    <3>2. Wrote(d)' /\ Permits(d)' /\ Records(d)' /\ Counts(d)'
        BY <1>1, <2>1, <3>1 DEF Proper, Wrote, Permits, Records, Counts, Unsent, Running, Steps
    <3>3. Evicts(d)'
        BY <1>1, <2>1, <3>1 DEF Evicts
    <3>4. QED
        BY <3>2, <3>3 DEF CallSafe, Proper
  <2>3. CASE ~Running(d)
    <3>1. Frozen(d)
        BY <1>5, <2>1, <2>3 DEF Restart, Frozen
    <3>2. QED
        BY <1>1, <2>1, <3>1, FrozenKept
  <2>4. QED
    BY <2>2, <2>3
<1>6. QED
    BY <1>2, <1>3, <1>4, <1>5, NextSplit

LEMMA CallInvAlways == Spec => [](TypeOK /\ CallInv)
    BY TypeInit, TypeNext, CallInvInit, CallInvNext, PTL DEF Spec

-----------------------------------------------------------------------------
(* acumatica-client.ts:234-238: the retry after a 401 never carries a      *)
(* write out twice within one attempt.                                     *)
THEOREM OncePerAttemptAlways == Spec => []OncePerAttempt
<1>1. CallInv => OncePerAttempt
    BY DEF CallInv, CallSafe, Proper, Wrote, OncePerAttempt
<1>2. QED
    BY CallInvAlways, <1>1, PTL

(* config.ts:26-41, writer-registry.ts:143-150: no call writes while the   *)
(* switch cannot be read as on, whatever tools its session was offered,    *)
(* for any number of changes, restarts and concurrent calls.               *)
THEOREM OffSwitchAlways == Spec => []OffSwitch
<1>1. CallInv => OffSwitch
    BY DEF CallInv, CallSafe, Proper, Permits, OffSwitch
<1>2. QED
    BY CallInvAlways, <1>1, PTL

(* index.ts:684-801: without a failing log, the trail of a finished call   *)
(* says what its reply says.                                               *)
THEOREM TrailMatchesReplyAlways == Spec => []TrailMatchesReply
<1>1. CallInv => TrailMatchesReply
    BY DEF CallInv, CallSafe, Proper, Records, Running, Steps, TrailMatchesReply
<1>2. QED
    BY CallInvAlways, <1>1, PTL

(* index.ts:803-809, 650-666: exactly the calls whose own request met a    *)
(* token that is dead for good set about revoking the user's grants, and   *)
(* before they reply, unless the log or the object fails first; that the   *)
(* grants are gone is not promised.                                        *)
THEOREM EvictionTriedAlways == Spec => []EvictionTried
<1>1. CallInv => EvictionTried
    BY DEF CallInv, CallSafe, Evicts, EvictionTried
<1>2. QED
    BY CallInvAlways, <1>1, PTL

(* response-parse.ts:59-71: a write is repeated only after a failure that  *)
(* tells the model nothing of it, for any number of retries.               *)
THEOREM RepeatedOnlyBlindlyAlways == Spec => []RepeatedOnlyBlindly
<1>1. TypeOK /\ CallInv => RepeatedOnlyBlindly
  <2> SUFFICES ASSUME TypeOK, CallInv, NEW c \in Calls, created[c] > 1, ~blind[c]
               PROVE  FALSE
    BY DEF RepeatedOnlyBlindly, TypeOK
  <2>1. created[c] = applied[c] /\ applied[c] <= 1
    BY DEF CallInv, CallSafe, Proper, Wrote, Counts
  <2>2. QED
    BY <2>1 DEF TypeOK
<1>2. QED
    BY CallInvAlways, <1>1, PTL
=============================================================================
