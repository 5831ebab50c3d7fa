------------------------------ MODULE ToolCall ------------------------------
(***************************************************************************)
(* One MCP session's tool calls from dispatch to reply: callTool of        *)
(* src/src/index.ts around runGetter and runWriter, the Acumatica client   *)
(* they call, and the writes_enabled setting an admin may change at any    *)
(* time.  Calls of a session run concurrently; the code between two awaits *)
(* is one step.  The limiter, the token manager and the log buffer have    *)
(* modules of their own and appear here by their outcomes.                 *)
(***************************************************************************)
EXTENDS Naturals, Sequences, FiniteSets

CONSTANTS
    Calls,          \* calls of the session, each for one job of the model
    MaxRetries,     \* bound: jobs the model tries again
    MaxSaves,       \* bound: changes of the setting
    MaxFaults       \* bound: failed setting reads, log writes and revocations,
                    \* restarts

ASSUME BoundsAssumption ==
    MaxRetries \in Nat /\ MaxSaves \in Nat /\ MaxFaults \in Nat

VARIABLES
    envOn,       \* ACUMATICA_WRITES_ENABLED says true
    setting,     \* config:writes_enabled, "none" when there is no override
    seen,        \* values a read of it may return: KV is eventually consistent
    saves, faults,
    offered,     \* the writer tools are enabled in this session
    call,        \* call[c]: where the call stands
    retries,     \* how often a job has been tried again
    trail,       \* trail[c]: log entries of this attempt that were buffered
    revoked,     \* revoked[c]: what this attempt did to the user's grants
    mayWrite,    \* history: since the attempt began the switch could be read on
    applied,     \* history: times Acumatica carried out this attempt's write
    created,     \* history: ... and all attempts of the job together
    blind,       \* history: why the job was retried after it was carried out
    logFault,    \* history: bufferLogs has thrown in this attempt
    dead         \* history: this attempt's own request met a dead token

settings == <<envOn, setting, seen, saves>>
hist == <<mayWrite, applied, created, blind, logFault, dead>>
vars == <<settings, faults, offered, call, retries, trail, revoked, hist>>

-----------------------------------------------------------------------------
Values == {"none", "true", "false"}

(* What the arguments come to: a read; an inquiry that first has to load   *)
(* the registry or $metadata; a read whose key is missing; a write that    *)
(* would not validate; a preview; a write to commit.                       *)
Requests == {"read", "inquiry", "unkeyed", "invalid", "preview", "commit"}
Writes == {"invalid", "preview", "commit"}

(* Who threw: the limiter, the token manager, an Acumatica answer, a write *)
(* that cannot be confirmed, or bufferLogs.                                *)
Errors == {"none", "limited", "reauth", "api", "unconfirmed", "log"}

Steps == {"gate", "limit", "token", "send", "answer", "log", "catch", "revoke"}
Entries == {"success", "error", "rate_limit", "dry_run", "committed"}

(* Acumatica, once it has the request: did it carry the write out, and     *)
(* what comes back.  A 401 is sent before any write.                       *)
Outcomes ==
    {o \in [done: BOOLEAN, answer: {"ok", "empty", "garbled", "error", "lost", "401"}] :
        /\ o.answer = "401" => ~o.done}
(* A read changes nothing; a write that is answered with the record was    *)
(* carried out.                                                            *)
OutcomesOf(req) ==
    {o \in Outcomes : IF req = "commit" THEN o.answer = "ok" => o.done ELSE ~o.done}

(* aside: the request under way is one of getGiRegistry or loadGiMetadata, *)
(* which keep its failure from the tool.                                   *)
CallType ==
    [pc: Steps \union {"idle", "replied"}, req: Requests, aside: BOOLEAN,
     retried: BOOLEAN,
     answer: {"none", "ok", "empty", "garbled", "error", "lost", "401"},
     error: Errors, extra: Seq({"dry_run", "committed"}), entries: Seq(Entries),
     reply: {"none", "result", "error", "envelope", "thrown", "gone"}]

Idle == [pc |-> "idle", req |-> "read", aside |-> FALSE, retried |-> FALSE,
         answer |-> "none", error |-> "none", extra |-> << >>, entries |-> << >>,
         reply |-> "none"]

Running(c) == call[c].pc \in Steps

(* writesEnabled of what getConfig makes of a value: the override, or the  *)
(* environment variable if there is none or it cannot be read.             *)
On(value) == value = "true" \/ (value = "none" /\ envOn)

TypeOK ==
    /\ envOn \in BOOLEAN /\ setting \in Values
    /\ seen \subseteq Values /\ setting \in seen
    /\ saves \in Nat /\ faults \in Nat /\ offered \in BOOLEAN
    /\ call \in [Calls -> CallType]
    /\ retries \in Nat
    /\ trail \in [Calls -> Seq(Entries)]
    /\ revoked \in [Calls -> {"no", "tried", "all"}] /\ mayWrite \in [Calls -> BOOLEAN]
    /\ applied \in [Calls -> Nat] /\ created \in [Calls -> Nat]
    /\ blind \in [Calls -> BOOLEAN] /\ logFault \in [Calls -> BOOLEAN]
    /\ dead \in [Calls -> BOOLEAN]

Init ==
    /\ envOn \in BOOLEAN /\ setting \in Values /\ seen = {setting}
    /\ saves = 0 /\ faults = 0
    /\ offered = On(setting)
    /\ call = [c \in Calls |-> Idle]
    /\ retries = 0
    /\ trail = [c \in Calls |-> << >>]
    /\ revoked = [c \in Calls |-> "no"]
    /\ mayWrite = [c \in Calls |-> FALSE]
    /\ applied = [c \in Calls |-> 0] /\ created = [c \in Calls |-> 0]
    /\ blind = [c \in Calls |-> FALSE] /\ logFault = [c \in Calls |-> FALSE]
    /\ dead = [c \in Calls |-> FALSE]

Fault == faults < MaxFaults /\ faults' = faults + 1

(* The call moves on to pc, some of its fields changed.                    *)
Go(c, pc) == call' = [call EXCEPT ![c].pc = pc]
Throw(c, error) == call' = [call EXCEPT ![c].pc = "catch", ![c].error = error]

-----------------------------------------------------------------------------
(* setConfig and deleteConfig, on a save or a reset in the console.         *)
SaveSetting(value) ==
    /\ saves < MaxSaves /\ saves' = saves + 1
    /\ setting' = value /\ seen' = seen \union {value}
    /\ mayWrite' = [c \in Calls |-> mayWrite[c] \/ On(value)]
    /\ UNCHANGED <<envOn, faults, offered, call, retries, trail, revoked,
                   applied, created, blind, logFault, dead>>

KvSettles ==
    /\ seen # {setting} /\ seen' = {setting}
    /\ UNCHANGED <<envOn, setting, saves, faults, offered, call, retries, trail,
                   revoked, hist>>

(* The object is evicted, its calls with it, and init runs again: the      *)
(* writer tools are enabled or not for the life of the new instance.       *)
Restart ==
    /\ Fault
    /\ \E value \in seen : offered' = On(value)
    /\ call' = [c \in Calls |->
                  IF Running(c) THEN [call[c] EXCEPT !.pc = "replied", !.reply = "gone"]
                  ELSE call[c]]
    /\ UNCHANGED <<settings, retries, trail, revoked, hist>>

-----------------------------------------------------------------------------
(* A tool is called.  The SDK rejects calls of a disabled tool.  runGetter *)
(* returns an error for a missing key, else it goes to the client at once. *)
FirstStep(req) ==
    CASE req \in Writes -> "gate" [] req = "unkeyed" -> "log" [] OTHER -> "limit"

Dispatch(c, req) ==
    /\ req \in Writes => offered
    /\ call' = [call EXCEPT ![c] = [Idle EXCEPT !.pc = FirstStep(req), !.req = req,
                                                !.aside = req = "inquiry"]]
    /\ trail' = [trail EXCEPT ![c] = << >>]
    /\ revoked' = [revoked EXCEPT ![c] = "no"]
    /\ mayWrite' = [mayWrite EXCEPT ![c] = \E value \in seen : On(value)]
    /\ applied' = [applied EXCEPT ![c] = 0]
    /\ logFault' = [logFault EXCEPT ![c] = FALSE]
    /\ dead' = [dead EXCEPT ![c] = FALSE]
    /\ UNCHANGED <<settings, faults, offered, created>>

Begin(c) ==
    /\ call[c].pc = "idle"
    /\ \E req \in Requests : Dispatch(c, req)
    /\ UNCHANGED <<blind, retries>>

(* The model tries again what it was told has failed, unless it was told   *)
(* not to.  blind: Acumatica had carried it out, and the reply did not     *)
(* come from a write it had confirmed or refused.                          *)
Unclear(c) ==
    \/ call[c].answer \in {"lost", "error", "garbled"}
    \/ call[c].reply = "gone" \/ logFault[c]

Retry(c) ==
    /\ call[c].pc = "replied" /\ retries < MaxRetries /\ retries' = retries + 1
    /\ call[c].reply \in {"error", "thrown", "gone"} /\ call[c].error # "unconfirmed"
    /\ blind' = [blind EXCEPT ![c] = @ \/ Unclear(c)]
    /\ Dispatch(c, call[c].req)

-----------------------------------------------------------------------------
(* runWriter: the kill switch is read on every call, then the payload is   *)
(* checked; a preview is recorded and returned.  What is returned without  *)
(* a throw counts as a success, an error message included.                 *)
GateWith(c, on) ==
    /\ call[c].pc = "gate"
    /\ IF on /\ call[c].req = "commit" THEN Go(c, "limit")
       ELSE call' = [call EXCEPT
                       ![c].pc = "log",
                       ![c].extra = IF on /\ call[c].req = "preview"
                                    THEN <<"dry_run">> ELSE << >>]

(* The mutant trusts what was read when the session started.               *)
GateAsOffered(c) ==
    /\ GateWith(c, offered)
    /\ UNCHANGED <<settings, faults, offered, retries, trail, revoked, hist>>

Gate(c) ==
    /\ \E value \in seen : GateWith(c, On(value))
    /\ UNCHANGED <<settings, faults, offered, retries, trail, revoked, hist>>

(* The read fails: getConfig falls back to the environment variable.       *)
GateUnread(c) ==
    /\ GateWith(c, envOn)
    /\ Fault
    /\ mayWrite' = [mayWrite EXCEPT ![c] = @ \/ envOn]
    /\ UNCHANGED <<settings, offered, retries, trail, revoked, applied, created,
                   blind, logFault, dead>>

-----------------------------------------------------------------------------
(* AcumaticaClient.get, getOData, getODataMetadata and put.                *)

(* After the registry or $metadata is loaded, or could not be: the tool    *)
(* asks what it was called for, or answers in words (gated, refused,       *)
(* $metadata not available).                                               *)
Aside(c) ==
    \E pc \in {"limit", "log"} :
        call' = [call EXCEPT ![c].pc = pc, ![c].aside = FALSE, ![c].retried = FALSE,
                             ![c].answer = "none"]

(* getGiRegistry only logs a failed build, loadGiMetadata takes a failure  *)
(* for "not available": a rate limit or a dead token goes no further.      *)
Fail(c, error) == IF call[c].aside THEN Aside(c) ELSE Throw(c, error)

Admit(c) ==
    /\ call[c].pc = "limit"
    /\ Go(c, "token") \/ Fail(c, "limited")
    /\ UNCHANGED <<settings, faults, offered, retries, trail, revoked, hist>>

(* The token manager's answer: a token, a token that is dead for good, or  *)
(* a failure that may pass.                                                *)
GetToken(c) ==
    /\ call[c].pc = "token"
    /\ \/ (Go(c, "send") \/ Fail(c, "api")) /\ UNCHANGED dead
       \/ Fail(c, "reauth") /\ dead' = [dead EXCEPT ![c] = ~call[c].aside]
    /\ UNCHANGED <<settings, faults, offered, retries, trail, revoked, mayWrite,
                   applied, created, blind, logFault>>

(* The request is sent; Acumatica has it until the answer arrives.         *)
Send(c) ==
    /\ call[c].pc = "send"
    /\ \E o \in OutcomesOf(call[c].req) :
          /\ call' = [call EXCEPT ![c].pc = "answer", ![c].answer = o.answer]
          /\ IF o.done
             THEN /\ applied' = [applied EXCEPT ![c] = @ + 1]
                  /\ created' = [created EXCEPT ![c] = @ + 1]
             ELSE UNCHANGED <<applied, created>>
    /\ UNCHANGED <<settings, faults, offered, retries, trail, revoked, mayWrite,
                   blind, logFault, dead>>

(* A first 401 is retried with the token asked for again.  The mutants     *)
(* retry on any failure, or without end.                                   *)
ResendsAnyFailure(c) ==
    call[c].answer \in {"401", "error", "lost"} /\ ~call[c].retried
ResendsForever(c) == call[c].answer = "401"
Resends(c) == call[c].answer = "401" /\ ~call[c].retried

(* parseAcumaticaJson: an empty body means that the outcome of a write is  *)
(* unknown.  The mutant leaves out that the request was a write.           *)
ParseErrorAsRead(c) == IF call[c].answer = "ok" THEN "none" ELSE "api"
ParseError(c) ==
    CASE call[c].answer = "ok" -> "none"
      [] call[c].req = "commit" /\ call[c].answer = "empty" -> "unconfirmed"
      [] OTHER -> "api"

(* The inquiry tools and acumatica_list_entities return some of            *)
(* Acumatica's errors in words, which counts as a success.  (EntityList    *)
(* has what acumatica_list_entities tries again.)                          *)
ToldInWords(c) ==
    /\ call[c].req \in {"read", "inquiry"}
    /\ call[c].answer \in {"error", "empty", "garbled", "401"}

(* runWriter records the mutation once put has returned.                   *)
Receive(c) ==
    /\ call[c].pc = "answer"
    /\ IF Resends(c)
       THEN call' = [call EXCEPT ![c].pc = "token", ![c].retried = TRUE]
       ELSE IF call[c].aside THEN Aside(c)
       ELSE \/ /\ ParseError(c) = "none" \/ ToldInWords(c)
               /\ call' = [call EXCEPT
                     ![c].pc = "log",
                     ![c].extra = IF call[c].req = "commit"
                                  THEN <<"committed">> ELSE << >>]
            \/ /\ ParseError(c) # "none"
               /\ Throw(c, ParseError(c))
    /\ UNCHANGED <<settings, faults, offered, retries, trail, revoked, hist>>

-----------------------------------------------------------------------------
(* callTool's end.  r2Entries outlives the try: what a throwing bufferLogs *)
(* was given is in it again when the catch calls bufferLogs.  The mutant   *)
(* leaves the mutation entry to the console log.                           *)
SuccessEntriesBare(c) == <<"success">>
SuccessEntries(c) == <<"success">> \o call[c].extra
ErrorEntries(c) ==
    call[c].entries \o <<"error">>
        \o (IF call[c].error = "limited" THEN <<"rate_limit">> ELSE << >>)
        \o call[c].extra

Buffer(c, entries) == trail' = [trail EXCEPT ![c] = @ \o entries]

LogSuccess(c) ==
    /\ call[c].pc = "log"
    /\ call' = [call EXCEPT ![c].pc = "replied", ![c].reply = "result"]
    /\ Buffer(c, SuccessEntries(c))
    /\ UNCHANGED <<settings, faults, offered, retries, revoked, hist>>

(* bufferLogs throws, before or after the entries are in the buffer.       *)
LogThrows(c) ==
    /\ call[c].pc = "log"
    /\ Fault
    /\ call' = [call EXCEPT ![c].pc = "catch", ![c].error = "log",
                            ![c].entries = SuccessEntries(c)]
    /\ Buffer(c, SuccessEntries(c)) \/ UNCHANGED trail
    /\ logFault' = [logFault EXCEPT ![c] = TRUE]
    /\ UNCHANGED <<settings, offered, retries, revoked, mayWrite, applied, created,
                   blind, dead>>

(* The mutant revokes for a transient failure too.                         *)
RevokesOnAnyFailure(c) == call[c].error \in {"reauth", "api"}
Revokes(c) == call[c].error = "reauth"

ReplyTo(c) == IF call[c].error = "limited" THEN "envelope" ELSE "error"

Catch(c) ==
    /\ call[c].pc = "catch"
    /\ Buffer(c, ErrorEntries(c))
    /\ IF Revokes(c) THEN Go(c, "revoke")
       ELSE call' = [call EXCEPT ![c].pc = "replied", ![c].reply = ReplyTo(c)]
    /\ UNCHANGED <<settings, faults, offered, retries, revoked, hist>>

(* bufferLogs throws once more: callTool rejects, and nothing is revoked.  *)
CatchThrows(c) ==
    /\ call[c].pc = "catch"
    /\ Fault
    /\ call' = [call EXCEPT ![c].pc = "replied", ![c].reply = "thrown"]
    /\ Buffer(c, ErrorEntries(c)) \/ UNCHANGED trail
    /\ logFault' = [logFault EXCEPT ![c] = TRUE]
    /\ UNCHANGED <<settings, offered, retries, revoked, mayWrite, applied, created,
                   blind, dead>>

(* revokeUserGrantsForReauth: by best effort.  Without a user name, with a *)
(* listing that fails, or with a grant that cannot be revoked, some of     *)
(* them stay, and the reply is sent all the same.                          *)
Revoke(c) ==
    /\ call[c].pc = "revoke"
    /\ \/ revoked' = [revoked EXCEPT ![c] = "all"] /\ UNCHANGED faults
       \/ revoked' = [revoked EXCEPT ![c] = "tried"] /\ Fault
    /\ call' = [call EXCEPT ![c].pc = "replied", ![c].reply = ReplyTo(c)]
    /\ UNCHANGED <<settings, offered, retries, trail, hist>>

-----------------------------------------------------------------------------
Step(c) ==
    \/ Gate(c) \/ Admit(c) \/ GetToken(c) \/ Send(c) \/ Receive(c)
    \/ LogSuccess(c) \/ Catch(c) \/ Revoke(c)

Next ==
    \/ \E value \in Values : SaveSetting(value)
    \/ KvSettles \/ Restart
    \/ \E c \in Calls :
          \/ Begin(c) \/ Retry(c) \/ Step(c)
          \/ GateUnread(c) \/ LogThrows(c) \/ CatchThrows(c)

(* What a call awaits comes: every fetch, KV read and storage write ends.  *)
Fairness == \A c \in Calls : WF_vars(Step(c))

Spec     == Init /\ [][Next]_vars
FairSpec == Spec /\ Fairness
-----------------------------------------------------------------------------
(* acumatica-client.ts:234-238: re-sending a write after a 401 cannot      *)
(* carry it out twice.                                                     *)
OncePerAttempt == \A c \in Calls : applied[c] <= 1

(* response-parse.ts:59-71: a model that does as it is told repeats a      *)
(* write that was carried out only after a lost answer, an error status,   *)
(* a body that is no JSON, a restart or a failing log: never after a reply *)
(* that confirms it, and never after an empty one.                         *)
RepeatedOnlyBlindly ==
    \A c \in Calls : created[c] > 1 => blind[c]

(* The kill switch: nothing is written by a call during all of which the   *)
(* switch read off, whatever tools the session was offered; the exception  *)
(* is a switch that cannot be read while the environment says on.          *)
OffSwitch == \A c \in Calls : applied[c] > 0 => mayWrite[c]

(* The durable trail agrees with the reply: one invocation entry, with the *)
(* status the model was told; a mutation entry beside it exactly for a     *)
(* preview or a confirmed commit; a rate-limit entry exactly with the      *)
(* envelope.  A failing log and a restart are the exceptions.              *)
TrailOf(c) ==
    CASE call[c].reply = "envelope" -> <<"error", "rate_limit">>
      [] call[c].reply = "error"    -> <<"error">>
      [] OTHER -> <<"success">> \o call[c].extra
TrailMatchesReply ==
    \A c \in Calls :
        call[c].pc = "replied" /\ call[c].reply # "gone" /\ ~logFault[c] =>
           /\ trail[c] = TrailOf(c)
           /\ call[c].extra = <<"committed">> => applied[c] = 1

(* A call sets about revoking the user's grants exactly when its own       *)
(* request was told that the token is dead for good, and before it         *)
(* replies, unless the log or the object fails first.  Whether the grants  *)
(* are gone is up to their store, and a dead token that only the load of   *)
(* the registry or of $metadata has met evicts nothing.                    *)
EvictionTried ==
    \A c \in Calls :
        /\ revoked[c] # "no" => dead[c]
        /\ /\ dead[c] /\ call[c].pc = "replied" /\ call[c].reply # "gone"
           /\ ~logFault[c]
           => revoked[c] # "no"

(* Every call ends, in a reply or with its object.                         *)
EveryCallEnds == \A c \in Calls : Running(c) ~> call[c].pc = "replied"
=============================================================================
