# MCP4Acumatica: a TLA+ model

MCP4Acumatica is a Cloudflare Worker that lets MCP clients work with an
Acumatica ERP. It runs one Durable Object (DO) per MCP session, which answers
tool calls, and one DO per user, which owns the user's Acumatica token; it
keeps shared state in Workers KV and logs in R2. This directory models the
parts whose correctness depends on the order of steps, checks them with TLC on
small instances, and proves the main results with TLAPS for all instances.

Paths below are relative to `src/src/`.

## 1. Inventory

| Component | State | Operations | What makes it correct |
|---|---|---|---|
| **TokenManager DO** `token-manager.ts`, `auth/acumatica-oauth.ts` | storage `token`, `inflight` promise; KV `user_token:{user}` | `getAccessToken`, `setToken`; inside: `resolve`, `readToken`, `writeToken`, `refreshAcumaticaToken` | one refresh at a time; no rotated refresh token is lost; nobody is evicted without need; every caller is answered; no served token is about to expire |
| **Grant revocation** `index.ts` 650-666, 803-809 | the user's MCP grants (OAuth provider) | list, revoke each | grants go only while the token is dead |
| **OAuth login** `auth/acumatica-auth-handler.ts` | KV `acumatica_state:*`, `consent:*`; state cookie | `/authorize`, `/callback`, GET and POST `/consent`, access check | one login, one grant; a state is used once; users do not share a record |
| **Rate limiter** `lib/rate-limiter.ts` | `activeSlots` (map of maps, per isolate), KV `ratelimit:{user}:{minute}` | `withRateLimit`, `acquireSlot`, `pruneStale` | the caps hold; nobody is turned away without reason; every caller is decided |
| **Audit log buffer** `index.ts` 59-94, 538-634, `lib/logger.ts` | `logBuffer`, `bufferHydrated`, `flushScheduled`, `flushing`; storage `log_buffer`; scheduler rows | `bufferLogs`, `flushLogs`, `scheduleFlush`, `flushLogsScheduled` | every entry lands, once, in order, through failures and evictions |
| **Tool dispatch** `index.ts`, `lib/response-parse.ts` | which tools are enabled | `init`, `applyToolPolicy`, `callTool` | each call is logged as it was answered; only a dead token, met by the call's own request, evicts |
| **Acumatica client** `lib/acumatica-client.ts` | none | `get`, `getOData`, `getODataMetadata`, `put`, one retry on 401 | a write is not sent twice to a server that processed it |
| **GI registry cache** `lib/gi-registry-build.ts`, `lib/gi-metadata.ts`, `lib/metadata-cache.ts`, `tools/clear-cache*.ts` | isolate `memo`, KV `cache:*` | `getGiRegistry`, `buildRegistry`, `resetGiRegistryMemo`, `handleClearCache` | an active gate stays active; a clear takes effect |
| **GI registry content** `lib/gi-registry.ts` | none | `checkGiGate`, `assembleRegistry`, `alignRows`, `resolveFields` | hidden inquiries are not served; texts stay with their columns |
| **GI tools** `tools/generic-inquiries.ts`, `tools/generic-inquiry-discovery.ts`, `lib/gi-parameters.ts` | none | run, list, describe; `resolveGiRouting`, `validateGiParameters`, `planGiRequest` | a parameterised inquiry is never sent to its plain entity set; rows are all there are or said not to be |
| **Write tools** `tools/writer-registry.ts`, `tools/writer-validation.ts` | none | `runWriter` | nothing is written without `confirm` and the kill switch; the trail has every commit |
| **Getter and list tools** `tools/getter-registry.ts`, `tools/entity-list.ts`, `lib/odata-filter.ts`, `lib/complex-entities.ts` | none | `runGetter`, `handleListEntities` | an empty or short answer is not taken for all there is |
| **Admin console sessions** `admin/admin-handler.ts`, `lib/crypto.ts` | KV sessions, login-failure counters | login, logout, settings, revoke all | lock-out counts; a revoked session is dead |
| **Log viewer** `admin/admin-handler.ts` | the page on the screen | `GET /logs/api`, next page | paging misses no entry |
| **Preflight** `lib/preflight.ts` | none | `runPreflight`, `runAuthenticatedChecks` | a check passes what is right and fails what is wrong |
| **Configuration** `lib/config.ts` | KV `config:*` | `getConfig`, `setConfig`, `deleteConfig`, `resolveRateLimits` | fallbacks for absent, malformed and unreadable values |
| **Documentation search** `docs/`, `lib/docs-search.ts`, `tools/docs-tools.ts`, `lib/index-store.ts` | memoised index, part cache of 4 | `search`, `getPart` | bounded memory; a transient error is not remembered |
| Schema discovery, redaction, platform adapters, types | none | | stateless |

**How they interact.** A tool call runs in a session DO: `callTool` → a tool
handler → `AcumaticaClient`, which takes a slot from the rate limiter (isolate
memory and KV), asks the user's TokenManager DO for a token over RPC, and calls
Acumatica. Every call ends in `bufferLogs`. A `reauth` answer makes `callTool`
revoke the user's grants, so that the client logs in again; the login writes
the token to KV, seeds the TokenManager DO, and creates a grant.

Outside the Durable Objects, requests to the login and the console run
concurrently in many isolates and share only KV, where a read may miss what
was just written or deleted.

**What is hard.** Two sessions, a login and an eviction can interleave at every
`await` in the TokenManager; IdentityServer invalidates a refresh token when it
is used, so a lost answer cannot be retried; KV reads can be stale; the
limiter's maps come and go while callers hold them; log entries arrive while a
flush awaits R2, and the object may be evicted at any time; a write whose
answer is lost may have been carried out; one-time records are read and deleted
in two steps; counters are read and written back in two; pages are cut from
files that keep coming; and Acumatica answers some wrong questions with an
empty set and no error.

`PROJECT.json` lists every hazard with its line and the properties that cover it.

## 2. The modules

| Module | What it is |
|---|---|
| `TokenManager` | the DO, tool calls, logins, KV, IdentityServer |
| `MCTokenManager` | two callers, two logins, symmetry |
| `TokenManagerProofs` | its theorems: promises, lifetimes, rotation |
| `RateLimiter` | `withRateLimit` for one user in one isolate |
| `MCRateLimiter` | three callers, four map identities |
| `RateLimiterProofs` | its theorems |
| `AuditTrail` | the abstract specification of the audit log |
| `LogBuffer` | the buffer, its scheduler and R2 |
| `LogBufferProofs` | its theorems, and the refinement of `AuditTrail` |
| `GiRegistryCache` | the registry's memo and KV copy, $metadata, clear_cache, run_inquiry |
| `MCGiRegistryCache` | two requests of one user in one isolate; ticks apart from lateness |
| `GiRegistryCacheProofs` | its theorems |
| `ToolCall` | a session's calls from dispatch to reply, and the kill switch |
| `MCToolCall` | one call |
| `ToolCallProofs` | its theorems |
| `OAuthLogin` | `/authorize`, `/callback`, POST `/consent` |
| `AdminSession` | the console's logins and sessions |
| `SignInProofs` | theorems about `OAuthLogin` and `AdminSession`, the two ways to sign in |
| `GiAlign`, `MCGiAlign` | `resolveFields` and `alignRows`, and the feeds they are given |
| `GiAlignProofs` | theorems about `GiAlign`, and about its two tables |
| `GiInquiry`, `MCGiInquiry` | run, list and describe inquiries, and what they meet |
| `EntityList`, `MCEntityList` | `handleListEntities`, and the calls it gets |
| `LogSearch`, `MCLogSearch` | paging through the logs, and what files hold |
| `Preflight`, `MCPreflight` | the preflight checks, and the hosts they are run against |
| `MCHandlers` | `OAuthLogin`, `AdminSession` and the five pairs above, side by side |
| `HandlersProofs` | theorems about the other four pairs, and about the composition |

**Atomicity.** A step is what runs between two awaits. In a Durable Object,
input gates hold events back while storage is awaited, so storage operations
belong to the step around them; KV, R2, IdentityServer and RPC answers are
steps of their own. In `RateLimiter` there are no gates to rely on: the step is
the code between two awaits.

### 2.1 TokenManager

One user. A resolve is named after the caller that started it: `inflight` is
the set of the (at most one) resolve that new callers join, `resolve[c]` is
where it stands (`kv`: waiting for KV; `post`: the POST is open; `answer`: the
answer has not been processed; `put`: storage is written, KV is being
written), `call[c]` is the caller (`wait`, then `ok`, `reauth`, or back to
`idle` for a transient answer). A token record names its refresh token by a
number; `live` are those IdentityServer honours; `exp` is `expires_at`, `real`
the true expiry (they differ because POST /consent computes `expires_at` when
the user accepts), `era` the encryption key. `kvSeen` holds the values a KV
read may return until `KvSettles`.

`GetAccessToken` = `getAccessToken` up to the storage read; `ReadToken` = the
rest of `readToken` and the checks of `resolve`; `Redeem` = IdentityServer;
`WriteStorage`, `WriteKv` = `writeToken`; `Refused`, `Unanswered`, `ReadFails`,
`WriteKvFails` = the other ends of `resolve`; `Settle` = a promise settling,
with its `finally`; `ListUserGrants`, `RevokeGrants` = the reauth branch of
`callTool`; `Exchange`, `AcceptConsent`, `SetToken`/`SeedFails`,
`CompleteAuthorization`, `LoginEnds` = a login; `Restart` = eviction or
redeploy, possibly with a new key.

Left out: a stored token without refresh token (the scope `offline_access` is
always requested, and the consent handler encrypts one unconditionally), the
30-day TTL of the KV record, and the grants' own expiry. What a call does with
its token, a 401 included, is `ToolCall`.

### 2.2 RateLimiter

A map has an identity (`Maps`), because a queued caller keeps the map it found
on entry while `activeSlots` may forget it. `slots[m]` are the callers whose
slot is in `m`; `aged` are those older than `STALE_SLOT_MS`. `Enter` is
`withRateLimit` up to the first await; `Wake` a turn of the polling loop, whose
deadline may or may not have passed; `ReadCounter`, `WriteCounter` the two KV
accesses; `Finish` the end of `fn()`; `Age` and `NextMinute` the clock. Time in
the queue is abstracted to "the deadline may have passed". `sloppy` marks the
minutes whose counter was read stale, failed, or lost an update.

### 2.3 LogBuffer

Entries are numbered in the order tool calls record them. `rows` are the
schedule rows still to fire. The scheduler runs rows one at a time and deletes
a row when its callback has returned, so a row is used up (`rows' = rows - 1`)
by `PutSucceeds` or `PutFails` if a row started the flush (`timer`), and by
`FireIntoFlush` or `FireOnEmpty` at once. `Evict` takes the memory and leaves
storage and rows; an open put may have stored its batch.

`AuditTrail` says what the log promises: entries leave in the order they were
recorded, and only the oldest ones can be delivered twice or lost. `LogBuffer`
implements it with `pending` = the batch in flight followed by storage, and
`delivered` = the R2 files.

### 2.4 GiRegistryCache

The designs of the inquiries have versions, and one inquiry stands for all: it
is exposed, and takes parameters, in some versions. A registry is the version
its feeds showed, the version of the $metadata it was built with (or none), and
`builtAt`. `req[r]` is where a call of `acumatica_run_inquiry` stands, `load[r]`
its $metadata loads, for a build and for the query: `Promise.all` rejects as
soon as a feed fails, so the load of a failed build goes on by itself. `Enter`,
`ReadRegistry`, `FetchFeeds`, `BuildFails` and `BuildSucceeds` are
`getGiRegistry` with `buildRegistry`; `ReadMeta`, `FetchMeta` and `StoreMeta`
are `loadGiMetadata`; `SendQuery`, `RefuseQuery` and `QueryAnswered` are
`handleRunInquiry` behind the gate; `ClearStart`, `ClearList`, `ClearDelete` and
`ClearFails` are `handleClearCache`. KV is eventually consistent: a write or a
deletion may be late, and `oldReg`, `oldMeta` are the copies that reads may then
still find until the clock ticks; a listing may miss a key, or have one that is
gone. Each of these, a failed KV access, and the end of an isolate count as a
fault. `floor` and `missed` are history: the version an undisturbed clear saw,
and the isolates where KV was found empty.

Other users' memos do not matter to a query, but the registry they store does:
it is shared. Clears of a single named key are left out.

### 2.5 ToolCall

`call[c]` is a call of `callTool`: where it stands (`gate`: `runWriter` reads
the kill switch; `limit`, `token`, `send`, `answer`: the client; `log`, `catch`,
`revoke`: the end of `callTool`), what kind of request it is, and what it will
reply. `Dispatch` = the SDK's refusal of a disabled tool, then `runGetter` or
`runWriter` up to the first await; `Gate`, `GateUnread` = `writesEnabled` with
`getConfig`, validation and preview; `Admit`, `GetToken`, `Send`, `Receive` =
`get`, `getOData`, `getODataMetadata`, `put` with the retry and
`parseAcumaticaJson`; `Aside` = the registry or $metadata that a tool loads
first (`aside`), whose failure, a rate limit or a dead token included,
`getGiRegistry` logs and `loadGiMetadata` takes for "not available", and the tool
goes on; `ToldInWords` = the errors a tool returns as a result; `LogSuccess`, `LogThrows`, `Catch`, `CatchThrows`,
`Revoke` = the rest of `callTool`. `Revoke` is by best effort: `revoked` becomes
`all`, or, as a fault, `tried`, where there is no user name, the listing failed
or some grant stays. In the code an inquiry may load several things first, feeds and
$metadata; as their failures leave nothing behind, one load stands for all.
`Retry` is the model trying again what was
not confirmed. `SaveSetting` is an admin's change of `writes_enabled`; `seen`
holds what a stale read may return; `Restart` ends the object and its calls,
and `init` reads the setting again. The limiter, the token manager and the log
buffer appear by their outcomes, each of which its own module can produce.

Of a request, `Outcomes` pairs what Acumatica did with what comes back: a
write that was carried out may be answered with an error or not at all.

### 2.6 OAuthLogin

A flow is one state UUID: `begun`, `code`, `redeemed` say who began it, whose
code its callback URL carries, and whether Acumatica has exchanged it;
`states` and `consents` are its records in KV, `missed` those that one more
read will find although they are deleted. `req[r]` is a request under way:
`state`, `burn`, `exchange`, `identify`, `access` are the steps of
`/callback`, `read`, `delete`, `store`, `complete` those of POST `/consent`. A
callback URL may be opened twice, or in another browser; a consent may be
submitted by several requests at once. `Identities` lists what a user may come
to be known by. KV reads that miss a fresh record end the login and are
covered by the alternative of an expired one.

### 2.7 AdminSession

`visit[v]` is a request to the console from one client IP: `gate`, `count`,
`put`, `clear`, `create` are POST `/login` with its failure counter;
`validate`, `csrf`, `save`, `sweep`, `logout` the requests with a session.
`record` is the session in KV; reads may miss the last change of the `hidden`
ones. `SweepPage` is one page of `revokeAllSessions`, of one key. `compared`
counts the wrong secrets compared since the counter was last empty.
`AccessThrows` is a KV access that throws, which answers the request with a 500
where it stands: between the comparison and the put of its count it leaves the
secret `uncounted` (`recordLoginFailure`, lines 54-56). A put that stores and
then throws is `PutFailure`.

### 2.8 GiAlign and GiInquiry

Both are decisions: one step takes an input and computes the reply. `GiAlign`
is `resolveFields`: grid order (`GridOrdered`), the hoisted keys (`Hoisted`),
the score of a row on a property (`Score`), and the two tables of `alignRows`
as recursive functions. An entry of a table is its best score, the number of
ways to it, which saturates at two as in the code, and one of the ways;
`Relaxed` is `relax`, for all that a cell may be reached from at once. Names and
types are abstracted to likenesses and families, and `Unnumbered` is
`Number.MAX_SAFE_INTEGER`. `FeedType` is what a feed and its metadata look like,
`LaidOut` the layout that the comment above `resolveFields` gives for a design.

`GiInquiry` is the three inquiry tools over a world: which inquiries take
parameters in truth, what the copies of $metadata and of the registry say,
what the model asked for, and what Acumatica will answer. `Routing`,
`Validated` and `Plan` are `resolveGiRouting`, `validateGiParameters` and
`planGiRequest`; `RunReply`, `DescribeReply`, `ListReply` the handlers.
`GiRegistryCache` says how old the copies may be.

### 2.9 EntityList

`ListEntities` is `handleListEntities` from its argument checks to its reply:
`Normal` is `normalizeODataFilter`, `KeyedFilter` is `isKeyedFilter`,
`AfterFailure` the error branches with the retry without `$select`. A list
says how many rows match in truth and whether Acumatica drops the filter.

### 2.10 LogSearch

`files` are the R2 objects of the range, in upload order, written at any time
(`Upload`). `Search` and `NextPage` are `GET /logs/api` as the page's script
calls it: `Listed` is `listObjectsByDateRange`, `Filtered` what the first
batches hold, `Enough` where the scan ends early, `Page` the sort and the cut.
An entry is named by its file and its place there; the sort is stable, so
that its place on the screen is its `Rank`: how many entries are `Newer`, or as
new and read before it.
The time budget may end any request after any batch.

### 2.11 Preflight

`Answers` is the configured host, an Acumatica or another site; `Status` what
each check makes of an answer. `RunPreflight` runs every check without a
token, each request answered by itself, lost or refused by an overloaded host;
`RunAuthenticatedChecks` adds those with a user's token.

### 2.12 MCHandlers

Composes 2.6 to 2.11 as parts of one behaviour each: `part` chooses at the
start. The parts share no record and no isolate state, so that a product of
them would show nothing more; failed logins and sessions of the console meet
only where a login succeeds, and are two parts: `lockout` has logins only, and in
`sessions` no secret is wrong and logins do not overlap before they create.

## 3. The runs

| Run | Bounds | Shows |
|---|---|---|
| `token_manager` | 2 callers, 2 logins, 4 tokens, 3 ticks, 1 fault; life 3, margin 1, consent 1 | `TypeOK`, `OneOwner`, `NoOrphanedCaller`, `StoredTokenLive`, `NoSpuriousReauth`, `ServedLife` |
| `token_manager_live` | 3 tokens, 1 tick, 1 fault, no symmetry | `EveryCallAnswered` |
| `token_revoke_race` | as the first, no fault | `RevokeOnlyWhenDead` is violated |
| `rate_limiter` | 3 callers, 2 slots, 1 per minute, 2 minutes, 1 aged slot | `TypeOK`, `SlotsBounded`, `CapWithoutQueue`, `CapUnlessSloppy`, `NoFalseBusy`, `NoFalseThrottle`, `EveryCallDecided` |
| `rate_limiter_cap` | 3 callers, 1 slot | `InFlightCap` is violated |
| `log_buffer` | threshold 3, 7 entries, 2 faults | `TypeOK`, `NothingDropped`, `InOrder`, `IdleBufferScheduled`, `EveryEntryLands`, `TrailSpec` |
| `log_buffer_idle` | threshold 3, 6 entries, no fault | `IdleBufferLands` is violated |
| `gi_registry` | 2 requests, 1 user, 1 isolate, 1 edit; two of 1 tick, 1 clear and 1 failure, or 1 clear and 1 late write or listing | `TypeOK`, `ClearTakesEffect`, `UngatedOnlyAfterMiss` |
| `gi_flap` | the same, no clear, tick or fault | `NoFlap` is violated |
| `tool_call` | 1 call, 1 retry, 2 saves, 2 faults | `OncePerAttempt`, `RepeatedOnlyBlindly`, `OffSwitch`, `TrailMatchesReply`, `EvictionTried`, `EveryCallEnds` |
| `handlers` | logins: 2 flows, browsers, users, requests, 1 late deletion; console: 2 visitors, 3 sessions, threshold 2, 6 wrong secrets, 1 window, 1 late access; logs: batches and pages of 2, 3 listed, 4 files, 2 searches; decisions: the inputs of `MCGiAlign`, `MCGiInquiry`, `MCEntityList`, `MCPreflight` | `BrowserBound`, `OwnTokenServed`, `OneGrantPerLogin`, `LockoutExact`, `LockoutBounded`, `RevokedStayDead`, `AlignmentTruthful`, `NeverUnfiltered`, `BareRowsComplete`, `PreflightHonest`, `PagesMissNothing` |
| `gi_align_tie` | the feeds of `MCGiAlign` | `OptimumUnique` is violated |

**Why the bounds are enough.** Two callers are a resolve and one that joins it,
or two resolves after a login dropped the first; the second login lets one
overtake the other. Four tokens and three ticks allow an initial token, two
logins and a rotation, and a token to expire. One fault gives every single
failure at every point. In the limiter, three callers on two slots make one
wait; each caller holds at most one map and `activeSlots` one more, so four
maps never run out; `MaxPassed` stops a minute only after the limit was
reached. In the buffer, seven entries fill a batch of three twice and leave one;
two faults are a failed put followed by an eviction, or the reverse. In the
registry's cache, two requests are two builds at once, or a query beside a
build; the edit separates old copies from new, and in the tick the registry and
the $metadata copies age. A behaviour has at most two of a tick, a clear and a
failure, or lateness without a tick, which ends it (`part` in
`MCGiRegistryCache`). A tick, a clear and a failure together (1.3 million
states), a tick with lateness (3.3 million), and two isolates with no tick and
no fault (2.2 million) were run apart, without an error, and the theorems cover
them.

Calls of a session share the switch and the object's life only, so one call
meets everything: two saves turn the switch off and on again during it, two
faults fail the log in `try` and in `catch`, and a retry repeats a write once;
the theorems cover any number of calls. Two flows let a browser lose its
cookie to a later login and two users race; two requests are two callbacks, or
two submissions, of one flow. Three sessions are one that arrives, one that is
swept and one that is created meanwhile. A threshold of 2 with 2 visitors
bounds the secrets that get through at 5, and 6 wrong ones go past that. Three listed
files make two batches, the second of one file; the fourth file exceeds the
listing cap or comes between two pages. Three columns are the fewest for which
two hoisted keys can change places behind a column that stays.

`CHECK_DEADLOCK FALSE` is set because the systems rest when the bounds are
reached and nobody calls, and a decision is made once.

**Fairness.** `TokenManager`: steps of a resolve, because the runtime resumes a
continuation when its I/O has ended, and I/O ends with an answer or an error.
Nothing makes a user call or log in, KV settle or time pass. `RateLimiter`:
`Wake` (a timer, with a deadline) and the store's answers; `fn()` may take for
ever. `LogBuffer`: schedule rows fire (the Agent scheduler stores them, and a
DO alarm is delivered at least once) and a put ends. A bound on `faults` states
that R2 fails finitely often. `ToolCall`: the steps of a call, for the reason
given first; the retry on a 401 is what could go on for ever.

**Qualified properties.** `StoredTokenLive` and `NoSpuriousReauth` speak of the
behaviours without a fault and without a login that dropped a running resolve
(`Serialised`): a lost answer loses a rotated token whatever the code does.
`ServedLife` adds the consent's TTL to what `token-manager.ts:80` says, "Still
has at least 60s of life": an access token can be served five minutes, less
the margin, after it expired, because `expires_at` is stamped late.
`CapUnlessSloppy` is qualified as the source does (`lib/rate-limiter.ts`
188-191: "Approximate"). `IdleBufferScheduled` and `EveryEntryLands` except a
row that fired into a flush (`missed`), which `log_buffer_idle` is about.
`ClearTakesEffect` speaks of a clear in one isolate with no request in flight:
a build that overlaps the clear, or another isolate's memo, keeps the older
registry, which is what `tools/clear-cache.ts` 16-20 can promise at most. And it
speaks of clears whose listing missed no key, until KV answers a read late. When
`kv.list` (`tools/clear-cache.ts` 43) misses a key put shortly before, or
`kv.get` (`lib/gi-registry-build.ts` 93, `lib/gi-metadata.ts` 31) still finds
the deleted one, even an undisturbed clear has no effect: the isolate remembers
the older registry for the rest of its life, and stores nothing newer while it
is fresh. The code has no remedy for either.
`UngatedOnlyAfterMiss` is weaker than `NoFlap`, which the code breaks.

`RepeatedOnlyBlindly` allows a write to be carried out twice after a lost
answer, an error status, a body that is no JSON, a restart or a failing log:
only an empty body is told to the model as "unconfirmed". `OffSwitch` counts a
setting that cannot be read as the environment variable, as `lib/config.ts`
26-41 does: while KV reads fail, a deployment whose environment says on writes
although an admin switched it off. `TrailMatchesReply` leaves out calls whose
log failed, which may appear twice or as errors, and writes that were not
confirmed have no mutation entry. `EvictionTried` says which calls set about
revoking the user's grants, not that the grants are gone: the revocation is by
best effort (`index.ts` 650-666). A dead token that only the load of the
registry or of $metadata has met evicts nothing, and the model is told that
$metadata is not available, or nothing at all. `OneGrantPerLogin` leaves out a consent
submitted twice at once, or found after it was deleted.

`OwnTokenServed` leaves out the user id "unknown"
(`acumatica-auth-handler.ts` 240, 268, 286): users whom neither identity
endpoint names share one token record, although the comment at 297-299 sees to
it, for a fetch that throws, that they do not. `LockoutExact` speaks of logins
one after another; `LockoutBounded` says how many more get through when they
are handled at once, with a store that is up to date. Both add one for each
count that threw (`uncounted`): a KV access of `recordLoginFailure` that throws
(`admin-handler.ts` 54-56) answers 500 with the secret compared and not counted.
So while KV fails at that place, any number of secrets can be tried, against the
comment at 33-38, and the lock-out is exact only where it works. `RevokedStayDead`
speaks of sessions that were visible when revoke-all began to list: one created
during the sweep (`admin-handler.ts` 134, 715-718) may survive. And it speaks of
deletions that every reader sees: until then a revoked cookie still works where
a read is late, so that "instantly useless" (17-18, 508) is more than it says.

`AlignmentTruthful` promises every property its own column only for feeds that
are laid out as the code assumes, have all active columns, numbered and flagged,
with captions on the keys, and fewer than 5,000 rows (100 points a row could
otherwise make up for half a `VIOLATION`, which is what the code compares with);
for the others it says that no constraint is broken, and, where at most one
property is hoisted, when there is an annotation at all. `NeverUnfiltered` speaks
of copies that list the inquiry as it is: a stale copy of $metadata can route a
newly parameterised inquiry by its plain path. An inquiry whose name has no
letter or digit of ASCII has an empty key (`gi-parameters.ts` 72, 142) and is
found by its exact name only; the property says so (`NoKey`). And while $metadata cannot be
read and the registry was built without parameters, the menu lists a
parameterised inquiry that every run then refuses. `BareRowsComplete` leaves
out the filters that `lib/odata-filter.ts` does not repair (a function compared
with `false`, or with `true` behind a literal with a parenthesis) and a key
test joined by `or`; rows of the retry without `$select`
(`tools/entity-list.ts` 165-187) come without a word on whether they are all.

`PagesMissNothing` speaks of searches over no more files than are listed,
uploaded in order, of which no page was cut short. The listing starts with the
oldest days, so that a range beyond its cap loses the newest; and a page that
is empty because its time was up returns before it shows that note
(`admin-handler.ts` 1131-1135, 1180-1182). `PreflightHonest` takes a pass for
certain only if discovery passed too: a page that answers every path with 200
passes the path checks. The comments at `lib/preflight.ts` 202-203 and 407 are
older than the code: it warns where they say that a 401 proves the path.

**Findings** (`PROJECT.json`, with the lines quoted):

1. `setToken` drops the promise but not the resolve. A second resolve can POST
   the same refresh token beside the dropped one; the loser is told to log in
   again and revokes the user's grants, while the token its winner stored
   works. (`token_revoke_race`)
2. A queued caller and a newcomer hold different slot maps, so that more than
   `maxConcurrent` calls are in flight. (`rate_limiter_cap`)
3. A scheduled flush that fires into another flush leaves later entries
   without a schedule. (`log_buffer_idle`)
4. A build of the registry that fails overwrites what a concurrent one has
   remembered; the isolate's gate is open from then on. (`gi_flap`)
5. With two hoisted properties, `alignRows` scores a hoisted row by the
   property that suits it best, even if two rows want the same one. Rows are
   then hoisted by a score that no assignment reaches, and fields are annotated
   by one of two alignments that tie. (`gi_align_tie`)

Every property of a passing run has a mutant: a variant of a definition, next
to it in its module, under which the run finds the property violated.

## 4. The proofs

`tlapm` checks every theorem; none rests on more than the named assumptions
of the modules. `ConstantsAssumption`, `BoundsAssumption`, `LoginConstants`,
`ConsoleConstants` and `SearchAssumption` say that the bounds are naturals, a
token lives longer than the margin, the limits are positive, and the callers,
or the requests of one address, are finitely many. `HostAssumption`,
`InquiryAssumption`, `ListAssumption` and `FeedAssumption` say what the inputs
of a decision look like (`HostType`, `WorldType`, `ListType`, `FeedType`), not
which of them there are: a theorem about `Preflight`, `GiInquiry`, `EntityList`
or `GiAlign` is about every host, every set of inquiries, every list and every
feed of its type, of which the run enumerates some.

Every safety property of the passing runs is proved.

* **TokenManagerProofs.** `TypeCorrect`. `OneOwnerAlways` and
  `NoOrphanedCallerAlways` need the inductive `Coherent`: `inflight` is at most
  one running resolve, every other running resolve was dropped, and a resolve
  is awaited by its starter — which is what makes `Settle` answer everybody,
  and what a `finally` without its check would break. `ServedLifeAlways` needs
  `Stamped`: in every place a token record can be (storage, KV and its stale
  values, a resolve, a login), `exp` exceeds `real` by at most the consent's TTL.
  `StoredTokenLiveAlways` and `NoSpuriousReauthAlways` need `Chain`: `readToken`
  trusts whichever of storage and KV expires later, so a dead record must never
  be the later one. While `Serialised`,
  a refresh token is stamped once (`Stamps`); tokens of unfinished logins are
  live and not yet due (`Entries`); a resolve with an answer carries a live
  token that outlasts every dead record (`Answers`); otherwise storage is live
  and outlasts them (`Ahead`); a resolve works on what is stored and posts it
  only when it is due, which is why its successor outlasts it (`Current`); and
  nobody was sent to log in (`Connected`). No part is inductive without the
  others.
* **RateLimiterProofs.** `TypeCorrect`, `SlotsBoundedAlways`. The cap without
  queueing and `NoFalseBusy` need `Held`: a caller with a slot is in its map
  unless it has aged, and, where nobody queues, all callers hold the active
  map. `CapUnlessSloppy` and `NoFalseThrottle` need `Counted`: the counter
  never exceeds the calls that passed, and equals them unless the minute is
  sloppy.
* **LogBufferProofs.** `TypeCorrect` with `Armed` (a buffer that is not empty
  is scheduled, being flushed, or was missed), `IdleBufferScheduledAlways`,
  `NothingDroppedAlways`, `InOrderAlways` (each way an entry moves keeps the
  sequences it moves between rising), and `ImplementsTrail`: initial states map
  to initial states and each step to a step of `AuditTrail` or a stutter.
* **GiRegistryCacheProofs.** `CacheTypeCorrect`, `ClearTakesEffectAlways`,
  `UngatedOnlyAfterMissAlways`, for any requests, users and isolates. In
  `CacheInv`, what a request has read (`Sound`) and what an isolate remembers
  (`Held`) is held against the floor of its own isolate only, because a clear
  promises no more; what may reach KV (`Copies`) against the floor of every
  isolate, because all read it. `Undisturbed` is why a floor may be set: while
  nobody overlaps a clear, no older copy is on its way, and the clear deletes
  all that is there, if its listing gave it. A read that KV answers with an older
  copy gives up the floors it could reach: of its own isolate for a query, and of
  all for a build, which stores what it read.
* **ToolCallProofs.** `CallTypeCorrect`, and the five safety properties of
  `tool_call` for any number of calls. `Proper(c)` says of one call, at each
  place between dispatch and reply, what it has written (`Wrote`), whether it
  might (`Permits`), what its trail holds (`Records`) and which failures count
  as blind (`Counts`); `Evicts(c)` where it stands with a dead token. A step
  touches one call, or the setting under all.
* **SignInProofs**, the logins of users. `LoginTypeCorrect`; `BrowserBoundAlways` from `Bound`
  (a flow is followed from its browser to its consent); `OneGrantAlways` from
  `Spent` (a consent is put once, because a code is exchanged once, and whoever
  has read it is the only one on the way to the grant); `OwnTokenAlways` from
  `Named` (every key on its way to the store is of a user of its flow).
* **SignInProofs**, the console. `ConsoleTypeCorrect`, `RevokedStayDeadAlways` from
  `Doomed`: what a sweep is due to end is visible or deleted, and deleted once
  its page was read; a request that came with an ended session is stopped at
  `validateSession`. `LockoutExactAlways` from `Orderly`: while one login
  follows another, the secrets compared are the counter, those whose count
  threw, and one more between the compare and the put. `LockoutBoundedAlways`
  from `Bounded`: every order in which the visitors at hand can go on is a row;
  one that is the i-th of the row adds `Weight(v, i)` at most, which depends on
  the counter and, after its read, on what it will put; and what was compared,
  less what is `uncounted`, with what any row adds stays below `Ways`. A compare
  takes one from the weight of the visitor that did it, and a count that throws
  pays it back with one `uncounted`: that is why a visitor about to put weighs no
  less than the counter as it is would let it, less that one (`Higher`). A late
  put, which sets the counter back for all who are not putting, is paid for by
  giving the putter the last place among them, so that its own weight,
  `More(count, i)`, is the sum of what the others gain.
* **GiAlignProofs.** `AlignmentTruthfulAlways`. The fields are what
  `ResolveFields` makes of the feed (`BuiltOnce`), so that the weight lies on the
  two tables of `alignRows`. Both are followed cell by cell, the first from its
  last row on, the second by the size of the set. That an annotation breaks no
  constraint needs what a way is, in each table: as many rows as there are
  hoisted properties (`HoistCells`), and one property each (`AssignCells`), so
  that the rest keep their order (`PlacedWell`). That it is withheld exactly
  where several alignments are best needs, with one property hoisted, what a
  cell knows of all alignments from its row on: the last column is the one
  alignment with the hoisted row before (`LastColumn`), the first has the best
  total over the rows that could be it, and one way exactly if a single row has
  it (`FirstColumn`, `Alone`). That whole feeds are annotated as they were laid
  out needs a bound on all other ways: with captions on the keys, a row that is
  hoisted wrongly, or not, leaves some key to violate, and `VIOLATION` outweighs
  every likeness of the rows left (`Good`, `GoodSet`); and it needs that the
  columns of the rows, rising in grid order, and those of the properties, which
  begin with no gap, can be matched in one way (`OwnPlaces`, `RestInOrder`).
* **HandlersProofs.** `PagesMissNothingAlways` from `Searched`: an entry that
  matched when the search began has been shown, or its `Rank` among all that is
  listed lies beyond the pages read and there are more; a file that comes in
  between is newer and only raises ranks. A page cut from a few batches is the
  page of all of them, because files rise in time and a batch not read holds
  only older entries. `PreflightHonestAlways` from
  `HonestPage`, check by check. `NeverUnfilteredAlways` and
  `BareRowsCompleteAlways` are decisions: one step for each tool, by the branch
  that replied. `EachPartAlone`: seen from one part, `MCHandlers` is that part's
  specification, and so every theorem about a part holds of the composition.

An induction over data is done as a search for the first number without the
property (`FirstOf`), which the library's `WFMin` gives; so the recursive
function `Ways` and the tables of `GiAlign` are shown to exist and to obey their
equations (`WaysRecursion`, `HoistTableIs`, `AssignTableIs`, `TotalFromIs`).

Only model-checked: `EveryCallAnswered`, `EveryCallDecided`, `EveryEntryLands`,
`EveryCallEnds`: liveness is out of this prover's reach.

## 5. Plan

| Step | Content |
|---|---|
| 1 | `GiRegistryCache` with clears of one named key, and the schema caches |
| 2 | a reference alignment for more than one hoisted property, should `alignRows` score hoisted rows by their assignment |
| 3 | the part cache and the index memo of the documentation tools, as one small module |

An abstract specification worth stating: a gate that once active never opens,
once `gi_flap` is repaired.

## 6. Not modelled

Documentation search and schema discovery rank texts over indexes that are read
once; the one hazard there, a transient read error that `lib/index-store.ts`
remembers as "no index", is a condition at one place. Redaction, XML, captions,
OData literals, pages and error wording are functions on strings with unit
tests of their own, and appear by what they decide. Static tables (entities,
getters, writers' allowlists, tool annotations) are data. The platform adapters
delegate to KV and R2 in a line each.

The platform is assumed to be what its documentation says: input gates,
at-least-once alarms, eventually consistent KV. Time is a bounded clock in
ticks, and a tick is long against a request.
