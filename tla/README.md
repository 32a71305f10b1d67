# A verification development of SolContinuity

TLA+ models of the parts of SolContinuity that hold state, wait for others or
can be interleaved, the TLC runs that check them on small instances, and TLAPS
proofs of what matters most for every instance. Paths below are relative to
the repository.

## 1. The system

SolContinuity helps a Solana application stay usable when an RPC provider, an
API or a frontend fails. It is a TypeScript library and four programs.

| Component | Source | State | Operations | What is hard about it |
|---|---|---|---|---|
| API server: sessions | `src/api/server.ts`, `security.ts`, `session-revocation.ts` | signed cookies held by clients; a store of revoked sessions | login, logout, the gate of every protected route, health | every handler awaits the store between its check and its effect; several instances; restarts; clocks |
| Redis adapter | `src/api/redis-session-revocation.ts` | keys with an absolute expiry in a Redis server | `EXISTS`, `SET ... PXAT`, one connection per command | an idle timer, replies in pieces of any size, AUTH before the command, replies that are lost, commands carried out after the caller gave up |
| API server: rate limiting | `src/api/security.ts`, `server.ts` | two Maps of token buckets | `consume`, `prune` | pruning, the clock, rounding |
| GitHub App | `src/github-app/server.ts`, `app.ts` | a Map of delivery ids | receive a delivery, fetch a token, read the manifest, publish a check | concurrent deliveries, replays, each of five calls may fail, restarts |
| Multi-RPC client | `src/core/multi-rpc-client.ts`, `canonicalize.ts` | one call: what each route answered | quorum and first-success reads, broadcast, verify, health | routes that disagree, fail, or are silent, in any order |
| Console | `src/dashboard/app.js`, `session.js` | session epoch, probe generation, what is on the screen | load, refresh, audit, score, sign in and out | any number of replies under way while the session changes |
| Evidence history | `src/api/evidence-history.ts` | artifact files, written by others | read, score, sort, limit | a writer that replaces a file meanwhile; missing time stamps |
| Live Devnet evidence | `scripts/live-devnet-evidence.mjs` | one artifact, rewritten at each stage | fund, broadcast, confirm, persist | a crash between two stages, a retry of what may have been done |
| Manifest, audit | `src/core/manifest.ts`, `audit.ts` | none | parse, audit | an old and a new form of a manifest, and what is audited is neither |
| Provider runtime | `src/api/provider-runtime.ts` | none | one upstream call behind a chain of checks | order of the checks |
| The rest | CLI, failure simulator, social analytics, Python analytics, front-door worker, static files, assistant helpers, scripts | none of their own | - | - |

How they interact. A browser runs the console; each of its requests goes
through both rate limiters, then, for a protected path, through the session
gate, which asks the revocation store. Protected handlers read evidence files
and may call the analytics service or a model provider. The GitHub App is a
process of its own that uses the same rate limiter class and the same audit.
The Multi-RPC client is a library: the command line and the evidence script
call it, no server does.

What makes each part correct:

* Sessions - a confirmed sign-out ends the session on every instance; it ends
  no other session; no outage of the store lets anyone in or confirms
  anything; every request is answered.
* Redis adapter - a call returns what its own command found or did, or fails,
  however replies arrive; no command goes out before AUTH is accepted; every
  call ends.
* Rate limiting - no key is granted more than its budget in any window, the
  Maps stay bounded, waiting as long as announced helps.
* Manifest, audit - a clean audit means what a reader of the file would take it
  to mean, by whichever of its keys; parsing again changes nothing.
* GitHub App - a check run tells what the exact head says and nothing else;
  an immediate replay is suppressed and nothing but a replay is.
* Multi-RPC client - a value is returned only with the agreement asked for,
  and whenever it exists; failover is in order; a verification names every
  route for what it said; a call always returns.
* Console - what is shown was fetched under the session the page took up last,
  sign-out is offered of that session only, and the token is not asked for
  while it lasts.
* Live evidence - an artifact says "passed" only of a memo that two operators
  confirmed; a run that ends well leaves just that behind; the overview never
  shows an older proof in place of what superseded it.

`PROJECT.json` lists every component with its status, and the hazards of the
code at their lines.

## 2. The modules

| Module | Models | Runs |
|---|---|---|
| `SessionLifecycle` | the promise: the life of a session and the verdict on a request, without how | property of two runs |
| `SessionRevocation` | login, logout, gate, health over either store | `session_shared`, `session_local`, `session_outage`, `session_boundary` |
| `SessionRevocationProofs` | theorems about `SessionRevocation` | - |
| `RevocationStore` | the promise: a store of revocations as a server process meets it, without how it is reached | property of `redis_protocol` |
| `RevocationStoreProofs` | what that promise is worth to a sign-out | - |
| `RedisProtocol` | the adapter, its connections, the server and the network | `redis_protocol` |
| `RedisProtocolProofs` | theorems about `RedisProtocol`, among them that it implements `RevocationStore` | - |
| `ManifestAudit` | `parseManifest`, `auditManifest` as operators, and the reference definition of a recoverable manifest | used by `GitHubWebhook` |
| `GitHubWebhook` | the delivery cache and `processGitHubWebhook` | `webhook_replay`, `webhook_checks` |
| `GitHubWebhookProofs` | theorems about every manifest, the checks the App publishes and its delivery cache | - |
| `RateLimiter` | both limiters of the API server | `rate_limits` |
| `RateLimiterProofs` | theorems about `RateLimiter` | - |
| `MultiRpcClient` | one call of the client | `rpc_calls`, `rpc_verification` |
| `MultiRpcClientProofs` | theorems about `MultiRpcClient` | - |
| `Console` | the two scripts of the page and the server as they meet it | `console_session` |
| `ConsoleProofs` | theorems about `Console` | - |
| `LiveEvidence` | the Devnet script, its artifact, and the server reading artifacts | `live_evidence` |
| `LiveEvidenceProofs` | theorems about `LiveEvidence` | - |

`MC*` modules only give values to constants. An operator marked "Mutant" in a
comment is a plausible bug, defined before the definition it would replace and
used by no specification; with it in place the run named in `PROJECT.json`
finds the property violated.

### SessionRevocation

A handler of `server.ts` is cut at its awaits on the store. `BeginX` is the
part up to the await (cookie check, early answers), `StoreAnswers` the command
as the store carries it out, `ResumeX` the rest; `Finish` is what an admitted
handler still does, after awaits of its own, without checking again.
`StoreFails` is the one way `requestRedis` rejects: refused, reset, an unusable
reply, or the socket timer. The command may have been carried out
(`phase = "answered"`), may never be, or may arrive later: then it is in
`stray` and `StrayArrives` carries it out at any later time. A process-local
store is asked and answers within one turn of the event loop, which is
`LoopFree`: while a request of an instance is between the two, nothing else of
that instance runs.

A cookie is its issuer's key and its expiry (`signer`, `expiresAt`). Without
`SOLCONTINUITY_COOKIE_SECRET` the key is that of one boot of one process, so a
restart makes every cookie void; with it all instances share one. Each
instance and Redis has a clock that is up to `MaxSkew` ahead of true time. An
entry of the store goes when it has expired by the store's own clock: when it
is met (`Forget`) or when another is written (`Enter`). Redis drops keys at
other moments too; an entry past its expiry is treated as absent by `Holds`
already, so those moments make no difference to an answer.

`Standing(s)` says where a session is in its life, for the properties: a
session is *in doubt* once some clock may call it expired, or when no instance
can verify its signature any more. Promises are made about sessions that are
not in doubt.

`SessionLifecycle` states the whole promise in a page: a session is live, may
be ended, comes into doubt; a request may be admitted if its session was live
when it began or is in doubt when it is decided, and refused only if its
session is not live. `ImplementsLifecycle` checks that `SessionRevocation`
implements it under the mapping `Standing` / `VerdictState`.

### RevocationStore and RedisProtocol

`RevocationStore` says in a page what `SessionRevocation` relies on: a call asks
for one command; the command is carried out at most once, at one instant,
perhaps after its caller gave up; a call that returns, returns what its own
command found or did. Its steps are those of `StoreAnswers`, `StoreFails` and
`StrayArrives`.

`RedisProtocol` is how that comes about. `call[c]` is one run of `requestRedis`:
its phase, how many operations it sent (`sent`) and what it received and not
used (`pending`). `inbox[c]` and `outbox[c]` are the two directions of its
socket. `Connect` sends the first operation; `Data` is one `data` event with a
piece of any length, and `Received` the whole loop of that handler, which takes
at most two lines; `Settle` is `success` or `failure` with the `finally` that
destroys the socket: what was written may still arrive, what comes is not
read. A reply is its type byte, its value and the end of its line, each a
symbol of its own, so that every way to cut a line is a way to cut three
symbols. `ServeAuth`, `ServeExists` and `ServeSet` are a Redis server that
demands a password or not; `Refuse` is any other answer, and `Drip` a server that
sends and ends no line. `TimeOut` may happen at any time, as the socket timer
is started again by every piece and says nothing of the whole.

### ManifestAudit

A manifest is what its keys say (`keys` are those it has, the other fields their
values); `Parsed` is what `parseManifest` returns, again a manifest. Each
finding is `Fails(p, id)`, its weight `Severity(p, id)`, the verdict `IsSound`.
`Recoverable` is the reference: read off the file as it was written, by every
list of routes and every threshold it has, it says that one route or all of one
operator may go, that the recovery page is named, and that each required
dependency has a way out and is looked after. It shares no operator with the
audit but the name of a route's operator.

Two things a reader of the code may not expect. A dependency with a field of a
wrong type is dropped without an issue (`manifest.ts:228`), so a required one
may escape the audit; `Recoverable` speaks of those that are kept. And the score
does not order manifests by the verdict: one that fails may have 80, one that
passes 65 (`ScoreTellsVerdict`).

### GitHubWebhook

`Accept` is the synchronous part of a verified request: prune, look up,
insert, parse, find the target. Then one action per call to GitHub. Publishing
a check is two (`CreateCheck`, `Confirm`), as GitHub may have created it when
its reply is lost. `CallFails` is any failure of the call under way. It is
answered 500, but a reply that is not JSON is answered 400 `INVALID_JSON`, as a
delivery that is not JSON is (`server.ts:164`), even when the check run has been
created; either way the delivery stays in the cache. What a delivery is about is fixed
(`payload`, one of the `Worlds`): an event the App handles, another, or a body
that is not JSON, and at each manifest path no file, one that cannot be read
now, one that is not JSON, or one of the `Manifests`, which is parsed and
audited as in `ManifestAudit`. The Map is a set of entries with their place in
insertion order.

### RateLimiter

`Arrive` is one request at both limiters; each is `consume` of `security.ts`
with `prune` before it. `bucket` is the Map with its insertion order, which
breaks ties of the sort. `OpenWindow` starts the count of `granted` at an
arbitrary moment, so that `BudgetHolds` is about every window.

The clock is `now - back + ahead`: `SetBack` and `SetForward` correct it, in any
order, and no bucket is told. A bucket that is dated while the clock is back is
refilled for the same stretch again when the clock is put right
(`security.ts:153-155`), so the budget of a window has, besides a bucket, its
refill and the evictions, a refill for each tick the clock was set forward in it
(`jumped`); being set back adds nothing by itself.

### MultiRpcClient

`answer[e]` is what route `e` said, up to canonicalisation; `"undefined"` is a
reply without a result (for a broadcast: without a string). `Reply`, `Fail`
and `TimeOut` settle one route; `DecideAgreement`, `NextRoute`,
`ReportVerification` and `ReportHealth` are the caller's code once it has what
it awaited.

### Console

A request is sent with the cookie of the moment, decided by the server in a
later step and delivered in a third; handlers run one at a time. The reply of
a login or logout sets the cookie and runs its continuation in one step.
`screen[p]` is not the text of a panel but which session it was fetched under.
`Expire` ends a session at the server; `DropCookie` is the browser, where the
Max-Age of the cookie is the life of the session and counts from its receipt, so
that the cookie goes once the session has ended, soon or late. No script is told
of either: the page keeps its sign-out button and its panels until the next
refusal. `taken` is the session the page took up last, by finding its cookie or by
a sign-in, and 0 once it signed out; the properties speak of that one.
`superseded` stands for `generation` having moved on since the probe began,
the only thing the code asks of it.

### LiveEvidence

`job[p].stage` is where a run of the script is between two of its `persist`
calls. Each such call is `Persist` (memory has moved on), `Truncate` and `Fill`,
as `writeFile` empties the file before it fills it, and may end in
`WriteFails`; what that leads to depends on which `catch` it is under. `Throw`
is every other way to the outer `catch`. `Kill` is the time limit of the
workflow job. An artifact is reduced to what the server and the properties
tell apart: `own` is "exact head verified, and the server's head". A file is
read in one step, and files one after the other, with runs going on in
between. `backed` (what two operators did confirm) and `reader[r].known` (the
latest run on disk when a request read its first file) are there for the
properties.

## 3. What is checked

| Run | Question | Bounds, and why they are enough |
|---|---|---|
| `session_shared` | Does a sign-out hold across instances behind Redis, with skew, outages and late commands? | 2 instances, 1 session, 3 requests (any two operations around a sign-out), lifetime 2 ticks with skew 1: before, in and after doubt all occur |
| `session_local` | The same for one process with its Map and random secret, and is every request answered? | 2 sessions (one signed out, one to be left alone), 3 requests, one restart |
| `session_outage` | Does every kind of request fail closed, and end? | 2 instances, 2 sessions, 2 requests of 4 kinds, a restart of each, Redis coming and going at will |
| `session_boundary` | (violated) Is a captured session dead after sign-out? | 1 instance, 1 session, 2 requests |
| `redis_protocol` | Does the adapter implement the store, is AUTH first, and does every call end? | 2 calls on one digest (calls on different digests share nothing), 4 set-ups: no password, none where one is demanded, the right and a wrong one; a buffer for 3 symbols, so that one whole reply fits and one symbol more does not |
| `webhook_replay` | What does the delivery cache suppress, and what not? | 4 deliveries over a cache for 2, 5 requests, time past the time to live twice |
| `webhook_checks` | Does a check run tell the truth about the head, and is a green one earned? | 2 paths, 2 deliveries and requests, a failure at any call; 2592 manifests: an old and a new one with nothing to find, each with any two of 35 changes; 2671 worlds made of them, and of all pairs of plain files |
| `rate_limits` | Are budgets kept, Maps bounded, announced waits enough? | 3 fingerprints on 2 networks over Maps for one key, 4 requests, one tick, the clock set back once and forward once in any order, so that it is put right, or goes ahead; fingerprints of one network are symmetric |
| `rpc_calls` | Is a value backed, a quorum found, failover in order, a verification true, and does a call return? | 4 routes of 3 operators (an even number, for ties; one operator twice), 2 values, thresholds 1, 2, 3, 5 and default |
| `rpc_verification` | (violated) Does a verification tell failed from pending? | the same |
| `console_session` | Does the screen follow the session the page took up? | 2 sessions, each of which may expire and its cookie be dropped, 3 epochs in which the user acts, requests of the page load, of the user and of each change of session at once |
| `live_evidence` | Is evidence earned, and is what the server shows the latest of it? | 2 runs over 2 paths (both on one, or at the same time on two; one holds a sample at first, as in the repository's README), 3 routes of 2 operators, two airdrop attempts on one path and one on the other, 1 reader |

Every bound is a constant named in its module and comment. `CHECK_DEADLOCK` is
off: behaviours end when their requests are used up.

The two violations are described under `findings` in `PROJECT.json`. In short:

* **A signed-out session may be admitted at its expiry.** The gate checks the
  expiry, then awaits the store, and the store forgets a revocation at the same
  expiry. A request that straddles it is admitted although the session was
  signed out before it began (`server.ts:208-209`). Everything else about
  sign-out holds, and is proved: `LogoutHolds` is the promise for sessions that
  are not in doubt.
* **A failed route is reported as pending.** `verifySignature` keeps no
  difference between a route that failed and one that has no status yet, which
  `docs/threat-model.md:9` says the evidence identifies.

Worth knowing, and not a disagreement with anything written: the GitHub App
records a delivery before it processes it, so one that failed is
answered "duplicate" when it is sent again within the time to live; calls to
GitHub have no time-out; a quorum read with a threshold below a majority may
fail although a smaller group has operators enough.

### Fairness

`session_local` and `session_outage` use `FairSpec`: weak fairness of each
continuation (Node runs a continuation whose promise is settled), of
`StoreFails` (`socket.setTimeout`, so only a request that stays unanswered
needs it), and of `StoreAnswers` for the process-local store, which answers in
the same turn. None is assumed of Redis, of clients, of time or of restarts.
`redis_protocol` uses weak fairness of `PieceOrTimeOut(c)`: before long a piece
arrives at an open socket or its idle timer fires. Nothing is asked of the
server: one that sends for ever and ends no line runs into the bound on what is
pending, which is why that bound is there. `rpc_calls` uses weak fairness of
`TimeOut(e)`, the `AbortController` timer, and of the caller's code; none of
replies. All other runs check safety only.
No liveness is stated of the GitHub App, whose calls have no time-out.

## 4. What is proved

Each theorem holds for every value of the constants, under the assumptions
named in the modules, bounds included: a bound is a constant like any other.
TLC checked what is proved, and each inductive invariant, on the instances of
section 3 before it was proved. Every safety invariant of a passing run, and
each of its refinements, is the statement of a theorem.

All proofs have one shape: an inductive invariant, one lemma per action that the
action keeps it, the case split over `Next`, and the temporal theorem from
those. What follows is what each invariant adds to the property and why.

### Sessions

`SessionRevocationProofs`, for any sets of instances, sessions and requests
and any bounds, from the assumptions of `SessionRevocation`
(`ShapeAssumption`, and `LifetimeAssumption`: a cookie outlives the skew of
the clocks):

* `SessionTypeCorrect` - `Spec => []TypeOK`.
* `ConfirmedLogoutRecorded` - `Spec => []ConfirmedIsRecorded`.
* `ConfirmedLogoutHolds` - `Spec => []LogoutHolds`.
* `RefusalHasACause` - `Spec => []RefusedOnlyWithCause`.
* `OutageFailsClosed` - `Spec => []FailClosed`.
* `ServerImplementsLifecycle` - `Spec => ImplementsLifecycle`, the refinement of
  `SessionLifecycle`.

All but the first assume `Supported`: the two deployments of `docs/self-hosting.md`,
either a shared store with a configured secret, or one process with neither. A
process-local store under a configured secret, or several of them, loses or
never shares a sign-out, as that document says.

The argument. `LogoutHolds` speaks only of late requests that were admitted
and is not inductive. `SessionInv` adds what the steps in between rely on:

* `CookieChecked` - a request past the cookie check holds a cookie of the
  present process of its instance (a restart cuts its requests off);
* `SignOutRecorded` - the session of a confirmed sign-out, and of one that the
  store has carried out, is *gone*: in doubt, or in the store of every
  instance that accepts its signature;
* `LateLearns` - a late request whose reply says "not revoked" has a session
  in doubt;
* `LoginsFresh`, `KeysKnown`, `IdleBlank` - a cookie being issued is not one in
  use, keys are those of boots so far, and nothing is known of requests that
  have not begun.

The heart is that nothing brings a session back (`GoneStays`): the store drops
an entry only past its expiry by the store's clock, and then the session is in
doubt; a restart empties a Map only together with the key that signed; time
only adds doubt.

`RefusedOnlyWithCause` and `FailClosed` are about why a request got its answer,
which the state keeps no record of once it is given. `GateInv` is `SessionInv`
with five parts:

* `Untouched`, `OutcomesAgree` - a request that has not begun has left no trace,
  one that waits has no outcome, one at work was let in;
* `EntriesCaused` - every entry of a store, and every command that is still on
  its way to one, comes from a sign-out of that session that has begun;
* `VerdictsGrounded` - what a request was told at each of its steps is grounded
  in its session: a look-up that found something in a sign-out of it, one that
  found nothing in a session that was live when the request began, or in doubt;
* `OutageSeen` - whoever got past a shared store has seen it within reach.

The refinement maps `Standing(s)` and `VerdictState(r)` to the variables of
`SessionLifecycle`. Each action of the server is one of its steps or a stutter
(`LifecycleStep`): `BeginX` begins a request with what its session is then, which is why a
verdict is about the past; the answer of a store ends a session (`EnterStanding`)
or changes nothing; only `ResumeX` decides, and `VerdictsGrounded` makes the
decision one the abstract system allows. A tick may put any number of
sessions in doubt at once (`LapseStanding`). Proving it showed that `VerdictState` had
two arms of a `CASE` that overlapped on an admitted request whose process then
went away. TLC takes the first; the arms now exclude each other.

### The store and its adapter

`RevocationStoreProofs`: `ConfirmedRevocationIsHeld`, a digest whose revocation
was confirmed is held until it lapses, and `ConfirmedRevocationIsFound`, a
look-up carried out after that, before the lapse, answers "revoked". The
invariant (`StoreInv`) is the type and `EffectsAreOwn`: what a call was told and
what its command did belong to the command it asked for.

`RedisProtocolProofs`, from `AdapterAssumption`:

* `AdapterImplementsStore` - `Spec => ImplementsStore`.
* `AdapterKeepsConfirmed`, `AdapterFindsConfirmed` - both theorems above, of the
  adapter: they are cited through an instance of `RevocationStoreProofs` with the
  refinement mapping put in.
* `CommandsFollowAuth` - `Spec => []CommandFollowsAuth`.
* `AdapterTypeCorrect` - `Spec => []TypeOK`, with the bound on what is pending.

The argument. What a call has received and not used, followed by what is still
coming, is its `Stream`; no way to cut it into pieces changes it. `AdapterInv`
says of a waiting call that either its last operation has not been met by the
server and the stream is garbage, or it has been met and the stream is one
line, perhaps behind garbage, then garbage, where the line is a reply to that
operation: for a command it means what the command did or means failure; for
AUTH it is "OK" only when the server accepted (`OneReply`, `IsReply`). Garbage in
front of a line never turns it into another reply (`GarbageSpoils`). From this,
what one turn of the loop makes of a piece is one of four things (`Comes`): a
failure, what the command did, nothing yet, or that AUTH is accepted. Of a
settled call at most one operation is still on its way, and it failed (`Over`),
which is why carrying out late is a step of the abstract store.

### Manifests and the App

`GitHubWebhookProofs` has three parts. Of every manifest:

* `SoundMeansRecoverable` - without issues, the verdict is clean just when the
  manifest is `Recoverable`. The interesting half: when both forms of a key are
  there, the issues "disagree" make them equal, so that every reader finds the
  redundancy the audit found.
* `ParsedIsStable` - what `parseManifest` returns has no issues and parses to
  itself.
* `ScoreTellsVerdict` - the bounds of the score, and of either verdict's.

Of the checks, from `WebhookAssumption`: `WebhookTypeCorrect`,
`ChecksTellTheHead`, `GreenChecksAreEarned` (by `SoundMeansRecoverable`),
`AnswersMatchChecks`. The invariant (`TruthInv`) ties a handler's conclusion to
the paths it has read: every path before its own had no file; and the check
that GitHub has, if any, to that conclusion, from its creation on and through
every way its reply can be lost or fail.

Of the delivery cache: `ReplaysAreSuppressed`, `CacheKeepsOrder`,
`DuplicatesAreRecent`. The invariant (`CacheInv`) says that every entry ever
accepted that is no longer in the Map went for a cause that still holds - its
time is up, or as many later entries were accepted as the Map holds - and that
insertion order is the order of time.

### The limiters

`RateLimiterProofs`, from `LimiterAssumption`, for any clients and networks,
costs, capacities, refills, sizes of the Maps and settings of the clock:
`LimiterTypeCorrect`, `BudgetsHold` (`BudgetHolds`), `RetryAfterIsEnough`
(`RetryAfterSuffices`), `TrackedKeysAreBounded` (`MapsBounded`).

`BudgetHolds` is not inductive: it says nothing of what a bucket may still
grant. `LimiterInv` has

* `Covered` - what was granted *and* what is `Available` at once are within the
  budget. A request moves cost from one to the other; a tick, or one by which the
  clock is set forward, adds at most one refill to both sides; a clock that is
  set back makes less available; a key that is forgotten, and so starts full, is
  paid for by its eviction;
* `PromisesCovered` - while the clock was never set back, no entry is dated ahead
  of it, and the entry that a denial left behind will have earned the cost at
  the moment announced. This
  is where the division is rounded up (`RoundedUp`);
* `Numbered` - the entries are finitely many and their places differ, so that
  the stable sort is a total order, their ranks in it differ (`RanksDiffer`), and
  those left by pruning are mapped one to one into `MaxTracked` ranks.

### The Multi-RPC client

`MultiRpcClientProofs`, from `ClientAssumption`, for any number of routes however
they are shared out among operators, any values and thresholds:
`ClientTypeCorrect`, `ReturnedValuesAreBacked` (`ValueIsBacked`), `QuorumsAreFound`
(`QuorumIsFound`), `FailoverKeepsOrder` (`FailsOverInOrder`),
`VerificationsAreTruthful` (`VerificationIsTruthful`).

`CallInv` adds that answers fit the method, that first-success has asked the
routes up to one and all before it failed, and that other calls asked all at
once. The argument of `QuorumIsFound` is one of counting: two groups share no
route (`GroupsShareTheEndpoints`), so one with a majority of them is larger than
any other and the choice by size cannot pass it over (`MajorityWins`).

### The console

`ConsoleProofs`, from `ConsoleAssumption`: `ConsoleTypeCorrect`,
`PanelsFollowTheSession` (`ScreenFollowsSession`), `SignOutIsOfferedInSession`
(`SignedInIsTrue`), `TokenIsAskedWithoutSession` (`SignedOutIsTrue`).

`ConsoleInv` says whom each thing under way speaks for: a request of this epoch
carries the cookie of the session the page took up, or none once that session
has ended, and its reply was right of what it carries (`RequestsFollowTaken`);
the probe does as long as nothing superseded it (`ProbeFollowsTaken`), and so
does the browser's cookie itself (`CookieIsTaken`); a token is asked for or
checked only without a session
(`LoginIsNeeded`), and one that was accepted brings a new session (`LoginIsNew`).
`RunsOut` bounds the epochs that follow the user's last act, for the type.

### Live evidence

`LiveEvidenceProofs`, from `EvidenceAssumption`, for any paths, routes, operators,
attempts, readers and limits: `EvidenceTypeCorrect`, `EvidenceOnDiskIsEarned`
(`EvidenceIsEarned`), `SuccessfulExitIsTrue` (`ExitIsTrue`),
`NothingSupersededIsShown` (`SupersededIsNotShown`), `EverySourceIsAccounted`
(`SourcesAccounted`).

A step of the script is about one path, so its part of `EvidenceInv`, `PathOK`, is
about one: what its run has built is earned at every stage, the file is never
of a later run than the one that is going on, and a run that is done has left
its file or is about to. The readers' part is about all of them: from the moment
of its first read there is a path on which a reader has seen, or will see,
nothing older than the latest run then on disk (`Covered`, `Leads`). No step of
the script takes that away, as a file only goes on to later runs or to
something unreadable. `SourcesAccounted` is about the stable sort: the ranks are
a bijection (`SortIsTotal`, `RanksAreTaken`), so a record that is not among the first `limit` has
`limit` others before it.

### Only model-checked

* Liveness: `EveryRequestEnds`, `CallEnds`, `CallReturns`. Fairness speaks of
  `ENABLED`, which the prover does not reason about.
* The two properties that are violated, of course.
* The comparisons of cookies' strings and of bytes are abstractions, not proved.

## 5. What is left out

* Of the sessions: requests answered 429 (they change nothing here), cookies
  without a nonce from older versions (two of one millisecond are one session),
  servers without a console token (nothing is protected), the strings of
  cookies and digests. Redis is assumed as `docs/self-hosting.md` demands it:
  durable, not evicting, consistent.
* Of the Redis adapter: the options its constructor checks before anything is
  sent (scheme, host, prefix, time-out), TLS, and the bytes within a reply's
  value. A reply longer than the bound is one symbol too many.
* Of manifests: white space and upper case in names (the audit takes providers
  as they are, the client and the console trim them), the type checks of single
  fields, which are one bit, and the texts of findings.
* Of the GitHub App: the bootstrap server, its limiter (see `RateLimiter`), the
  JWT, a clock that is set back.
* Of the client: fields of the evidence that repeat what is in `answer`,
  elapsed times, and canonicalisation, which is equality here.
* Of the console: static mode with `localAudit`, tabs, texts, the age of two
  replies of one epoch, cookies that the user clears or another tab changes.
  Two equal requests with equal replies under way are one. The clocks of browser
  and server run alike, so that no cookie goes before its session. `localAudit`
  reads raw fields where the parser normalises them (a threshold given as a
  string, a provider that is not a string, an empty program address), so it
  may find other than the server on the same manifest.
* Of the live evidence: the score by the analytics service (a failure of it
  changes nothing in a record), time stamps in another form than the script
  writes, two runs at once in one directory. Of the checks on health and
  balances only that they may end the run.
* The components marked `not_modelled` in `PROJECT.json`, for the reasons given
  there.

## 6. Plan

1. Proofs: what `SessionLifecycle` is worth to a user, proved of it and carried
   over through its refinement, as was done for the store; what the sort and the
   limit of the evidence history return, as theorems of their own.
2. `Console`: the age of two replies of one epoch, the evidence panel's contents.
3. `ProviderRuntime`: the order of its checks, as an operator.
4. The sessions over `RedisProtocol` in place of the abstract store, in one
   composition; until then the composition is by refinement.
