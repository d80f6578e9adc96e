# A TLA+ model of bema-claim-service

The service accepts insurance claims over HTTP (`POST /api/claims`), keeps them
in PostgreSQL, queues their ids in Redis and lets a worker in every process move
each claim along a status table until it is approved or rejected. Status changes
are announced on an in-process event bus and pushed to browsers over Socket.IO.
This directory holds TLA+ modules of that system, the TLC configurations that
check them on small instances, and proofs, checked by TLAPS, of what holds for
every instance. Paths below are relative to the repository.

## 1. Inventory

| Component | State | Operations | Correct means |
|---|---|---|---|
| Claim lifecycle (`src/claim/validators`) | none; a table | `validate` | statuses only move along the table |
| Claim service (`src/claim/claims.service.ts`) | `claims` rows (status, version) | `createClaim`, `getClaim`, `getClaimInternal`, `getAllClaims`, `updateClaimStatus` | an acknowledged claim is not lost; concurrent updates do not overtake each other |
| Fraud worker (`src/claim/workers/fraud.worker.ts`) | `isRunning`, the claim in hand | `start`, `processClaim`, shutdown | each claim processed by one worker, retried within budget, decided or dead-lettered in the end |
| Redis queue (`src/common/redis/redis-queue.service.ts`) | lists `claims:queue`, `claims:dlq`, hash `claims:retry`, payload and pending keys | `add`, `getNext`, `requeue`, `moveToDLQ`, `incrementRetry`, `canRetry`, `clearPending` | an id is in one place |
| Idempotency (`src/common/idempotency`) | a record per key: none, pending (60 s), complete (24 h) | look-up, lock, wait, finalize, release | one request per key at work; replays get the same claim, and find it |
| Rate limit (`src/common/rate-limiting`) | a counter per identity and window | `assertCreateAllowed` | no more than the limit per window; counters go away |
| Gateway (`src/claim/gateway`) | `client.data`, rooms | handshake, `join-claim-room`, emission | members hear all later changes of their own claims, in order |
| Access tokens (`src/common/auth`) | revocation keys (written by identity-service) | `verifyToken`, `isRevoked`, the HTTP guard | ended tokens are refused, also when Redis is silent |
| HTTP controllers (`claim.controller.ts`, `app.controller.ts`, `metrics.controller.ts`) | none | the routes, with their guard and pipes | a refused request has done nothing |
| HTTP exception filter (`src/common/exceptions`) | none; a table of routes | `resolveStatus` | 404, 405 and 500 say what is so |
| Request validation (`create-claim.dto.ts`, `main.ts`) | none | `ValidationPipe` | what is stored is what the DTO admits |
| Local events (`src/common/events`) | none | `emit` | synchronous, local |
| User validation and cache (`src/claim/services`) | a `Map` with expiry | `validateUserExists`, `set`, `get`, `invalidate` | fail closed; no answer older than an entry's life and one timeout; not wired into the application |
| Configuration (`src/common/config`) | `cachedConfig` | `load`, `get`, `reset`, `isAllowedWebSocketOrigin` | no process with an environment out of order; the configured origin and no other |
| Correlation ids and logging (`src/common/correlation`, `src/common/logging`) | a store per request | middleware, `write`, `sanitize` | a line names its own request; secrets are hidden |
| Redis and Prisma clients | connections | commands | the ways a command may fail |
| Metrics, tracing | counters, spans | `inc`, `observe` | transitions are counted; the rest is output |

How they interact. A request runs through the rate limit, the idempotency record
and the queue length, inserts a row, queues its id and completes the record. Every
process runs one worker over the same Redis list; the worker reads and writes the
same rows through `ClaimService`. `updateClaimStatus` counts and emits after the
commit; the gateway of the *same process* forwards the event to the sockets in the
claim's room. All of Redis is reached through one client per process, which the
shutdown hook of `RedisQueueService` closes for everybody.

What is hard here:

- *interleaving*: workers of several processes, requests with one key, and a
  worker that finishes a claim before the request that created it is answered;
- *failure between two commands*: no multi-command step is a transaction
  (SETNX/PEXPIRE, INSERT/LPUSH, LPUSH/HDEL, INCR/PEXPIRE, UPDATE/SELECT);
- *ambiguous failure*: a command may have run although its promise was rejected,
  and the Redis client sends a command again after a reconnection;
- *crash and shutdown*: RPOP has no acknowledgement, an exception of `getNext`
  ends `start()`, and with it the process (an unhandled rejection);
- *time*: a lock that is outlived, a payload that expires, a window that ends, a cached
  answer that an older one replaces;
- *what one part knows of another*: the exception filter repeats the routes by hand, the
  DTO measures a text that is trimmed later, the decorator of the gateway reads the
  configuration before `bootstrap` does.

`PROJECT.json` lists every hazard at its line with the properties that cover it.

## 2. Modules

| Module | Models | Uses |
|---|---|---|
| `ClaimStatus` | the enum, the transition table, `validate` | |
| `ClaimLifecycle` | *abstract*: what may become of a claim and be announced of it | `ClaimStatus` |
| `Disruptions` | the outcomes of a command, and a budget for everything that goes wrong | |
| `ClaimStore` | the claims table and the Redis keys | `ClaimStatus` |
| `FraudWorker` | the worker loop with `updateClaimStatus` and the queue | `ClaimStore`, `Disruptions`; implements `ClaimLifecycle` |
| `IdempotentCreation` | *abstract*: as long as no record is lost, a key is bound to one claim for good, and a request is given it or fails | |
| `ClaimCreation` | `createClaim`, the idempotency records, `add` | `ClaimStore`, `Disruptions`; implements `IdempotentCreation` |
| `ClaimRequest` | what body and header come to: DTO, `buildKey`, `fingerprint`, the row | |
| `HttpSurface` | one request from its arrival to its status: body parser, routes, guard, pipes, handlers, exception filter | `Disruptions` |
| `UserValidation` | `validateUserExists` and `UserCacheService` | |
| `ServiceConfig` | environment, `cachedConfig`, start-up, the origin test of the handshake | |
| `Logging` | correlation ids, `LoggerService` | |
| `ClaimService` | the running service: processes that each serve requests and run a worker | instances of `FraudWorker` and `ClaimCreation`; implements `ClaimLifecycle` and `IdempotentCreation` |
| `RateLimit` | `assertCreateAllowed` over a clock | `Disruptions` |
| `Gateway` | handshake, rooms, emission, delivery | `Disruptions`; runs over an instance of `ClaimLifecycle` |
| `FraudWorkerProofs`, `ClaimCreationProofs`, `RateLimitProofs`, `GatewayProofs`, `UserValidationProofs` | theorems | their component, `CommonProofs`, `TLAPS` |
| `ClaimServiceProofs` | theorems of the composition | `ClaimService`; instances of `FraudWorkerProofs` and `ClaimCreationProofs` |
| `RequestProofs` | theorems of what one request meets | `ClaimRequest`, `HttpSurface`, `ServiceConfig`, `Logging`, `CommonProofs` |
| `CommonProofs` | lemmas: sequences, finite sets, least and greatest elements, the counting of disruptions | `Disruptions`, `TLAPS` |
| `MC...` | small instances | |

### How state and actions correspond to the code

One action is the code from one `await` to the next. `pc` names the command that is
awaited; the action begins with the effect of that command and ends where the next
one is issued. So every point at which the event loop may switch to other code, and
every point at which the process may die, is a state of the model. JavaScript between
two awaits is atomic, as it is in Node.

A command has an outcome (`Disruptions`): `ok`; *refused* (it did not run and the
caller sees an exception); *unanswered* (it ran and the caller sees an exception);
*resent* (it ran, the client sends it once more, the caller still waits). Database
commands are refused or unanswered. Every outcome but `ok` is counted in
`disruptions`, and the constants `Kinds` and `MaxDisruptions` say which of them, and
how many, a behaviour may contain. Properties use the counters for what they really
depend on: "unless a command is repeated", "one claim lost per disruption at most".

- Lists are sequences, oldest first: `LPUSH` appends and `RPOP` takes the head.
- `row[c]` keeps `status` and `version`; the other columns are never tested.
- The fraud rule (parity of the characters of the id) is the constant `Decision`.
- Requests are named by the id their `randomUUID()` gives, so claims and requests are
  one set. `KeyOf` is the result of `buildKey`.
- `PEXPIRE` of the pending key and `SETEX` of the payload are one action: nobody reads
  either key between them.
- The two one-second delays and the half-second idle delay only separate actions.
- Key expiry is an action: of a pending record when no holder is running (within 60 s a
  holder is done, unless it is *stalled*, which is a disruption), of 24 h keys as a
  disruption.
- `UserValidation` keeps, in place of clock readings, what is left of an entry's life, how
  long a call has waited, and how long ago user-service said yes of a user, or something
  else: time has no end there, and the ages stop counting where nobody tells them apart.
  *CallCached* and *CallService* are the code up to the HTTP call, *Arrive* and
  *CatchClause* the code after it; *Serve* is user-service, so that its answer can be
  overtaken by a change of the user, by the timeout, and by later look-ups. Two actions run
  the catch clause: *Fail* at any time (a status of 500 or more, no connection, a lost
  answer), *Expire* when *Tick* has counted the call up to its timeout; time goes on only
  when the timers that are due have fired.
- In `ClaimRequest` requests follow one another: it is about the *content* of keys, records
  and rows, where `ClaimCreation` is about their order. Texts are sequences over a few
  characters, since trimming, replacing and cutting are what the properties are about.
- In `HttpSurface` a path is the route Express finds for it and whether it is spelled as the
  route is declared: these are what the router and the filter's table tell apart. *Arrive*
  is everything up to the first await (body parser, routing, token), *Exists* the answer of
  the revocation look-up and the pipes, *Read* and *Create* the handlers. What `createClaim`
  does inside is `ClaimCreation`; here it is the statuses it may end with.
- In `ServiceConfig` a parser yields a set: one value, or none if it throws.
- In `Logging` a value is a tree (text, Error, array, object), and a task is a request or the
  worker loop; `AsyncLocalStorage` is a function from tasks to ids. `Trees` is any set of
  trees that has the parts of each and what `sanitize` makes of it, and `Depth` says that
  they are finite; `sanitize` is a recursive function on it.
- In `ClaimService` an exception out of `start()` takes the whole process down; a
  stopping process rejects the Redis commands of its requests from some moment on.

## 3. Runs

| Run | Instance | Shows |
|---|---|---|
| `worker` (`FraudWorker.cfg`) | 2 workers, 2 claims (one approvable), any 2 disruptions; 817 k states | types, one place per claim, retry budget, bounded loss, exclusive updates, transitions counted and announced but for one per failure, refinement of `ClaimLifecycle` |
| `creation` (`ClaimCreation.cfg`) | 3 requests with one key, any 3 disruptions; 126 k states | the lock, replays, acknowledged claims are queued but for one per repeated command, rows and locks left behind for good are bounded, refinement of `IdempotentCreation` |
| `backpressure` | 3 requests, limit 1, no failure | *violation*: the queue outgrows its limit |
| `duplicate_claim` | 3 requests, 1 refused command | *violation*: one key, two queued claims |
| `service` (`ClaimService.cfg`) | 2 processes, 2 requests with one key, any 1 disruption, fairness; 96 k states | what clients were told stays true while workers consume; refinement of `ClaimLifecycle`; refinement of `IdempotentCreation` by all processes together; every request is answered; from acknowledgement to decision or dead letter; half-processed claims are dead-lettered; locks are given back |
| `rate_limit` | 4 requests, limit 2, three windows of two ticks, 1 disruption; 942 k states | the limit per window; counters without a deadline are bounded |
| `gateway` (`Gateway.cfg`) | 1 claim, a socket of its owner and one of somebody else, rooms joined again, 1 failed read; 1.9 M states | types; only owners hear, ended tokens stay out, a member misses nothing |
| `user_validation` (`UserValidation.cfg`) | 1 user, 3 overlapping calls, TTL 3, timeout 2, fairness; 110 k states | no answer, yes or no, rests on anything older than TTL + timeout; every call returns |
| `requests` (`ClaimRequest.cfg`) | 2 requests, 2 users; all 156 headers of up to 3 of 5 characters and 32 around each possible digest, with 2 bodies, and 46 bodies without a header; cut after 2 characters, digests of 1; 706 k states | retries share a record; distinct safe keys, and distinct users, do not; a safe key meets a request without a header exactly if it is its digest; without a header the content decides |
| `http` (`HttpSurface.cfg`) | every request there is: 4 methods, 16 paths, 4 tokens, 4 bodies; 1 failed read; 20 k states | who is served, what is refused before it does anything, and whether 404, 405 and 500 are true |
| `config` (`ServiceConfig.cfg`) | 1 optional and 1 required integer, a required string with a minimum length and one without, every kind of origin; 171 k states | serves exactly if in order; admits exactly the configured pages |
| `logging` (`Logging.cfg`) | 2 requests and the worker, trees up to depth 4; 4 k states | lines name their request; exactly the secrets are hidden |

Why the bounds are enough. Two workers and two claims are the least with which a
copy of an id can be processed concurrently while another claim is in the queue
behind it. Two disruptions allow every pair "first failure, failure of its handling".
Retrying to exhaustion takes one disruption only, since a half-processed claim is
refused on each retry. Three requests on one key are a holder, a waiter and a
newcomer after the release; three disruptions let each of them fail once. In
`service`, one disruption is enough to repeat an id in the queue (an LPUSH that is
sent twice) with a worker on each copy and a request undoing the row beneath them.
Two ticks per window let the first request of a window come at its beginning or at
its end. Three look-ups are one that is slow, one that overtakes it and one that reads
what they left; a TTL above the timeout lets an entry outlive a call. Two requests are enough for what `ClaimRequest` says, since
its properties speak of pairs; with keys cut at 2, headers of 3 characters contain every
pattern of trimming, replacing and cutting.
`HttpSurface` enumerates its requests completely. Symmetry is used only where the runs have no temporal property with
fairness and the constants are interchangeable (workers; requests with one key).

Deadlock is checked for the worker, the service, `UserValidation` and `Logging`, which
never stop. `ClaimCreation` and `HttpSurface` stop when all requests are answered,
`ClaimRequest` after `MaxRequests`, `RateLimit` at the end of its clock, `Gateway` when its
sockets are closed and the claim is decided, `ServiceConfig` where start-up fails, so these
say `CHECK_DEADLOCK FALSE`.

### Fairness

- `ClaimService`: weak fairness of each process and of each request. A process runs its
  worker (the event loop goes on with it; a command is answered or times out after
  `commandTimeout`), ends when it is shutting down, and is replaced when it has ended (the
  orchestrator). None on crashes, shutdowns or expiry: no liveness property rests on a TTL.
- `UserValidation`: time goes on (`Tick`), and a timer that is due fires (`Expire`). Nothing
  is assumed of user-service or of the network: that a call ends, with an answer or with a
  failure (`Serve`, `Arrive`, `Fail`), is not. `EveryCallReturns` follows from the timer
  alone: without fairness of `Tick` it does not hold.

`EveryRequestAnswered` holds whatever happens. The other liveness properties of the service
promise nothing once Redis or a process has failed (`OnlyDatabaseFails`): each such failure
may lose a claim (`AcknowledgedLossBounded` says how many) or leave a lock to its expiry, or
for good (`OrphansBounded`).
What is reached for good, or what need only be true again and again, is written `[]<>`.

### What the violations say

1. `backpressure`: the length is read three commands before the push. Requests that read it
   before the limit was reached push after it, each one id (or two, if the push is sent
   twice).
2. `duplicate_claim`: when `finalize` fails the claim is queued already; the catch
   clause releases the key, so the repetition the key is meant for creates another.

### Divergences met while modelling

These have no run of their own: the modules do what the code does, and the properties are
stated so that they are true of it.

- `updateClaimStatus` reads the row again after the commit and only then counts and emits.
  If this read fails, "Total successful claim status transitions" (`metrics.service.ts`) misses
  one and no browser hears of it. `UncountedBounded` says how many can be missed.
- `user-validation.service.ts` opens with "Claim creation should not proceed if the user
  service cannot confirm identity". `createClaim` looks no user up, and no module provides
  the service; a genuine token is enough.
- `@Length(10, 5000)` measures a description as sent and the row keeps it trimmed
  (`RowOf` and `Valid` in `ClaimRequest`), so blanks around a short text pass the test.
- The filter takes every method but GET on a claim's path for unsupported, and Express serves
  HEAD with the GET handler: HEAD of a missing claim is a 405. `NotAllowedIsTrue` excepts it.
- The filter's table knows one spelling of a path and Express several: an unsupported method
  on `/actuator/health/` is a 404. `NotFoundIsTrue` speaks of paths spelled as declared.
- A request that waited for the holder of its key says "already being processed" also when
  the holder has failed long ago. What a client needs then is that a repetition goes on:
  `LockIsReleased`, `EveryRequestAnswered`.
- Of an access token whose header is the JSON text `null`, `verifyToken` reads a field, and
  the TypeError is answered as a 500 (`RefusedToken` in `HttpSurface`).

## 4. Proofs

All theorems hold for every set of workers, requests, sockets or processes, every finite set
of claims, every `Decision`, `Kinds` and `MaxDisruptions`, every limit and window, every TTL
and timeout, every set of headers and bodies, every environment, and every set of trees that
are logged, of which the modules assume no more than their `ASSUME`s say. Between them they
state every invariant that the passing runs check, and every refinement. Each follows from an
invariant that is inductive, alone or with the type invariant; what each of these adds is
what is told here.

`FraudWorkerProofs`

- `TypeCorrect`: `Spec => []TypeOK`. The type invariant is inductive as it stands; it
  includes that a worker has a claim in hand exactly between RPOP and the end of its turn.
- `UpdatesAreExclusive`: `Spec => []ExclusiveUpdate`. Four parts need one another
  (`UpdateInv`): that nobody writes the row of an owner (`OneOwner`, `OwnersAgree`) rests on
  what a worker that is about to write has read (`ReadsAgree`: if the version is unchanged,
  the validator's answer stands), and that the next announcement is new rests on what has
  been announced (`EventsAgree`). The argument uses the version column and the transition
  table only: it makes no assumption on copies of an id in the queue, and so holds under
  every disruption. `UpdateInv` allows that a row is withdrawn while it is worked on, which
  `createClaim` does in the composition; without requests, `RowsStand`.
- `WorkerImplementsLifecycle`: `Spec => LifecycleSpec`. Under the mapping `status <- row
  status, announced <- events`, `Write` is `Advance` or a stutter, `Reload` is `Announce` or
  a stutter, every other action a stutter. It rests on the two theorems above.
- `ClaimsAreInOnePlace`, `RetriesAreWithinBudget`: `Spec => []AtMostOneCopy`, `Spec =>
  []RetryBudget`. Neither is inductive: that a requeued id is not in the queue yet needs
  that its worker alone holds it, and that it comes back below the budget needs what the
  counter says at each command of the turn. `PlaceInv` is both, at every command
  (`OnePlace`, `WithinBudget`), while no command was sent twice (`Never("resent")`).
- `LossIsBounded`: `Spec => []LossBounded`. One disruption of Redis may do harm twice: it
  ends `start()`, and the worker that is stopping then drops the claim in its hand.
  `LossInv` counts for it: claims that are forgotten (lost, or without a payload and so not
  processed any more) *and* workers that are stopping with a turn to finish are together at
  most the disruptions other than of the database. Each step adds one disruption and one to
  the left side, or turns a stopping worker into the claim that it drops (`Accounted`).
- `UncountedIsBounded`: `Spec => []UncountedBounded`, by the same credit (`CountInv`): a
  worker between commit and read-back owes the announcement, a worker that stops may keep
  it.

`ClaimCreationProofs`

- `TypeCorrect`: `Spec => []TypeOK`, inductive as it stands. It includes that a record names
  a claim exactly when it is complete, and that a request in the try block has its own claim
  id.
- `ReplaysFindTheirClaim`: `Spec => []CompleteNeverDangles`. The difficulty is that
  `createClaim` deletes rows: a record must not outlive the row it names. `SettledInv` says
  why it does not. The claim of a complete record, and of a request that has read one, is
  *settled*: its row exists and the request that made it is past the `add`, the only step
  whose failure takes the row back (`RecordsSettled`, `ReadersSettled`); and until then the
  row stays where it was inserted (`RowInPlace`). Requests that overtake an expired lock do
  not disturb this, since each finalizes its own claim.
- `LockExcludes`: `Spec => []LockProtects`. `LockInv` says that while no request has
  outlived its lock and no command was sent again, the requests in progress on a key are one
  at most, and under a record. A request enters only where SETNX finds nothing, so where
  nobody is in progress. Counters of disruptions only grow, so the hypothesis holds before
  each step that it holds after.
- `AcknowledgedClaimsAreQueued`: `Spec => []AcknowledgedIsQueued`, under every disruption. A
  pending key found by `add` makes it return without a push, and the claim is acknowledged
  all the same. As the claim id is new (`FreshInv`), only a SETNX that was sent twice can find
  one, its own: `QueuedInv` counts the claim from there on, at `finalize`, in complete records,
  with readers of records. Every other claim on its way to an answer is in the queue from
  the `LPUSH` on. (Of rows it says nothing: that a
  record names a claim that is there is `CompleteNeverDangles`.)
- `OrphansAreBounded`: `Spec => []OrphansBounded`. A row is an orphan only when its request
  has ended; `OrphanInv` counts it already when this has become certain (`Doomed`), one for
  a crash, a repeated SETNX of the pending key, or a failed deletion. A lock without an
  expiry is the other thing that may be left (`LocksInv`): a request whose SETNX took the key
  sets one, unless a command of Redis fails or the process dies just there.
- `CreationIsIdempotent`: `Spec => IdempotentSpec`. Under the mapping `kept <- RecordsKept`,
  `bound <- the claim of the record`, `answer <- pc and claimId`, and while records are
  kept, `Finalize` is `Bind`, `Fetch` is `Replay`, every failing step `Fail` of its request, and
  the rest stutter; a step that loses a record, and each one after it, is `Lose`. A record is deleted
  by whoever fails last, so the refinement rests on who can still delete. `KeptInv` has
  three parts, under the hypothesis `RecordsKept` (no stall, no early expiry, no lost or
  repeated reply): a request in the try block has a pending record (`HeldIsPending`), a
  completed record is never in the hands of anyone who would release it (`CompleteLasts`),
  and every successful answer, or id read for one, is what the record says
  (`AnswersAreBound`). It uses `LockExcludes`: without it the holder of the record is not
  unique. Refused commands, database failures and crashes are within the promise.

`ClaimServiceProofs`. A step of the service is one of the worker's, of a request's or of the
records', and some are two at once: an exception out of `start()` takes the requests of its
process down. `Interleaving` says so, and the lemmas of the two components apply to it as
instances, their assumptions proved first.

- `ServiceImplementsLifecycle`: `Spec => LifecycleSpec`, with requests that insert rows and
  take them back under the workers. `LifecycleInv` is `UpdateInv`, and that nobody has seen
  a claim that is not inserted yet (`FreshInv`, `Unseen`), so that an insertion is a new
  claim.
- `ReplaysFindTheirClaim`: `Spec => []ReplayFindsClaim`. `SettledInv` again; workers write
  rows and delete none.
- `AcknowledgedLossIsBounded`: `Spec => []AcknowledgedLossBounded`. The bounds of the
  components do not add up to it, since they would count a disruption twice. `PromiseInv`
  counts across both: claims that are promised and forgotten, claims on their way into the
  queue that will not get there (`Gone`), and stopping workers. What is promised is past the
  `add` (so that nothing it still does can undo the promise).

- `ServiceIsIdempotent`, `LockExcludes`: `Spec => IdempotentSpec`, `Spec =>
  []Creation!LockProtects`. Workers and records share the stores and the counters of
  disruptions only, so what a worker does, and what the end of a process does to its
  requests, is to `KeyInv` (`LockInv` and `KeptInv`) an *interruption*: requests that are not
  answered fail, or one of them goes to its clean-up, and no record changes
  (`InterruptionKeeps`). A process fails all its requests in one step, which is why `Fail` of
  `IdempotentCreation` takes a set of them; of single requests it would be false of two on
  one process.

`RateLimitProofs`

- `TypeCorrect`: `Spec => []TypeOK`, for every clock; no run repeats it.
- `TheThrottleHolds`: `Spec => []ThrottleHolds`. `ThrottleInv`: no request
  has a key of a window that has not begun; a key that has a deadline outlives its window
  (`KeysOutliveWindows`, for which PEXPIRE must be given at least a whole window); so while
  its window lasts, a counter is at least the number of requests that were counted in it
  (`CountsSuffice`), and these stay at most `Limit` when the window is over.
- `CountersExpire`: `Spec => []CountersHaveDeadlines`, inductive with `TypeOK`. Only the INCR
  that creates a key leaves it without a deadline, and its request goes on to PEXPIRE, unless
  something fails just there: `LastingStep` charges the counter to it.

`GatewayProofs`

- `TypeCorrect`, `EndedTokensStayOut`: `Spec => []TypeOK`, `Spec => []EndedTokenStaysOut`.
  `HandshakeInv`: the identity of a socket is that of its token (`Presented`), and a token
  that had ended before the handshake, and was not refused at once, had been revoked
  (`LateIsRevoked`), which EXISTS will say.
- `OnlyOwnersAreTold`: `Spec => []OnlyOwnersHear`. `OwnersInv` follows the right from the
  moment it is read (`granted`), over the room, to what was sent: the owner of a claim does
  not change, so what is stale by then is still true.
- `RoomsMissNothing`: `Spec => []RoomMissesNothing`. `RoomInv` describes what was sent to a
  socket as the image of the changes since it joined, one by one and in order (`Reported`),
  among packets for other claims; and a claim outside the rooms has no packets
  (`NothingOutside`), so that a room that is joined again starts anew.

`UserValidationProofs`

- `TypeCorrect`: `Spec => []TypeOK`, from `TimeAssumption`.
- `YesRestsOnRecentAnswer`, `NoRestsOnRecentDoubt`: `Spec => YesIsRecent`, `Spec =>
  NoIsRecent`. Both need what overlapping calls leave behind: `EntriesAreRecent` bounds the
  age of what an entry says by what is used up of its life plus one timeout,
  `RepliesAreRecent` the age of an answer under way by how long its call has waited. A late
  call that overwrites a newer entry re-establishes the first from the second, which is why
  the bound is TTL + timeout and not TTL.

`RequestProofs`

- `RetriesGetTheirClaim`, `WellFormedKeysAreApart`, `ContentMakesTheClaim`: `Spec => []` of
  `RetriesShare`, `KeysApart`, `ContentDecides`. `RecordInv` makes them properties of
  `BuildKey`: two keys never have one claim (`RecordsDiffer`), and every accepted request
  was answered with the claim of its key (`AnswersAreRecorded`), so requests share a claim
  exactly if they share a key. The lemmas on keys then say when they do: trimming, replacing
  and cutting leave a well-formed header as it is; `buildKey` puts the digest of a content
  into the same namespace, and a header becomes a digest only if it was one before
  (`SafeKeyReturns`: a digest has no underscore and is shorter than the cut). Every claim
  came of a request with its key (`RecordsTell`), so if no header of its user is that
  digest, it came of the same content. `DigestAssumption` is all that is assumed of SHA-256:
  safe characters, a length below the cut, and no collisions.
- `ClaimsAreForBearers`, `RefusalsDoNothing`, `TheFilterIsTrue`: `HttpSpec => []` of
  `OnlyForBearers`, `RefusedDoesNothing`, `StatusIsTrue`. `SurfaceInv` is these three, and
  what has been established about a request at each command it awaits (`Underway`): behind
  the guard, that its token is genuine and, if it was late, revoked; in the handler, that it
  was not late and the pipes accept it.
- `OnlyTheConfiguredPage`, `OrderDecides`: `ConfigSpec => []` of `ConfiguredPagesOnly`,
  `ServesIfInOrder`. `ConfigInv`: both readings of the environment come to the same, whether
  or not the first was kept or reset between; the lemma `LoadedInOrder` says that there is a
  configuration exactly if the environment is in order.
- `LinesAreSigned`, `SecretsStayHidden`: `LogSpec => []` of `LinesNameTheirRequest`,
  `OnlySecretsAreHidden`. `LogInv`: the store of a request has what its client was told, or
  nothing if nothing was told (`Told`); so has the last line (`Signed`), and what it has of
  an object is that object sanitized (`Copied`). That this hides exactly what is under a
  sensitive key is a statement about a recursive function on all finite trees
  (`SanitizeFaithful`). The theorems on recursion and induction of the library cannot be
  used, so both are proved from the least element of a set of numbers. `SanitizeUnfolds` and
  `LeavesUnfolds` say that there is a function as the recursion describes: one for each
  depth, each built upon the one before, that agree where both are defined. And of the
  trees that `sanitize` does not treat faithfully, if there were any, one would be the least
  deep; its parts are treated faithfully, so it is as well (`FaithfulArray`,
  `FaithfulObject`).

`CommonProofs` has what several of them cite: how appending, taking the head, and adding one
element change a sequence and a cardinality; that a disruption is counted once
(`SufferCounts`) and what never happened had not happened before (`NeverBefore`).

Some definitions have the form they have for the sake of these proofs: `Suffered` writes its
sum out, `Unannounced` is a set and not a sum, packets of a socket are addressed by their
position, the characters with a meaning in `ClaimRequest` have names (`Space`, `Filler`),
and the recursive functions of `Logging` take one step in an operator of their own
(`SanitizeOf`, `LeavesOf`), since the prover expands them properly in this form.

Model-checked only: everything with fairness (`EveryRequestAnswered` and the other liveness
properties of `ClaimService` and `UserValidation`), since liveness and `ENABLED` are out of
the prover's reach. No module that is proved about uses a RECURSIVE operator.

## 5. Limits of the model

- A command that times out may still run on the server later; here it runs, if at all,
  before its caller goes on (*unanswered*).
- There is one clock in `RateLimit`; processes whose clocks differ count in different
  windows.
- A cached or lost TCP connection of a socket is a closed socket; a reconnecting client
  is a new one.
- The tests on tokens (signature, header, claims) are one predicate: a token is genuine
  or it is not.
- In `Gateway` one process announces all changes of a claim; that is what
  `UpdatesAreExclusive` gives, since an owner that fails has no successor.
- `ClaimRequest`: the conversions of `class-transformer` are taken as done, ids of users
  contain no ":", and SHA-256 has no collisions. A header that equals the digest of a content
  shares the record of requests with that content and no header, since `buildKey` keeps both
  in one namespace: `KeysApart` says so, and `ContentDecides` speaks of users who send no
  such header. Headers outside the safe alphabet or longer than the cut may collide with one
  another, by design of `buildKey`: `KeysApart` speaks of well-formed ones.
- `UserValidation`: the `timeout` of axios is taken as a limit on the whole call.
- `HttpSurface`: one request at a time (requests meet only in the stores, which
  `ClaimCreation` and `RateLimit` model); `OPTIONS`, which Express answers itself, and
  URLs that cannot be decoded are left out.
- `Gateway`: joining a room returns no snapshot of the claim, so what changed before the
  join is known only from a GET; `RoomMissesNothing` starts at the join.
- `Logging`: metadata has no key named like a field of the line, and is neither cyclic nor
  holds a BigInt, on which `JSON.stringify` throws; trace ids are left out. Nor does it hold a
  Date, a Map or an instance of a class: `sanitize` turns these into objects of their own
  enumerable properties, mostly `{}`.
- `ServiceConfig`: what `Number` and `URL` do is given by constants and records of what
  they yield; strings that have a fallback and no test (`NODE_ENV`, `REQUEST_BODY_LIMIT`,
  the URLs of the trace endpoint and of user-service) are left out. Its properties are about
  the configuration: a process whose environment is in order may still fail to start, for
  instance because its database cannot be reached.
- Not modelled: security headers, counters other than that of transitions, spans, the
  wording of messages, `app.service.ts` and `HttpMetricsMiddleware`, which no module
  applies (`http_requests_total` therefore stays at zero).

## 6. Plan

Done, in this order: lifecycle, store and disruptions; the worker and its
theorems; creation and its theorems; the composed service; rate limit; gateway; user
validation and its theorems; request content; HTTP surface; the abstract specification of
idempotent creation and the proof that `ClaimCreation` implements it; configuration;
logging.

Proved since: the remaining invariants of every component, and the composition against
`ClaimLifecycle`. What is left is with TLC: liveness.
