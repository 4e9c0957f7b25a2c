# Booru proxy: TLA+ specifications

The repository is a NestJS microservice that takes search requests from a
BullMQ queue, answers them from the Danbooru API or from a cache on a Redis
stream, and records failures in a dead-letter stream. Most of what is hard in
it happens between awaits: locks with a TTL, keys that mark work as done,
answers and records that are written on several error paths, all through a Redis
client that resends commands, by several processes that may die. The modules
here model that part, TLC checks it on small instances and TLAPS proves the
safety properties for all of them. Paths below are relative to `src/src/`.

## The system

| Part | State | Operations | Code |
|---|---|---|---|
| Consumer | `processed:{jobId}`, a lock per API prefix and query | `process`: claim, DLQ check, lock with 3 tries, validation, dispatch, catch, release | `common/queues/redis-stream.consumer.ts` |
| Danbooru service | a lock per query | `processRequest`: lock, rate limit, cache, API, purge, answer, DLQ | `danbooru/danbooru.service.ts` |
| Locks | keys with a random value and 30 s | SET NX EX, compare-and-delete and compare-and-extend in Lua, a heartbeat | `common/redis/utils/lock.util.ts` |
| Rate limiter | counters with a TTL | Lua INCR/EXPIRE, composite pipeline, reset | `common/rate-limit/` |
| DLQ | `danbooru-dlq`, `danbooru-dead`, `dedup:job:{jobId}` | `addToDLQ`, `dedupCheck`, `moveToDeadQueue`, `retryFromDLQ` | `common/queues/utils/dlq.util.ts` |
| DLQ consumer | its batch | the drain loop | `common/queues/dlq.consumer.ts` |
| Cache | a response per cache key, on Redis or memcached | `CacheService` and `CacheManagerService`: get, set, get-or-fetch, invalidate by key and by pattern | `common/cache/` |
| API client | its use of the cache | `fetchPosts` with axios-retry, `cacheResponse`, `invalidateCache` | `common/api/`, `danbooru/danbooru-api.service.ts` |
| BullMQ | messages, attempts, stalls | deliver, settle, recover | `common/queues/queues.module.ts`, library |
| Redis client | one connection per process | reconnect, resend, give up | `common/redis/utils/redis-config.util.ts` |
| Bootstrap, shutdown | the process, its jobs, the runs of `gracefulShutdown` | create, listen, signals, close, quit | `main.ts` |

BullMQ calls `process` in any worker process, up to five calls at a time.
`process` draws a jobId, claims it, asks `dedupCheck`, takes a lock, validates
and calls `processRequest`, which takes its own lock and does the work. What
fails is answered on `{prefix}:responses` and recorded in `{prefix}-dlq`. The
calls share Redis, and with it every key in the table; within a process they
share one client.

Hard to get right, and therefore what the properties are about:

* two levels of locks, keyed by different spellings of one thing, released in
  two `finally` blocks that nine returns and several exceptions reach;
* a lock key that expires while its holder waits for an API with retries;
* a client that resends what it never got a reply for (`reconnectOnError`
  returns 2, in-flight commands are sent again after a reconnect), or ends after
  15 failed reconnects and rejects everything from then on;
* `return this.handleErrorAndPublish(...)` without `await` in a `try`/`finally`:
  the answer and the lock release leave in one pipeline, the DLQ entry follows
  when both were answered, outside the lock;
* redelivery by BullMQ of a message whose first call is still at work, or dead;
* marker keys that are read and set in two commands;
* invalidations that list keys and delete them in two commands, while calls of
  three classes, each with its own way to build a key, go on filling the cache;
* a heartbeat whose timer, command and TTL race each other;
* signals that arrive before there is a handler, or while one is at work.

What makes each component correct: the locks exclude and are never taken from
their holder; every completed message was answered, once, with one verdict; a
refusal of the rate limiter has a cause and an end, and its counters admit no
more than the limit; a failed request stays in one of the dead-letter streams; a
cached response fits what it is served to and is gone when it was invalidated; a
job at work is cut off only for a cause; every call, every message and a process
told to stop come to an end.

`PROJECT.json` lists the hazards with their lines (`hazards`) and the lines
each definition models (`map`).

## The modules

| Module | Models | Builds on |
|---|---|---|
| `PipelineState` | constants, state, helpers of one call of `process()`; what a Redis command may do | |
| `DanbooruService` | `processRequest`, an action per await | `PipelineState` |
| `RedisStreamConsumer` | `process`, an action per await | `DanbooruService` |
| `RequestPipeline` | the calls with BullMQ, expiring keys, crashes, clients that end; properties | `RedisStreamConsumer`; refines `Lease`, `RequestService` |
| `Lease` | the abstract lock: a grant that lapses | |
| `RequestService` | the abstract service: what a call tells its client and BullMQ, how it ends and why | |
| `QueryLock` | one lock key in time: `withLock` with its heartbeat, `processRequest` with its API call | refines `Lease` |
| `ResponseCache` | `CacheService` on its backends, as `CacheManagerService` and `BaseApiService` use it | |
| `RateLimiter` | manager and limiter on counters with a TTL | |
| `DeadLetterQueue` | DLQ, dead queue, drain loop, `retryFromDLQ` | |
| `Lifecycle` | a process from `bootstrap()` to its exit | |
| `RequestPipelineProofs`, `LeaseProofs`, `PipelineRefinementProofs`, `QueryLockProofs`, `ResponseCacheProofs`, `RateLimiterProofs`, `DeadLetterQueueProofs`, `LifecycleProofs` | theorems | the module they are about, TLAPS |
| `MCRequestPipeline`, `MCResponseCache`, `MCRateLimiter`, `MCDeadLetterQueue` | values for TLC | |

### The pipeline

A *job* of the model is a call of `process()`, named by the jobId it draws;
`pc[j]` is the await it stands at, `message`, `tries`, `post`, `outcome` its
local variables, `held` the lock keys whose value it keeps. `lapsed` is history:
the keys that expired under their holder. `locks`, `processed`, `marker`,
`cache`, `responses` and `dlq` are what is in Redis; the last two are kept per job, since nothing
in the pipeline reads their order.

A command ends as a `Reply`: `ok`; `resent`, executed twice with only the second reply
seen (`MaxResends` bounds these); `lost`, executed by a client that then ends;
`refused`, by a client that has ended. A resent SET NX finds its own first
value and looks refused, which leaves a key without a holder. Each worker has one
client; after one lost command it has ended, so at most one command per client
is executed and unheard. A restarted worker has a new one.

Choices worth knowing:

* The three commands of `dedupCheck` are one step in the pipeline: the marker is
  named by a jobId that only one call has. `DeadLetterQueue` has them apart.
* Locks and cache entries may expire at any time: more than the code can do, so
  safety holds for every TTL. The processed key, the marker and the DLQ window
  (a day, an hour) outlast a run.
* `FieldsAsPairs = FALSE` is what ioredis returns for a stream entry (a flat
  array, in which `find(f => f[0] === 'queryHash')` finds nothing); `TRUE` is what
  the code and its tests expect.
* `Purge` is what the invalidation patterns match: nothing in production
  (`NoPurge`), since keys have `tag:{hash}` where the pattern has `tag:{tag}`;
  `OwnPurge` is what the comments describe.
* The rate limiter's verdict is free here, so everything holds whatever it says.
* `Job` is finite: BullMQ's concurrency (five per worker) bounds nothing but
  the number of calls at work, and a run has two or three.
* A query, a post or a message is a name; posts are told apart by the request
  that fetched them, which is what `jobId` in a cached response exposes.

### What the pipeline promises

`RequestService` says what clients and BullMQ may rely on, with no locks, streams or
caches in it: a call gives a verdict on its request (`posted` or `failed`) once
and keeps to it; it returns only with a verdict or a silent excuse (refused by
the rate limiter, its own claim met again), rejects only for a cause (malformed data,
no encryption key, an ended client), or dies; BullMQ completes a message only by a
call of it that returned. `KeepsPromises` maps the pipeline to it:

| `RequestService` | Pipeline |
|---|---|
| `of[j]` | `message[j]` |
| `stage[j]` | `pc[j]`, and `outcome[j]` once it is `done` (`StageOf`) |
| `verdict[j]` | the kinds of answers in `responses[j]`; a DLQ entry counts as `failed` (`VerdictOn`) |
| `excuses[j]` | read off `outcome`, `message`, `resends` and the client of the worker (`ExcusesOf`) |
| `status[m]` | `status[m]` |

Each of the pipeline's awaits is then a `Work` step, and a crash or a client that
ends is a `Die` step, though its calls may be none. What a job was told by an
earlier call is not in the promise: the jobId is drawn per delivery, so a redelivered
message may be answered again, as a request of its own.

`CallsAdvance` is the other thing every path has in common: `AwaitsLeft`, the awaits
a call can still meet, falls with every step, through each `catch` and `finally`.

### The rate limiter

A counter is identified by who names it, since the manager's key gets its
prefix twice (`rate:danbooru:danbooru:{client}`), and by the client. `Execute` is the
Lua script, one step because Redis runs it so; `checkCompositeRateLimit` runs one
script per step, between which other clients' commands run. `admitted`,
`unheard`, `refusal` and `admissions` are history. A script whose reply is lost is
executed again by the client (`Unheard`); one that fails inside a composite
check's pipeline counts as a refusal (`CompositeCommandFails`).

### The lock in time

`RequestPipeline` lets a key expire whenever it likes. `QueryLock` asks when it
really does: all clocks are timers that count down in one unit, `Tick` lets a
unit pass and waits for what is due. A caller in `Beating` goes through
`withLock`, whose interval sends an extension; the others are `processRequest`s,
which look at the key again only to delete it. A SET may be executed unheard, an
extension may fail or be executed as late as `Delay`, a release may fail.

`Retry` and `AskAgain` are axios-retry as `base-api.service.ts` configures it:
without `shouldResetTimeout` the time an attempt and its pause took is taken from
the timeout of the next attempt, so that all attempts share `API_TIMEOUT_MS`. That
axios does not count the body of an answer is `BodyTime`. `missed` and `lapsed` are
history; a key is its `owner` and its `ttl`.

### The response cache

A call of `ResponseCache` is one call of a method that reads or fills the cache,
a purger one call of a method that empties it; a step is a command of the
backend, or the request to the API. A key is a record of what the string is made
of, so that two strings are equal exactly when the records are: `Trimmed` and
`Hashed` say which spellings meet. A response is named by the call that fetched
it. `LookupKey` and `StoreKey` differ where the code's do: `CacheManagerService`
and `BaseApiService` hand their TTL to `setCache` in the place of the limit.
`Matches` is what a pattern matches among these keys, `Meant` what its caller
asked to be gone. The backend is chosen in the initial state: Redis, memcached
(no patterns), or the class that `CacheModule` binds as shipped, every method of
which is undefined. `injected` is what a subclass of `BaseApiService` gives it to cache
with: a `CacheService`, a Redis client alone, or neither, as `DanbooruApiService` does
(`danbooru-api.service.ts:17`); without a `CacheService` its look-ups are skipped and its
`invalidateCache` returns 0 and deletes nothing. A command fails, or is executed unheard, as long as `MaxFaults`
lasts; entries expire, and others may write what is no JSON.

### The process

`Lifecycle` is one process: how far `bootstrap()` is, the BullMQ jobs it works on,
and one run of `gracefulShutdown` per signal. The runs share `isTerminated` of
Nest's microservice: the second `app.close` returns when the server is closed and does not
wait for the first. `LoopAwaited` says whether `onModuleInit` waits for the drain
loop, as it does, or not; as shipped `Listening` never happens and a signal
kills the process. A job cut off is BullMQ's to redeliver, which the pipeline
models as a crash.

### The dead-letter queue

Drainers are the `DlqConsumer`s of the processes, retriers callers of
`retryFromDLQ`. Each command is a step that can be answered, be executed without
an answer, or fail. A stream is the set of its entries, numbered in order;
copies of one entry are one element, so a resent XADD is not counted here.
`DrainReads` and `EntryFields` separate the shipped program (an XREAD that Redis
refuses, on a stream nobody writes; entries without the field the drain looks
for) from the one its tests drive. `retryFromDLQ` is exported and nothing in
`src/` calls it; the model calls it for any entry, which is all its signature
asks. Its early returns (no key, `retryCount` used up, no such entry, unreadable
fields) change nothing and are guards. Entries always have `retryCount` 0: no
caller of `addToDLQ` gives another.

## The runs

Passing runs:

| Run | Instance | Shows |
|---|---|---|
| `two_calls` | 2 calls for any two of 6 messages: 3 queries on 2 cache keys, 3 prefixes, one malformed; failing cache, API and validator, fields as pairs, `OwnPurge`, one command executed twice | the locks exclude (`QueryExclusion`), no path leaves a lock (`NoLockLeftBehind`), rejects without cause (`RejectsForCause`), reports twice (`ReportedOnce`), posts what it also reports as failed (`OneVerdict`), completes without an answer (`CompletedIsAnswered`) or serves another query's post (`ServedPostFits`); whoever is turned away from a query meets a call at work on it or what a resent command left (`TurnedAwayForCause`); `TypeOK` |
| `faults` | 1 message, whose first call may be alive when BullMQ redelivers it; either client ends at any command, one crash | `RecordedIsReported`, `HeldUnlessLapsed`; a rejection or a lock left behind means that the client of that call ended (`RejectsForCause`, `NoLockLeftBehind`), whatever happened to the other worker; a redelivered message is turned away only by its first call at work or by what an ended client left (`TurnedAwayForCause`); every key implements `Lease` (`LocksAreLeases`) |
| `recovery` | 1 message with 2 attempts, 3 calls, a crash, a client that ends, a failing cache; fair | the pipeline implements `RequestService` (`KeepsPromises`) and no call goes back (`CallsAdvance`); `CallsReturn`, `MessagesSettle` |
| `timed_lock` | one `withLock`, one `processRequest`, half the code's seconds; fair | a heartbeat keeps the key while its misses leave time (`HeldWhileBeating`), the API call ends before the key does (`KeptThroughFetch`), the key implements `Lease` (`ImplementsLease`) and comes free (`KeyComesFree`) |
| `cached_responses` | 2 calls of 12 kinds, 1 invalidation of 5 kinds, 3 backends, a `CacheService`, a Redis client or neither for `BaseApiService`, 1 fault | `ServedFits`, `PurgedIsGone`, `FoundIsReturned` |
| `rate_limit` | 1 client, window 3 s, limit 2, 7 s, single and composite checks, a lost reply | `WindowBound`, `RefusedForCause`, `RetryAfterSuffices`, `BurstBound` |
| `dlq_retry` | 2 entries, 1 retrier, 2 faults, window 2, time 7 | `NothingLost`, `RetryWaitsForWindow`, `RequestsApart` |
| `dlq_drain` | 2 entries, 2 drainers, 1 retrier, 1 fault; fair | `NothingLost`, `Drained` |
| `shutdown` | 2 jobs, 2 signals, drain loop awaited and not; fair | `CutForCause`, `StopsWhenTold` |

Why the bounds are enough. Exclusion, leases and verdicts are about pairs of
calls: two calls on one query meet in every combination of steps, and the
theorems lift the bound. A second crash or resend adds no step that the first
does not have; `ReportedOnce` counts resends instead of assuming their number.
`LockAttempts` is the code's 3, 2 in `recovery`, where a third try adds only
states. `recovery` has one message, so that each call meets what the one before
left when it died or was cut off; two live calls meet in the other runs. The six
messages of `two_calls` differ in every way the keys can differ: same query, same
cache key only, other prefix, nothing in common. `timed_lock` keeps the ratio of
the code's 30, 10 and 10 seconds and passes through several beats and four
attempts; `MaxMissed` is where counting stops, above what the TTL forgives. In
`cached_responses` the requests differ in each part of a key (API, spelling, seed,
limit, tags, and the TTL in the limit's place) and agree in the others, for each
of the three classes. The rate limiter sees
the end of at least one window and the whole of the next, which is where its
bounds can break, with limits small enough to be reached (`MaxCount`, `MaxTime` and
`MaxUnheard` are bounds of the model). `BurstBound` speaks of all admissions a counter
ever made; the run's `VIEW` tells states apart by those of the last window alone,
which decide it: of two admissions that are a window apart nothing can be violated,
now or later. In the DLQ a time of 7 passes a window of 2
three times; time, windows and `COUNT` are scaled down. A third signal would start
another run of `gracefulShutdown` like the second.

Runs whose property is a statement of the documentation or a test
that the code does not keep (`findings` has the quotations):

| Run | Property | What happens |
|---|---|---|
| `invalid_to_dlq` | `InvalidGoesToDLQ` | the second `dedupCheck` finds the marker of the first |
| `foreign_job_id` | `ResponseNamesItsJob` | a cache hit carries the jobId of the request that filled it |
| `dlq_not_drained` | `Drained` | the drain reads another stream, with arguments Redis refuses |

A deadlock check would report the end of each run (messages settled, time up),
so the configurations switch it off; liveness runs rule out an early stop.
`timed_lock`, where time never stops, keeps it on.

### Other disagreements met while modelling

The models contain these behaviours too, and no property denies them.

Locks and deduplication:

* `processRequest` never extends its key. Its API call ends in time
  (`KeptThroughFetch`), because axios-retry makes all attempts share one timeout;
  where Redis is slow or a body takes long, the key expires under it and a second
  call fetches the same query. The comment at `danbooru/danbooru.service.ts:110`
  says "removed manual heartbeat (performance neutral, LockUtil handles TTL)", yet
  `acquireLock` extends nothing and `withLock`, which does, has no caller. Lines 359
  and 371 say that the TTL is 5 minutes; it is 30 s.
* Two calls for one query search the DLQ before either adds its entry, so that
  both add one, also with `FieldsAsPairs`. `danbooru.service.ts:376` says
  "ensuring failed requests don't spam the DLQ with identical queries".
* The jobId is drawn per delivery: a message that BullMQ redelivers while its
  first call is at work (`RenewalMayFail`) is served by both.
  `redis-stream.consumer.ts:257` calls the claim "Job-level deduplication as final
  safeguard".
* EXISTS and SETEX of `dedupCheck` are two commands: of two retriers of one entry
  both may request it; `OneRetrierKeepsApart` assumes one.

Dead-letter queue:

* With `EntryFields <- WrittenFields`, a drain that could read would delete every
  entry as invalid: it looks for a field `query` that `addToDLQ` does not write.
  What it would move carries the hash in the place of the query
  (`dlq.consumer.ts:86`).
* `COUNT` keeps the oldest entries of the window: behind `RangeCount` older
  failures a recent one is not seen; `UndisturbedRetryWaits` assumes that COUNT
  covers the stream. `dlq.util.ts:27` says the limit "covers exact time window".

Rate limiter:

* The window type is not part of the manager's key. With windows of two
  lengths a counter created by an hourly check outlasts the `retryAfter` of a
  per-minute refusal.
* A composite check reads a command of its pipeline that failed as a refusal
  (`rate-limiter.service.ts:133`) and logs it as a limit exceeded, although the
  window is not used up. `RefusedForCause` names this as the one refusal without a
  used-up window.
* `resetRateLimit` deletes the counter the service names, not the one the manager
  checks (`ManagerKey`, `ServiceKey`). `getRateLimitStats` reads that counter and its
  TTL in two commands.

Cache and API client:

* `CacheModule` binds `CACHE_BACKEND` to a class instead of an instance
  (`cache.module.ts:22`): as shipped every operation of the cache throws
  (`Backend = {"class"}`; in the pipeline `CacheMayFail`).
* The manager's generic methods and `cacheResponse` pass their TTL as the limit
  (`cache-manager.service.ts:73`, `base-api.service.ts:161`): with a TTL the entry is
  stored under a key their own look-up never asks for.
* The backends parse an entry before `CacheService` does, so that the code at
  `cache.service.ts:48` ("Clean invalid cache") is never reached: a garbled entry
  makes every call throw until it expires.
* `DanbooruApiService` gives `BaseApiService` no `CacheService` (`danbooru-api.service.ts:17`),
  so that its `invalidateCache`, documented to return the "Number of invalidated cache
  entries" (`base-api.service.ts:178`), always warns, returns 0 and deletes nothing.
  `PurgedIsGone` names this case, and memcached, and excludes both.
* `cacheResponse` with a Redis client alone stores under a key outside `cache:`
  (`base-api.service.ts:163`), which nothing reads and no invalidation deletes.
* `BaseApiService.invalidateCache` for a query uses patterns that match no key with
  `random` given, and no key without a limit, seed or tags; what does the work is
  that it then empties the whole API.
* `CacheManagerService.invalidateCache` reports deletions that failed as 0
  deleted; `RedisBackendService.invalidate()` without a pattern lists `*`, that is
  every lock, marker and counter too (it has no caller).
* A call in flight during an invalidation fills the cache again with what it had
  fetched before: `PurgedIsGone` is about the responses that were there.
* `DanbooruApiService` builds its client before `login` and `apiKey` are assigned,
  with `baseUrl` where axios reads `baseURL`, and the response is read as
  `data.data` (`base-api.service.ts:88`).

Process:

* `README.md:280` promises "graceful shutdown", and `main.ts:89` sets up its signal handlers
  "after full initialization", which `DlqConsumer.onModuleInit` never lets happen.
* A second signal's run exits while the first still waits for jobs at work.
* The `redisClient` that `main.ts` quits is one of its own; the clients that hold
  locks are closed by nobody.

## Fairness

`RequestPipeline.Fairness` is weak fairness of each call's next step, of BullMQ's
delivery, of settling, and of the recovery of a dead worker's message. No key has
to expire: a call that finds one in its way gives up after its tries. A step always comes because ioredis answers, resends or
rejects every command, axios has a timeout and a bounded number of retries, and
sleeps end; BullMQ's share is what it promises. No crash, lost
client or stall of a live call is required either.

`DeadLetterQueue.FairSpec` is weak fairness of the drain loop, which polls for ever;
its faults are bounded, so a command fails only finitely often. An encryption
key must be set: without one the copy of the first entry fails at every
poll, and nothing behind it is reached.

`QueryLock.FairSpec` is weak fairness of `Tick`, since time passes, and of each
caller's `Prompt` steps, which are those with a deadline: commands, timers, the API
behind axios' timeout. Nothing makes an operation under `withLock` end, and none
need end for `KeyComesFree`.

`Lifecycle.FairSpec` is weak fairness of `Tick`, of the end of each job (the
pipeline's `CallsReturn`), and of the steps of closing, which Nest, BullMQ and the
timer take. Redis need not answer `quit()`, and a close need not fail.

## What is proved

| Theorem | Statement | Inductive invariant |
|---|---|---|
| `TypeCorrect` | `Spec => []TypeOK` | `TypeOK` and what a call at each `pc` has: a message, a post, a try left (`TypeInv`) |
| `HeldKeysAreOwned` | `Spec => []HeldUnlessLapsed` | `TypeInv` and `lapsed` only of held keys (`GrantsInv`) |
| `QueriesExclude` | `Spec => []QueryExclusion` | further that a call behind a lock holds its key (`KeysHeld`): two calls hold one key, it stores one value, so the other's has lapsed |
| `VerdictIsOne`, `ReportsOnce`, `RejectionsHaveCause`, `RecordsAreReported` | `OneVerdict`, `ReportedOnce`, `RejectsForCause`, `RecordedIsReported` | `ReportInv`: at each `pc`, what a call has answered and recorded so far (`StageInv`), how often and of what kind (`CountInv`), and why it throws (`CauseInv`) |
| `CompletedWereAnswered` | `CompletedIsAnswered` | further that the call that owns an active message is a call for it (`SettledInv`) |
| `NothingIsLeftLocked` | `NoLockLeftBehind` | `LeaveInv`: a call holds its two keys up to their `finally` blocks and no other, and where nothing was resent no key stores a call that does not hold it, while its worker's client is the one it began with |
| `TurnsAwayForCause` | `TurnedAwayForCause` | `LeaveInv`: a stored key is one its holder is at work under, or its client ended or resent |
| `PostsFit` | `ServedPostFits` | `FitInv`: the post a call carries, a cache entry and an answer all come from a call with the same cache key |
| `LeaseExcludes` | `LeaseSpec => []LeaseExclusive` | in `LeaseProofs` |
| `LocksImplementLeases` | `Spec => LocksAreLeases` | `TypeInv` and `LockInv`; each action maps to a step of the lease of every key or leaves it alone |
| `CallsOnlyAdvance` | `Spec => CallsAdvance` | `TypeInv`: tries are counted up to `LockAttempts` |
| `PromisesAreKept` | `Spec => KeepsPromises` | `TypeInv`, `ReportInv` and `SettledInv`; an await only adds answers and entries (`Grows`), so that a verdict once given is the verdict ever after |
| `LockTypes` | `TypeOK` of `QueryLock` | a step has no more time left than it may take (`TimedInv`) |
| `FetchKeepsKey` | `KeptThroughFetch` | a call up to its fetch owns the key, whose TTL covers what it may still take: timer, budget, body (`KeptInv`) |
| `HeartbeatKeepsKey` | `HeldWhileBeating` | the TTL left covers the beats missed and the next one (`HeldInv`) |
| `KeyImplementsLease` | `Spec => ImplementsLease` | `TimedInv` |
| `ResponsesFit`, `FoundPostsReturn`, `CacheTypes` | `ServedFits`, `FoundIsReturned`, `TypeOK` of the cache | an entry was stored under its maker's `StoreKey`, and is served under an equal `LookupKey` (`CallInv`) |
| `PurgesPurge` | `PurgedIsGone` | for an invalidation with a `CacheService` whose backend has patterns: what is left of what was due is among the keys listed, or a round is still to come (`PurgeInv`) |
| `LimitHolds`, `RefusalsHaveCause`, `LimiterTypes` | `WindowBound`, `RefusedForCause`, `TypeOK` of the limiter | admitted requests are among those counted, and before the first refusal there are no others than admitted and unheard ones (`Accounted`); a counter that has refused was used up when it first did (`UsedUp`) |
| `BurstsAreBounded` | `BurstBound` | read backwards, an admission from an earlier life of the counter is a window old when the present life ends, and one with a whole limit of such admissions behind it is a window old already (`HistoryInv`) |
| `RetryAfterIsEnough` | `RetryAfterSuffices` | a counter that refused expires no later than its refusal says (`RetryInv`) |
| `NothingIsLost`, `DLQTypes` | `NothingLost`, `TypeOK` | who stands before an XDEL has a copy behind it (`CopiedFirst`) |
| `OneRetrierKeepsApart` | `RequestsApart` | a call past EXISTS has a window behind the earlier requests of its entry, and its marker is as young as the call (`ApartInv`) |
| `UndisturbedRetryWaits` | `RetryWaitsForWindow` | a call past XRANGE began a window after its entry was written (`WaitInv`) |
| `JobsAreCutForCause`, `LifecycleTypes` | `CutForCause`, `TypeOK` of `Lifecycle` | the run of the only signal has told the workers to close and waited for every job before it quits (`CutInv`) |

They hold for any number of calls, workers, messages, clients, entries, jobs and
signals and any values of the bounds, from the named assumptions on the constants
(`PipelineAssumption`, `QueueAssumption`, `LockAssumption`, `CacheAssumption`,
`LimiterAssumption`, `DLQAssumption`, `LifecycleAssumption`), which TLC evaluates
in every run of their modules. Some theorems assume more, and are false without it, as the list of
disagreements says:

* `RetryAfterIsEnough`: windows of one length;
* `NothingIsLost`, `DLQTypes`: a drain that reads anything finds the fields it looks for
  (`ReadsComplete`), which is so of the shipped one, since it reads nothing, and of the
  one its tests drive;
* `OneRetrierKeepsApart`: one caller of `retryFromDLQ` (`Alone`);
* `UndisturbedRetryWaits`: one caller, no drain that reads, a COUNT that covers the stream (`Undisturbed`);
* `HeartbeatKeepsKey`: a command takes less than the TTL, and `MaxMissed`, a bound of
  the model, counts as far as the TTL forgives (`Counted`);
* `KeptThroughFetch` itself says `InTime`: Redis and the body of an answer are
  quick enough for the TTL.

Left to TLC: everything under fairness (`CallsReturn`, `MessagesSettle`,
`KeyComesFree`, `Drained`, `StopsWhenTold`), which the prover does not
reach. `CallsOnlyAdvance` is the part of `CallsReturn` that needs no fairness: a call
that takes its steps comes to its end after at most `18 + LockAttempts` of them.
`CallsReturn` is written `[]<>~P`, which says the same as `P ~> ~P` and spares TLC much of its graph. Every safety property that a passing run checks, the
refinements and the action properties included, is a theorem. With
`LeaseExcludes`, `LocksImplementLeases` and `KeyImplementsLease` make the locks of
the pipeline and of `QueryLock` exclude. No module uses a RECURSIVE operator.

## What is not modelled

* What the API client sends and how it reads an answer: pure functions. As
  shipped every request ends in null; the models let it succeed.
* `RedisLink`: `reconnectOnError` returns 2 for every error reply, so that a
  command that Redis refuses each time (the XREAD of the drain) is resent over ever new
  connections, and the in-flight commands of other calls with it. The pipeline has
  those resends (`resent`); the endless loop of the refused command is not a
  state of any module.
* `invalidate()` without a pattern, `flush`, the statistics of cache and limiter,
  the generic validation service, `registerApiQueues`: nothing calls them. The
  last would give messages three attempts; `Attempts` is a parameter.
* `retryCount` of DLQ entries, which no caller of `addToDLQ` sets.
* Cache keys as strings, encryption, sanitising, DTO validation, TLS: pure
  functions, whose outcome is a parameter or a choice. That the encryption key
  may be missing is `EncryptionKey`; the runs have one, the theorems hold without.
* The throttler guard: the application opens no HTTP port.

## Plan

Built, in this order: the pipeline with its locks and the lease, the rate limiter,
the dead-letter queue, the response cache, the lock in time, the process; then the
proofs of every safety property that the passing runs check; last the abstract
service and the proof that the pipeline implements it.

What is left: `RedisLink`, reconnects with the commands of several calls in
flight, which would turn `MaxResends` from a bound into a consequence; and the
pipeline with `QueryLock`'s clock in the place of keys that expire at any time,
which is beyond what TLC can enumerate with two calls.

## Running

    tlc -config two_calls.cfg MCRequestPipeline.tla
    tlapm RequestPipelineProofs.tla

| Runs | Module |
|---|---|
| `two_calls`, `faults`, `recovery`, `invalid_to_dlq`, `foreign_job_id` | `MCRequestPipeline` |
| `cached_responses` | `MCResponseCache` |
| `timed_lock` | `QueryLock` |
| `shutdown` | `Lifecycle` |
| `rate_limit` | `MCRateLimiter` |
| `dlq_retry`, `dlq_drain`, `dlq_not_drained` | `MCDeadLetterQueue` |
