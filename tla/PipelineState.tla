--------------------------- MODULE PipelineState ---------------------------
(***************************************************************************)
(* State shared by the request pipeline, and the Redis commands its code   *)
(* issues.                                                                 *)
(*                                                                         *)
(* Two components run in one asynchronous call chain and meet in the same  *)
(* Redis: RedisStreamConsumer.process() (module RedisStreamConsumer) and   *)
(* DanbooruService.processRequest() (module DanbooruService).  A Job is    *)
(* one call of process(): the code draws a fresh UUID for every call and   *)
(* uses it as the jobId from then on, so the jobId names the call.  A      *)
(* Message is a BullMQ job, which BullMQ may hand to process() more than   *)
(* once.  Between two awaits a call runs alone, so one action is one       *)
(* awaited command and the code up to the next await.                      *)
(***************************************************************************)
EXTENDS Integers, Sequences, FiniteSets

CONSTANTS
  Job,            \* calls of process(), named by the jobId each one draws
  Worker,         \* Node processes
  WorkerOf,       \* [Job -> Worker]: the process a call runs in
  Message,        \* BullMQ jobs of the queue 'danbooru-requests'
  QueryOf,        \* [Message -> Query]: job.data.query
  PrefixOf,       \* [Message -> Prefix]: job.data.apiPrefix, 'danbooru' by default
  Malformed,      \* the messages whose data has no query string
  Query,
  Prefix,
  Danbooru,       \* the prefix 'danbooru' itself, the name of the service's streams
  Supported,      \* the prefixes that are 'danbooru' once in lower case
  CacheKey,
  CacheKeyOf,     \* [Query -> CacheKey]: CacheService.getCacheKey
  Purge,          \* [Query -> SUBSET CacheKey]: keys its invalidation patterns match
  None            \* no job, no message, no lock scope

CONSTANTS
  LockAttempts,   \* maxRetries of RedisStreamConsumer.acquireLock: 3
  FieldsAsPairs,  \* does XRANGE give an entry's fields as [name, value] pairs?
  EncryptionKey,  \* is ENCRYPTION_KEY set?
  CacheMayFail,   \* may the cache backend fail while Redis answers?
  LinkMayEnd,     \* may a worker's Redis client give up reconnecting?
  MaxResends,     \* bound: commands a client executes twice after a reconnect
  MaxCrashes      \* bound: crashes of a worker process

ASSUME PipelineAssumption ==
  /\ WorkerOf \in [Job -> Worker]
  /\ QueryOf \in [Message -> Query]
  /\ PrefixOf \in [Message -> Prefix]
  /\ Malformed \subseteq Message
  /\ Danbooru \in Supported
  /\ Supported \subseteq Prefix
  /\ CacheKeyOf \in [Query -> CacheKey]
  /\ Purge \in [Query -> SUBSET CacheKey]
  /\ None \notin Job \union Message \union Prefix
  /\ LockAttempts \in Nat \ {0}
  /\ {FieldsAsPairs, EncryptionKey, CacheMayFail, LinkMayEnd} \subseteq BOOLEAN
  /\ MaxResends \in Nat
  /\ MaxCrashes \in Nat

VARIABLES
  \* Local to one call of process()
  pc,          \* the await the call stands at
  message,     \* the BullMQ job it was called with
  tries,       \* retryCount of acquireLock
  post,        \* the job named in the success response it holds
  outcome,     \* the branch it returns by
  held,        \* lock keys whose lockValue it keeps
  \* In Redis
  processed,   \* jobs j with a key processed:{j}
  marker,      \* jobs j with a key dedup:job:{j}
  locks,       \* the job whose lock value each lock key stores
  cache,       \* the job whose response each cache key stores
  responses,   \* per job, the entries it added to a responses stream
  dlq,         \* per job, the DLQ streams it added an entry to
  \* The Redis client of each worker
  link,        \* FALSE once the client has ended: it rejects every command
  resends,     \* commands executed twice so far
  \* History
  lapsed       \* the held keys whose Redis key expired under the call

localVars == <<pc, message, tries, post, outcome, held, lapsed>>
streamVars == <<responses, dlq>>
keyVars == <<processed, marker>>
linkVars == <<link, resends>>
pipelineVars ==
  <<localVars, streamVars, keyVars, linkVars, locks, cache>>

----------------------------------------------------------------------------
(* Names of what the code stores.                                          *)

ConsumerPc ==
  {"claim", "dedup", "dupAnswer", "lock", "busyAnswer", "validate",
   "invalidAnswer", "recheck", "invalidDlq", "catchDlq", "catchAnswer",
   "release"}
ServicePc ==
  {"svcLock", "svcBusyAnswer", "rate", "cacheGet", "fetch", "cacheSet",
   "purge", "publish", "svcRelease", "svcErrorAnswer", "svcErrorRelease",
   "svcErrorDlq"}
RunningPc == ConsumerPc \union ServicePc
PC == RunningPc \union {"idle", "done", "crashed"}

(* How a call of process() ends.  The first three return {skipped: true},  *)
(* "busy", "refused", "posted" and "svcFailed" return {success: true},     *)
(* "invalid" and "failed" return {success: false}, "thrown" rejects.       *)
Outcome ==
  {"duplicateJob", "duplicateQuery", "lockFailed", "busy", "refused",
   "posted", "svcFailed", "invalid", "failed", "thrown"}

LockKey == [scope : Prefix \union {None}, query : Query]
(* An entry of a responses stream.  jobId is the one in its data, None     *)
(* where that is not a jobId of ours.                                      *)
ResponseEntry ==
  [stream : Prefix, kind : {"success", "error"}, jobId : Job \union {None}]

query(j) == QueryOf[message[j]]
apiPrefix(j) == PrefixOf[message[j]]
\* `lock:query:${apiPrefix}:${hash}` and `lock:query:${hash}`
ConsumerKey(j) == [scope |-> apiPrefix(j), query |-> query(j)]
ServiceKeyScoped(j) == ConsumerKey(j)    \* mutant: one format for both
ServiceKey(j) == [scope |-> None, query |-> query(j)]

Running(j) == pc[j] \in RunningPc

----------------------------------------------------------------------------
(* A Redis command of job j, and what becomes of it:                       *)
(*   "ok"      executed once, the reply arrives;                           *)
(*   "resent"  executed, the connection drops before the reply, the client *)
(*             reconnects, resends and gets the second execution's reply;  *)
(*   "lost"    executed, and the client gives up reconnecting: the call    *)
(*             throws, as will every later command of that worker;         *)
(*   "refused" the client has ended, the command is rejected unexecuted.   *)

Reply == {"ok", "resent", "lost", "refused"}

Up(j) == link[WorkerOf[j]]

Command(j, r) ==
  /\ r = "refused" <=> ~Up(j)
  /\ r = "resent" => resends < MaxResends
  /\ r = "lost" => LinkMayEnd
  /\ resends' = IF r = "resent" THEN resends + 1 ELSE resends
  /\ link' = [link EXCEPT ![WorkerOf[j]] = r \in {"ok", "resent"}]

Executed(r) == r # "refused"
Threw(r) == r \in {"lost", "refused"}
Executions(r) == CASE r = "refused" -> 0 [] r = "resent" -> 2 [] OTHER -> 1

Goto(j, label) == pc' = [pc EXCEPT ![j] = label]

(* XADD on a responses stream.                                             *)
Respond(j, entry, r) ==
  responses' =
    [responses EXCEPT ![j] = @ \o [i \in 1..Executions(r) |-> entry]]

ErrorEntry(j, stream) == [stream |-> stream, kind |-> "error", jobId |-> j]
SuccessEntry(j) == [stream |-> Danbooru, kind |-> "success", jobId |-> post[j]]

(* addToDLQ: without a key encrypt() is never reached and no command is    *)
(* sent; otherwise one XADD on `${apiName}-dlq`.  failed says it threw.    *)
AddToDLQ(j, stream, failed) ==
  IF EncryptionKey
  THEN \E r \in Reply :
         /\ Command(j, r)
         /\ failed = Threw(r)
         /\ dlq' = [dlq EXCEPT ![j] = @ \o [i \in 1..Executions(r) |-> stream]]
  ELSE /\ failed = TRUE
       /\ UNCHANGED <<dlq, linkVars>>

(* LockUtil.acquireLock: SET key value EX ttl NX.  A resent SET finds the  *)
(* key its own first execution created, and the code reads the null reply  *)
(* as a lock held by somebody else.                                        *)
GrantedUnread(k, r) == ~Threw(r)    \* mutant: the reply is not compared to 'OK'
Granted(k, r) == locks[k] = None /\ r = "ok"

(* Mutant: SET without NX.                                                 *)
AcquireLockOverwriting(j, k, r) ==
  /\ locks' = IF Executed(r) THEN [locks EXCEPT ![k] = j] ELSE locks
  /\ held' = IF ~Threw(r) THEN [held EXCEPT ![j] = @ \union {k}] ELSE held
  /\ UNCHANGED lapsed

AcquireLock(j, k, r) ==
  /\ locks' = IF locks[k] = None /\ Executed(r)
              THEN [locks EXCEPT ![k] = j] ELSE locks
  /\ held' = IF Granted(k, r) THEN [held EXCEPT ![j] = @ \union {k}] ELSE held
  /\ UNCHANGED lapsed

(* Mutant: DEL without the comparison.                                     *)
ReleaseLockUnchecked(j, k, r) ==
  /\ locks' = IF Executed(r) THEN [locks EXCEPT ![k] = None] ELSE locks
  /\ held' = [held EXCEPT ![j] = @ \ {k}]
  /\ lapsed' = [lapsed EXCEPT ![j] = @ \ {k}]

(* LockUtil.releaseLock: compare-and-delete in Lua, errors swallowed.      *)
ReleaseLock(j, k, r) ==
  /\ locks' = IF locks[k] = j /\ Executed(r)
              THEN [locks EXCEPT ![k] = None] ELSE locks
  /\ held' = [held EXCEPT ![j] = @ \ {k}]
  /\ lapsed' = [lapsed EXCEPT ![j] = @ \ {k}]

(* Mutant: no finally.                                                     *)
ReturnAtOnce(j, how) ==
  /\ outcome' = [outcome EXCEPT ![j] = how]
  /\ Goto(j, "done")

(* A call of process() leaves its try block: the finally releases the      *)
(* query lock if there is a lockValue.                                     *)
Return(j, how) ==
  /\ outcome' = [outcome EXCEPT ![j] = how]
  /\ Goto(j, IF ConsumerKey(j) \in held[j] THEN "release" ELSE "done")

PipelineTypeOK ==
  /\ pc \in [Job -> PC]
  /\ message \in [Job -> Message \union {None}]
  /\ tries \in [Job -> 0..LockAttempts]
  /\ post \in [Job -> Job \union {None}]
  /\ outcome \in [Job -> Outcome \union {None}]
  /\ held \in [Job -> SUBSET LockKey]
  /\ lapsed \in [Job -> SUBSET LockKey]
  /\ processed \subseteq Job
  /\ marker \subseteq Job
  /\ locks \in [LockKey -> Job \union {None}]
  /\ cache \in [CacheKey -> Job \union {None}]
  /\ responses \in [Job -> Seq(ResponseEntry)]
  /\ dlq \in [Job -> Seq(Prefix)]
  /\ link \in [Worker -> BOOLEAN]
  /\ resends \in 0..MaxResends

PipelineInit ==
  /\ pc = [j \in Job |-> "idle"]
  /\ message = [j \in Job |-> None]
  /\ tries = [j \in Job |-> 0]
  /\ post = [j \in Job |-> None]
  /\ outcome = [j \in Job |-> None]
  /\ held = [j \in Job |-> {}]
  /\ lapsed = [j \in Job |-> {}]
  /\ processed = {}
  /\ marker = {}
  /\ locks = [k \in LockKey |-> None]
  /\ cache = [k \in CacheKey |-> None]
  /\ responses = [j \in Job |-> <<>>]
  /\ dlq = [j \in Job |-> <<>>]
  /\ link = [w \in Worker |-> TRUE]
  /\ resends = 0
============================================================================
