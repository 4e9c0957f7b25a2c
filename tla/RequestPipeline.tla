-------------------------- MODULE RequestPipeline --------------------------
(***************************************************************************)
(* The request pipeline as a whole: BullMQ hands messages to calls of      *)
(* RedisStreamConsumer.process, the calls go through DanbooruService, lock *)
(* keys and cached responses expire, worker processes crash and restart,   *)
(* Redis clients end.                                                      *)
(***************************************************************************)
EXTENDS RedisStreamConsumer

CONSTANTS
  Attempts,        \* BullMQ's attempts of a job: 1 unless the producer asks for more
  MaxStalled,      \* BullMQ's maxStalledCount: 1
  RenewalMayFail   \* may BullMQ take a running job for stalled?

ASSUME QueueAssumption ==
  /\ Attempts \in Nat \ {0}
  /\ MaxStalled \in Nat
  /\ RenewalMayFail \in BOOLEAN

VARIABLES
  status,    \* of each message in BullMQ
  owner,     \* the call that holds BullMQ's lock on the message
  failures,  \* failed attempts
  stalls,    \* times the message was found stalled
  crashes    \* worker crashes so far

queueVars == <<status, owner, failures, stalls>>
vars == <<pipelineVars, queueVars, crashes>>

Status == {"waiting", "active", "completed", "failed"}

TypeOK ==
  /\ PipelineTypeOK
  /\ status \in [Message -> Status]
  /\ owner \in [Message -> Job \union {None}]
  /\ failures \in [Message -> 0..Attempts]
  /\ stalls \in [Message -> 0..MaxStalled]
  /\ crashes \in 0..MaxCrashes

Init ==
  /\ PipelineInit
  /\ status = [m \in Message |-> "waiting"]
  /\ owner = [m \in Message |-> None]
  /\ failures = [m \in Message |-> 0]
  /\ stalls = [m \in Message |-> 0]
  /\ crashes = 0

----------------------------------------------------------------------------
(* BullMQ, as the processor sees it.                                       *)

Deliver(m, j) ==
  /\ status[m] = "waiting"
  /\ Start(j, m)
  /\ status' = [status EXCEPT ![m] = "active"]
  /\ owner' = [owner EXCEPT ![m] = j]
  /\ UNCHANGED <<failures, stalls, crashes>>

(* The worker reports the result of a call that still owns its message.    *)
(* Only a rejection counts as a failed attempt.                            *)
Settle(m) ==
  /\ status[m] = "active"
  /\ pc[owner[m]] = "done"
  /\ IF outcome[owner[m]] = "thrown"
     THEN /\ failures' = [failures EXCEPT ![m] = @ + 1]
          /\ status' = [status EXCEPT ![m] =
                          IF failures[m] + 1 < Attempts THEN "waiting" ELSE "failed"]
     ELSE /\ status' = [status EXCEPT ![m] = "completed"]
          /\ UNCHANGED failures
  /\ owner' = [owner EXCEPT ![m] = None]
  /\ UNCHANGED <<pipelineVars, stalls, crashes>>

(* Nobody renews the lock on the message: its worker died, or lost touch   *)
(* with BullMQ while the call goes on.                                     *)
Stall(m) ==
  /\ status[m] = "active"
  /\ pc[owner[m]] = "crashed" \/ RenewalMayFail
  /\ IF stalls[m] < MaxStalled
     THEN /\ status' = [status EXCEPT ![m] = "waiting"]
          /\ stalls' = [stalls EXCEPT ![m] = @ + 1]
     ELSE /\ status' = [status EXCEPT ![m] = "failed"]
          /\ UNCHANGED stalls
  /\ owner' = [owner EXCEPT ![m] = None]
  /\ UNCHANGED <<pipelineVars, failures, crashes>>

----------------------------------------------------------------------------
(* Time, crashes and the network.                                          *)

(* The TTL of a lock key runs out, whatever its holder is doing: there is  *)
(* no key without one, acquireLock sets each with EX.                      *)
ExpireLock(k) ==
  /\ locks[k] # None
  /\ locks' = [locks EXCEPT ![k] = None]
  /\ lapsed' = [lapsed EXCEPT ![locks[k]] = @ \union ({k} \intersect held[locks[k]])]
  /\ UNCHANGED <<pc, message, tries, post, outcome, held, streamVars, keyVars,
                 linkVars, cache, queueVars, crashes>>

ExpireCache(k) ==
  /\ cache[k] # None
  /\ cache' = [cache EXCEPT ![k] = None]
  /\ UNCHANGED <<localVars, streamVars, keyVars, linkVars, locks, queueVars, crashes>>

(* A worker process dies with all its calls and is restarted with a new    *)
(* Redis client.  What it had in Redis stays there.                        *)
Crash(w) ==
  /\ crashes < MaxCrashes
  /\ \E j \in Job : WorkerOf[j] = w /\ Running(j)
  /\ LET dies(j) == WorkerOf[j] = w /\ Running(j)
     IN  /\ pc' = [j \in Job |-> IF dies(j) THEN "crashed" ELSE pc[j]]
         /\ held' = [j \in Job |-> IF dies(j) THEN {} ELSE held[j]]
         /\ lapsed' = [j \in Job |-> IF dies(j) THEN {} ELSE lapsed[j]]
  /\ link' = [link EXCEPT ![w] = TRUE]
  /\ crashes' = crashes + 1
  /\ UNCHANGED <<message, tries, post, outcome, streamVars, keyVars, resends,
                 locks, cache, queueVars>>

(* The client gives up reconnecting while none of its commands is in Redis. *)
LinkEnds(w) ==
  /\ LinkMayEnd
  /\ link[w]
  /\ link' = [link EXCEPT ![w] = FALSE]
  /\ UNCHANGED <<localVars, streamVars, keyVars, resends, locks, cache,
                 queueVars, crashes>>

----------------------------------------------------------------------------
JobStep(j) ==
  /\ ConsumerStep(j) \/ ServiceStep(j)
  /\ UNCHANGED <<queueVars, crashes>>

QueueStep ==
  \E m \in Message : Settle(m) \/ Stall(m) \/ \E j \in Job : Deliver(m, j)

Environment ==
  \/ \E k \in LockKey : ExpireLock(k)
  \/ \E k \in CacheKey : ExpireCache(k)
  \/ \E w \in Worker : Crash(w) \/ LinkEnds(w)

Next ==
  \/ \E j \in Job : JobStep(j)
  \/ QueueStep
  \/ Environment

Spec == Init /\ [][Next]_vars

(* Every await of a live call ends: ioredis answers, resends or rejects,   *)
(* axios has a timeout and a bounded number of retries, sleeps end.  BullMQ *)
(* delivers, settles and recovers dead workers' jobs.  No crash, no lost   *)
(* client, no stall of a live call is ever required, and no key has to     *)
(* expire: a call that finds its lock taken gives up and returns.          *)
Fairness ==
  /\ \A j \in Job : WF_vars(JobStep(j))
  /\ \A m \in Message :
       /\ WF_vars(\E j \in Job : Deliver(m, j))
       /\ WF_vars(Settle(m))
       /\ WF_vars(Stall(m) /\ pc[owner[m]] = "crashed")

FairSpec == Spec /\ Fairness

----------------------------------------------------------------------------
(* Safety.                                                                 *)

(* The calls that run behind the consumer's lock, and behind the service's. *)
ConsumerLockPc ==
  {"validate", "invalidAnswer", "recheck", "invalidDlq", "release"}
    \union ServicePc
ServiceLockPc == ServicePc \ {"svcLock", "svcBusyAnswer", "svcErrorDlq"}
BehindConsumerLock(j) == pc[j] \in ConsumerLockPc
BehindServiceLock(j) == pc[j] \in ServiceLockPc

(* No two calls work on one query behind the same lock, unless one of them *)
(* outlived the 30 seconds of its key: what the two levels of locking are  *)
(* for (redis-stream.consumer.ts acquireLock, danbooru.service.ts          *)
(* acquireQueryLock), whatever is resent, lost or expires meanwhile.       *)
Apart(j, other, k) == k \in lapsed[j] \union lapsed[other]
QueryExclusion ==
  \A j, other \in Job : j # other =>
    /\ BehindConsumerLock(j) /\ BehindConsumerLock(other)
         /\ ConsumerKey(j) = ConsumerKey(other)
       => Apart(j, other, ConsumerKey(j))
    /\ BehindServiceLock(j) /\ BehindServiceLock(other)
         /\ query(j) = query(other)
       => Apart(j, other, ServiceKey(j))

(* A key a call still believes it holds stores that call's value, or has   *)
(* expired: no release, retry or resend of another call takes it away      *)
(* (lock.util.ts releaseLock).                                             *)
HeldUnlessLapsed ==
  \A j \in Job : \A k \in held[j] : k \in lapsed[j] \/ locks[k] = j

(* The client of the call's worker has ended, or may have before a crash   *)
(* gave the worker another one.                                            *)
ClientEnded(j) ==
  ~Up(j) \/ \E other \in Job :
              WorkerOf[other] = WorkerOf[j] /\ pc[other] = "crashed"

(* A call that returns leaves no lock behind, on any of its paths, unless  *)
(* its client ended or a command was resent (the two finally blocks).      *)
NoLockLeftBehind ==
  resends = 0 =>
    \A j \in Job : pc[j] = "done" /\ ~ClientEnded(j) =>
      \A k \in LockKey : locks[k] # j

(* The key stores another call that is at work on the query and holds it.  *)
AtWorkOn(other, k) == locks[k] = other /\ k \in held[other] /\ Running(other)

(* The key stores a call that does not know it, or could not release it:   *)
(* the grant came with a resent command, or the call's client has ended.   *)
LeftBehind(k) ==
  \E call \in Job :
    locks[k] = call /\ k \notin held[call] /\ (ClientEnded(call) \/ resends > 0)

(* What a call may be told that somebody else has the key for.             *)
Taken(j, k) ==
  \/ \E other \in Job \ {j} : AtWorkOn(other, k)
  \/ LeftBehind(k)
  \/ resends' > resends

(* A call is turned away from a query for a cause only: another call works *)
(* on it at this moment, or a client that ended or resent a command left   *)
(* the key behind.  No call is turned away by itself, by the other one of  *)
(* its two locks, or by one that returned (acquireLock and                 *)
(* acquireQueryLock, whose finally blocks are in two classes).             *)
TurnedAwayForCause ==
  [][\A j \in Job :
       /\ pc[j] = "lock" /\ tries'[j] > tries[j] => Taken(j, ConsumerKey(j))
       /\ pc[j] = "svcLock" /\ pc'[j] = "svcBusyAnswer" => Taken(j, ServiceKey(j))
    ]_vars

(* A job has one verdict: once its post is published it is never also      *)
(* reported as failed, neither to the client nor in the DLQ, although the  *)
(* releases and the purge around the publication can fail.                 *)
Has(j, kind) == \E i \in DOMAIN responses[j] : responses[j][i].kind = kind
OneVerdict ==
  \A j \in Job : Has(j, "success") => ~Has(j, "error") /\ dlq[j] = <<>>

(* Three catch levels may answer and two may write to the DLQ, yet a job   *)
(* is answered once and recorded once, but for commands Redis ran twice.   *)
ReportedOnce ==
  \A j \in Job : Len(responses[j]) + Len(dlq[j]) <= 2 + resends
                 /\ Len(responses[j]) <= 1 + resends
                 /\ Len(dlq[j]) <= 1 + resends

(* What BullMQ counts as completed was answered by some call, except for   *)
(* a request the rate limiter refused and a claim whose SET was resent.    *)
CompletedIsAnswered ==
  \A m \in Message : status[m] = "completed" =>
    \E j \in Job :
      /\ message[j] = m
      /\ pc[j] = "done"
      /\ \/ responses[j] # <<>>
         \/ outcome[j] = "refused"
         \/ outcome[j] = "duplicateJob" /\ resends > 0

(* process() rejects, leaving the client without an answer, only if the    *)
(* data was malformed, there is no encryption key, or the client ended.    *)
RejectsForCause ==
  \A j \in Job : pc[j] = "done" /\ outcome[j] = "thrown" =>
    message[j] \in Malformed \/ ~EncryptionKey \/ ClientEnded(j)

(* A DLQ entry comes with an error answer, or with a rejection BullMQ sees: *)
(* no failure is only recorded.                                            *)
RecordedIsReported ==
  \A j \in Job : pc[j] = "done" /\ dlq[j] # <<>> =>
    Has(j, "error") \/ outcome[j] = "thrown"

(* A post found in the cache was fetched for a query with the same key,    *)
(* and so was every post that is published.                                *)
ServedPostFits ==
  /\ \A k \in CacheKey : cache[k] # None => CacheKeyOf[query(cache[k])] = k
  /\ \A j \in Job : \A i \in DOMAIN responses[j] :
       responses[j][i].kind = "success" =>
         CacheKeyOf[query(responses[j][i].jobId)] = CacheKeyOf[query(j)]

(* Each lock key is a lease of module Lease, whose clients are the calls:  *)
(* the detailed system implements the abstract lock on every key.          *)
LeaseOf(k) ==
  INSTANCE Lease WITH Client <- Job,
                      holder <- locks[k],
                      inside <- {j \in Job : k \in held[j]},
                      lapsed <- {j \in Job : k \in lapsed[j]}
LeaseStep(k) == [LeaseOf(k)!LeaseNext]_(LeaseOf(k)!leaseVars)
LocksAreLeases ==
  /\ \A k \in LockKey : LeaseOf(k)!LeaseInit
  /\ [][\A k \in LockKey : LeaseStep(k)]_<<locks, held, lapsed>>

(* The pipeline as its clients and BullMQ see it is module RequestService: *)
(* what a call has told, how it ended, and what excuses it.                *)
StageOf(j) ==
  CASE pc[j] = "idle" -> "none"
    [] Running(j) -> "working"
    [] pc[j] = "crashed" -> "dead"
    [] OTHER -> IF outcome[j] = "thrown" THEN "rejected" ELSE "returned"
Told(j, v) ==
  \/ v = "posted" /\ Has(j, "success")
  \/ v = "failed" /\ (Has(j, "error") \/ dlq[j] # <<>>)
VerdictOn(j) == {v \in {"posted", "failed"} : Told(j, v)}
Excuse(j, e) ==
  \/ e = "noKey" /\ ~EncryptionKey
  \/ e = "clientEnded" /\ ClientEnded(j)
  \/ /\ pc[j] = "done"
     /\ \/ e = "malformed" /\ message[j] \in Malformed
        \/ e = "refused" /\ outcome[j] = "refused"
        \/ e = "resentClaim" /\ outcome[j] = "duplicateJob" /\ resends > 0
ExcusesOf(j) ==
  {e \in {"malformed", "noKey", "clientEnded", "refused", "resentClaim"} :
     Excuse(j, e)}
Service == INSTANCE RequestService WITH
  Call <- Job, of <- message,
  stage <- [j \in Job |-> StageOf(j)],
  verdict <- [j \in Job |-> VerdictOn(j)],
  excuses <- [j \in Job |-> ExcusesOf(j)]
KeepsPromises == Service!ServiceSpec

(* The awaits a call still has before it at most, tries for the lock and a  *)
(* branch that answers, records and releases included.                     *)
AwaitsAfter ==
  [idle |-> 18, claim |-> 17, dedup |-> 16, lock |-> 15, validate |-> 14,
   svcLock |-> 13, rate |-> 12, cacheGet |-> 11, fetch |-> 10,
   cacheSet |-> 9, purge |-> 8, publish |-> 7, svcErrorAnswer |-> 6,
   invalidAnswer |-> 6, svcErrorRelease |-> 5, recheck |-> 5,
   svcErrorDlq |-> 4, invalidDlq |-> 4, svcBusyAnswer |-> 4,
   busyAnswer |-> 4, dupAnswer |-> 4, catchDlq |-> 3, catchAnswer |-> 2,
   svcRelease |-> 2, release |-> 1, done |-> 0, crashed |-> 0]
AwaitsLeft(j) == AwaitsAfter[pc[j]] + (LockAttempts - tries[j])

(* Whatever fails, no path of a call comes back to an await it has passed, *)
(* but for the counted tries for the lock: every catch and finally leads   *)
(* nearer to the end.                                                      *)
CallsAdvance ==
  [][\A j \in Job : JobStep(j) => AwaitsLeft(j)' < AwaitsLeft(j)]_vars

----------------------------------------------------------------------------
(* Liveness, under FairSpec.  That P always ends is written []<>~P, which  *)
(* says the same as P ~> ~P.                                               *)

(* Every call of process() returns or dies with its process: no path of    *)
(* the code waits for another call.                                        *)
CallsReturn == \A j \in Job : []<>~Running(j)

(* Every message is completed or failed for good.                          *)
MessagesSettle ==
  \A m \in Message : <>[](status[m] \in {"completed", "failed"})

----------------------------------------------------------------------------
(* What the documents and tests say, and the code does not do.             *)

(* redis-stream.consumer.spec.ts: a validation failure goes to the DLQ.    *)
InvalidGoesToDLQ ==
  \A j \in Job : pc[j] = "done" /\ outcome[j] = "invalid" => dlq[j] # <<>>

(* README: a client takes the answer whose data has its jobId for its own, *)
(* so no answer may name another job.                                      *)
ResponseNamesItsJob ==
  \A j \in Job : \A i \in DOMAIN responses[j] :
    responses[j][i].jobId \in {j, None}
============================================================================
