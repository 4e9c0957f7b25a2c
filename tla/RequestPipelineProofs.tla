----------------------- MODULE RequestPipelineProofs -----------------------
(***************************************************************************)
(* Proofs about RequestPipeline, for any number of calls, workers,         *)
(* messages, queries, crashes and resends.                                 *)
(***************************************************************************)
EXTENDS RequestPipeline, TLAPS

----------------------------------------------------------------------------
(* Type correctness.  The type invariant alone is not inductive: a key or  *)
(* a response entry has its type only because a running call has a         *)
(* message and a call that publishes has a post; the counters stay within  *)
(* their bounds only because a call that tries again has tries left, and a *)
(* message that is not settled has attempts left.                          *)

HasMessage(j) == pc[j] \in RunningPc => message[j] \in Message
HasPost(j) == pc[j] \in {"cacheSet", "purge", "publish"} => post[j] \in Job
HasTries(j) == pc[j] \in {"idle", "claim", "dedup", "lock"} => tries[j] < LockAttempts
HasAttempts(m) == status[m] \in {"waiting", "active"} => failures[m] < Attempts

CallInv == \A j \in Job : HasMessage(j) /\ HasPost(j) /\ HasTries(j)

TypeInv ==
  /\ PipelineTypeOK
  /\ CallInv
  /\ status \in [Message -> Status]
  /\ owner \in [Message -> Job \union {None}]
  /\ failures \in [Message -> 0..Attempts]
  /\ \A m \in Message : HasAttempts(m)
  /\ stalls \in [Message -> 0..MaxStalled]
  /\ crashes \in 0..MaxCrashes

USE PipelineAssumption

(* Appending the entries of one command to a stream keeps it a stream.     *)
LEMMA AppendEntries ==
  ASSUME NEW S, NEW s \in Seq(S), NEW e \in S, NEW r \in Reply
  PROVE  s \o [i \in 1..Executions(r) |-> e] \in Seq(S)
<1>1. Executions(r) \in Nat
  BY DEF Executions
<1>2. [i \in 1..Executions(r) |-> e] \in Seq(S)
  BY <1>1
<1> QED
  BY <1>2

(* A command changes the client in its type only: resends stay bounded.    *)
LEMMA CommandType ==
  ASSUME PipelineTypeOK, NEW j \in Job, NEW r \in Reply, Command(j, r)
  PROVE  /\ link' \in [Worker -> BOOLEAN]
         /\ resends' \in 0..MaxResends
BY DEF PipelineTypeOK, Command

(* A call with a message has a query, a prefix and two lock keys.          *)
LEMMA KeysTyped ==
  ASSUME NEW j \in Job, message[j] \in Message
  PROVE  /\ query(j) \in Query
         /\ apiPrefix(j) \in Prefix
         /\ ConsumerKey(j) \in LockKey
         /\ ServiceKey(j) \in LockKey
BY DEF query, apiPrefix, ConsumerKey, ServiceKey, LockKey

(* XADD on a responses stream keeps the streams typed.                     *)
LEMMA RespondType ==
  ASSUME PipelineTypeOK, NEW j \in Job, NEW r \in Reply,
         NEW e \in ResponseEntry, Respond(j, e, r)
  PROVE  responses' \in [Job -> Seq(ResponseEntry)]
<1>1. responses[j] \o [i \in 1..Executions(r) |-> e] \in Seq(ResponseEntry)
  BY AppendEntries DEF PipelineTypeOK
<1> QED
  BY <1>1 DEF Respond, PipelineTypeOK

(* So does addToDLQ on the DLQ streams, with or without a key.             *)
LEMMA AddToDLQType ==
  ASSUME PipelineTypeOK, NEW j \in Job, NEW stream \in Prefix,
         NEW failed \in BOOLEAN, AddToDLQ(j, stream, failed)
  PROVE  /\ dlq' \in [Job -> Seq(Prefix)]
         /\ link' \in [Worker -> BOOLEAN]
         /\ resends' \in 0..MaxResends
<1>1. CASE EncryptionKey
  <2>1. PICK r \in Reply :
          /\ Command(j, r)
          /\ dlq' = [dlq EXCEPT ![j] = @ \o [i \in 1..Executions(r) |-> stream]]
    BY <1>1 DEF AddToDLQ
  <2>2. dlq[j] \o [i \in 1..Executions(r) |-> stream] \in Seq(Prefix)
    BY AppendEntries DEF PipelineTypeOK
  <2> QED
    BY <2>1, <2>2, CommandType DEF PipelineTypeOK
<1>2. CASE ~EncryptionKey
  BY <1>2 DEF AddToDLQ, PipelineTypeOK, linkVars
<1> QED
  BY <1>1, <1>2

(* Acquiring and releasing keep the lock keys and their holders typed.     *)
LEMMA AcquireLockType ==
  ASSUME PipelineTypeOK, NEW j \in Job, NEW k \in LockKey, NEW r \in Reply,
         AcquireLock(j, k, r)
  PROVE  /\ locks' \in [LockKey -> Job \union {None}]
         /\ held' \in [Job -> SUBSET LockKey]
         /\ lapsed' \in [Job -> SUBSET LockKey]
BY DEF PipelineTypeOK, AcquireLock

(* So does a release.                                                      *)
LEMMA ReleaseLockType ==
  ASSUME PipelineTypeOK, NEW j \in Job, NEW k \in LockKey, NEW r \in Reply,
         ReleaseLock(j, k, r)
  PROVE  /\ locks' \in [LockKey -> Job \union {None}]
         /\ held' \in [Job -> SUBSET LockKey]
         /\ lapsed' \in [Job -> SUBSET LockKey]
BY DEF PipelineTypeOK, ReleaseLock

(* What the calls publish are entries of a responses stream.               *)
LEMMA EntriesTyped ==
  ASSUME NEW j \in Job
  PROVE  /\ Danbooru \in Prefix
         /\ \A stream \in Prefix : ErrorEntry(j, stream) \in ResponseEntry
         /\ \A stream \in Prefix, named \in {j, None} :
              [ErrorEntry(j, stream) EXCEPT !.jobId = named] \in ResponseEntry
         /\ post[j] \in Job => SuccessEntry(j) \in ResponseEntry
BY DEF ErrorEntry, SuccessEntry, ResponseEntry

PipelineInv == PipelineTypeOK /\ CallInv

(* Every action of DanbooruService keeps the types, one step per action.   *)
LEMMA ServiceStepType ==
  ASSUME PipelineInv, NEW j \in Job, ServiceStep(j)
  PROVE  PipelineInv'
<1> USE DEF PipelineInv, PipelineTypeOK, CallInv, HasMessage, HasPost, HasTries,
             Goto, Return, PC, RunningPc, ConsumerPc, ServicePc, Outcome,
             streamVars, keyVars, linkVars
<1>1. ASSUME AcquireQueryLock(j)
      PROVE  PipelineInv'
  <2>1. PipelineTypeOK'
    BY <1>1, CommandType, KeysTyped, AcquireLockType DEF AcquireQueryLock
  <2>2. CallInv'
    BY <1>1 DEF AcquireQueryLock
  <2> QED
    BY <2>1, <2>2
<1>2. ASSUME HandleDuplicateProcessing(j)
      PROVE  PipelineInv'
  <2>1. PipelineTypeOK'
    BY <1>2, CommandType, EntriesTyped, RespondType
       DEF HandleDuplicateProcessing
  <2>2. CallInv'
    BY <1>2 DEF HandleDuplicateProcessing
  <2> QED
    BY <2>1, <2>2
<1>3. ASSUME CheckRateLimit(j)
      PROVE  PipelineInv'
  <2>1. PICK r \in Reply, allowed \in BOOLEAN :
          /\ Command(j, r)
          /\ Goto(j, CASE Threw(r) -> "svcErrorAnswer"
                       [] allowed -> "cacheGet"
                       [] OTHER -> "svcRelease")
          /\ outcome' = IF Threw(r) \/ allowed
                        THEN outcome ELSE [outcome EXCEPT ![j] = "refused"]
    BY <1>3 DEF CheckRateLimit
  <2>2. pc' \in [Job -> PC] /\ outcome' \in [Job -> Outcome \union {None}]
    BY <2>1
  <2>3. PipelineTypeOK'
    BY <1>3, <2>1, <2>2, CommandType DEF CheckRateLimit
  <2>4. CallInv'
    BY <1>3 DEF CheckRateLimit
  <2> QED
    BY <2>3, <2>4
<1>4. ASSUME GetFromCache(j)
      PROVE  PipelineInv'
  <2> DEFINE hit == cache[CacheKeyFor(j)]
  <2>1. hit \in Job \union {None}
    BY <1>4, KeysTyped DEF GetFromCache, CacheKeyFor
  <2>2. PICK throws \in CacheThrows(j) :
          /\ post' = IF throws THEN post ELSE [post EXCEPT ![j] = hit]
          /\ Goto(j, CASE throws -> "svcErrorAnswer"
                       [] ~throws /\ hit = None -> "fetch"
                       [] OTHER -> "purge")
    BY <1>4 DEF GetFromCache
  <2>3. throws \in BOOLEAN
    BY DEF CacheThrows, Up
  <2> HIDE DEF hit
  <2>4. PipelineTypeOK'
    BY <1>4, <2>1, <2>2, <2>3 DEF GetFromCache
  <2>5. CallInv'
    BY <1>4, <2>1, <2>2, <2>3 DEF GetFromCache
  <2> QED
    BY <2>4, <2>5
<1>5. ASSUME FetchPost(j)
      PROVE  PipelineInv'
  <2>1. PipelineTypeOK'
    BY <1>5 DEF FetchPost
  <2>2. CallInv'
    BY <1>5 DEF FetchPost
  <2> QED
    BY <2>1, <2>2
<1>6. ASSUME SetCache(j)
      PROVE  PipelineInv'
  <2>1. PipelineTypeOK'
    BY <1>6, KeysTyped DEF SetCache, CacheKeyFor, CacheThrows, Up
  <2>2. CallInv'
    BY <1>6 DEF SetCache, CacheKeyFor, CacheThrows, Up
  <2> QED
    BY <2>1, <2>2
<1>7. ASSUME InvalidateCache(j)
      PROVE  PipelineInv'
  <2>1. PipelineTypeOK'
    BY <1>7 DEF InvalidateCache
  <2>2. CallInv'
    BY <1>7 DEF InvalidateCache
  <2> QED
    BY <2>1, <2>2
<1>8. ASSUME PublishResponse(j)
      PROVE  PipelineInv'
  <2>1. PipelineTypeOK'
    BY <1>8, CommandType, EntriesTyped, RespondType DEF PublishResponse
  <2>2. CallInv'
    BY <1>8 DEF PublishResponse
  <2> QED
    BY <2>1, <2>2
<1>9. ASSUME ReleaseQueryLock(j)
      PROVE  PipelineInv'
  <2>1. PipelineTypeOK'
    BY <1>9, CommandType, KeysTyped, ReleaseLockType DEF ReleaseQueryLock
  <2>2. CallInv'
    BY <1>9 DEF ReleaseQueryLock
  <2> QED
    BY <2>1, <2>2
<1>10. ASSUME HandleErrorAndPublish(j)
      PROVE  PipelineInv'
  <2>1. PipelineTypeOK'
    BY <1>10, CommandType, EntriesTyped, RespondType DEF HandleErrorAndPublish
  <2>2. CallInv'
    BY <1>10 DEF HandleErrorAndPublish
  <2> QED
    BY <2>1, <2>2
<1>11. ASSUME ReleaseAfterError(j)
      PROVE  PipelineInv'
  <2>1. PipelineTypeOK'
    BY <1>11, CommandType, KeysTyped, ReleaseLockType DEF ReleaseAfterError
  <2>2. CallInv'
    BY <1>11 DEF ReleaseAfterError
  <2> QED
    BY <2>1, <2>2
<1>12. ASSUME ServiceAddToDLQ(j)
      PROVE  PipelineInv'
  <2>1. PICK failed \in BOOLEAN :
          /\ AddToDLQ(j, Danbooru, failed)
          /\ IF failed THEN Goto(j, "catchDlq") /\ UNCHANGED outcome
                       ELSE Return(j, "svcFailed")
    BY <1>12 DEF ServiceAddToDLQ
  <2>2. Danbooru \in Prefix
    BY <1>12, EntriesTyped
  <2>3. /\ dlq' \in [Job -> Seq(Prefix)]
        /\ link' \in [Worker -> BOOLEAN]
        /\ resends' \in 0..MaxResends
    BY <2>1, <2>2, AddToDLQType
  <2>4. PipelineTypeOK'
    BY <1>12, <2>1, <2>3 DEF ServiceAddToDLQ
  <2>5. CallInv'
    BY <1>12, <2>1 DEF ServiceAddToDLQ
  <2> QED
    BY <2>4, <2>5
<1> QED
  BY <1>1, <1>2, <1>3, <1>4, <1>5, <1>6, <1>7, <1>8, <1>9, <1>10, <1>11, <1>12
     DEF ServiceStep

(* Every action of RedisStreamConsumer keeps the types.                    *)
LEMMA ConsumerStepType ==
  ASSUME PipelineInv, NEW j \in Job, ConsumerStep(j)
  PROVE  PipelineInv'
<1> USE DEF PipelineInv, PipelineTypeOK, CallInv, HasMessage, HasPost, HasTries,
             Goto, Return, PC, RunningPc, ConsumerPc, ServicePc, Outcome,
             streamVars, keyVars, linkVars
<1>1. ASSUME ClaimJob(j)
      PROVE  PipelineInv'
  <2>1. PipelineTypeOK'
    BY <1>1, CommandType DEF ClaimJob
  <2>2. CallInv'
    BY <1>1 DEF ClaimJob
  <2> QED
    BY <2>1, <2>2
<1>2. ASSUME CheckDlqDuplicate(j)
      PROVE  PipelineInv'
  <2>1. PipelineTypeOK'
    BY <1>2, CommandType DEF CheckDlqDuplicate, DedupCheck
  <2>2. CallInv'
    BY <1>2 DEF CheckDlqDuplicate, DedupCheck
  <2> QED
    BY <2>1, <2>2
<1>3. ASSUME AnswerDlqDuplicate(j)
      PROVE  PipelineInv'
  <2>1. PipelineTypeOK'
    BY <1>3, CommandType, KeysTyped, EntriesTyped, RespondType
       DEF AnswerDlqDuplicate, AnswerAndReturn
  <2>2. CallInv'
    BY <1>3 DEF AnswerDlqDuplicate, AnswerAndReturn
  <2> QED
    BY <2>1, <2>2
<1>4. ASSUME AnswerLockFailed(j)
      PROVE  PipelineInv'
  <2>1. PipelineTypeOK'
    BY <1>4, CommandType, KeysTyped, EntriesTyped, RespondType
       DEF AnswerLockFailed, AnswerAndReturn
  <2>2. CallInv'
    BY <1>4 DEF AnswerLockFailed, AnswerAndReturn
  <2> QED
    BY <2>1, <2>2
<1>5. ASSUME TryConsumerLock(j)
      PROVE  PipelineInv'
  <2>1. PipelineTypeOK'
    BY <1>5, CommandType, KeysTyped, AcquireLockType
       DEF TryConsumerLock, TriesLeft
  <2>2. CallInv'
    BY <1>5 DEF TryConsumerLock, TriesLeft
  <2> QED
    BY <2>1, <2>2
<1>6. ASSUME Validate(j)
      PROVE  PipelineInv'
  <2>1. PipelineTypeOK'
    BY <1>6 DEF Validate, ProcessJob
  <2>2. CallInv'
    BY <1>6 DEF Validate, ProcessJob
  <2> QED
    BY <2>1, <2>2
<1>7. ASSUME AnswerInvalid(j)
      PROVE  PipelineInv'
  <2>1. PipelineTypeOK'
    BY <1>7, CommandType, KeysTyped, EntriesTyped, RespondType DEF AnswerInvalid
  <2>2. CallInv'
    BY <1>7 DEF AnswerInvalid
  <2> QED
    BY <2>1, <2>2
<1>8. ASSUME RecheckDlqDuplicate(j)
      PROVE  PipelineInv'
  <2>1. PipelineTypeOK'
    BY <1>8, CommandType DEF RecheckDlqDuplicate, DedupCheck
  <2>2. CallInv'
    BY <1>8 DEF RecheckDlqDuplicate, DedupCheck
  <2> QED
    BY <2>1, <2>2
<1>9. ASSUME InvalidToDLQ(j)
      PROVE  PipelineInv'
  <2>1. PICK failed \in BOOLEAN :
          /\ AddToDLQ(j, apiPrefix(j), failed)
          /\ IF failed THEN Goto(j, "catchDlq") /\ UNCHANGED outcome
                       ELSE Return(j, "invalid")
    BY <1>9 DEF InvalidToDLQ
  <2>2. apiPrefix(j) \in Prefix
    BY <1>9, KeysTyped DEF InvalidToDLQ
  <2>3. /\ dlq' \in [Job -> Seq(Prefix)]
        /\ link' \in [Worker -> BOOLEAN]
        /\ resends' \in 0..MaxResends
    BY <2>1, <2>2, AddToDLQType
  <2>4. PipelineTypeOK'
    BY <1>9, <2>1, <2>3 DEF InvalidToDLQ
  <2>5. CallInv'
    BY <1>9, <2>1 DEF InvalidToDLQ
  <2> QED
    BY <2>4, <2>5
<1>10. ASSUME CatchToDLQ(j)
      PROVE  PipelineInv'
  <2>1. PICK failed \in BOOLEAN :
          /\ AddToDLQ(j, apiPrefix(j), failed)
          /\ IF failed THEN Return(j, "thrown")
                       ELSE Goto(j, "catchAnswer") /\ UNCHANGED outcome
    BY <1>10 DEF CatchToDLQ
  <2>2. apiPrefix(j) \in Prefix
    BY <1>10, KeysTyped DEF CatchToDLQ
  <2>3. /\ dlq' \in [Job -> Seq(Prefix)]
        /\ link' \in [Worker -> BOOLEAN]
        /\ resends' \in 0..MaxResends
    BY <2>1, <2>2, AddToDLQType
  <2>4. PipelineTypeOK'
    BY <1>10, <2>1, <2>3 DEF CatchToDLQ
  <2>5. CallInv'
    BY <1>10, <2>1 DEF CatchToDLQ
  <2> QED
    BY <2>4, <2>5
<1>11. ASSUME CatchAnswer(j)
      PROVE  PipelineInv'
  <2>1. PipelineTypeOK'
    BY <1>11, CommandType, KeysTyped, EntriesTyped, RespondType DEF CatchAnswer
  <2>2. CallInv'
    BY <1>11 DEF CatchAnswer
  <2> QED
    BY <2>1, <2>2
<1>12. ASSUME ReleaseConsumerLock(j)
      PROVE  PipelineInv'
  <2>1. PipelineTypeOK'
    BY <1>12, CommandType, KeysTyped, ReleaseLockType DEF ReleaseConsumerLock
  <2>2. CallInv'
    BY <1>12 DEF ReleaseConsumerLock
  <2> QED
    BY <2>1, <2>2
<1> QED
  BY <1>1, <1>2, <1>3, <1>4, <1>5, <1>6, <1>7, <1>8, <1>9, <1>10, <1>11, <1>12
     DEF ConsumerStep

(* Every step keeps the types: BullMQ counts attempts and stalls within    *)
(* their limits, a crash within its bound.                                 *)
LEMMA StepType ==
  ASSUME TypeInv, Next
  PROVE  TypeInv'
<1> USE QueueAssumption
         DEF TypeInv, CallInv, HasMessage, HasPost, HasTries, HasAttempts,
             Status, queueVars
<1>1. ASSUME NEW j \in Job, JobStep(j)
      PROVE  TypeInv'
  <2>1. PipelineInv'
    BY <1>1, ServiceStepType, ConsumerStepType DEF JobStep, PipelineInv
  <2> QED
    BY <1>1, <2>1 DEF JobStep, PipelineInv
<1>2. ASSUME NEW m \in Message, NEW j \in Job, Deliver(m, j)
      PROVE  TypeInv'
  <2>1. PipelineTypeOK'
    BY <1>2 DEF Deliver, Start, Goto, PipelineTypeOK, PC, RunningPc,
                ConsumerPc, Outcome, streamVars, keyVars, linkVars
  <2>2. CallInv'
    BY <1>2 DEF Deliver, Start, Goto, PipelineTypeOK, RunningPc, ConsumerPc,
                ServicePc
  <2>3. /\ status' \in [Message -> Status]
        /\ owner' \in [Message -> Job \union {None}]
        /\ \A n \in Message : HasAttempts(n)'
    BY <1>2 DEF Deliver
  <2> QED
    BY <1>2, <2>1, <2>2, <2>3 DEF Deliver
<1>3. ASSUME NEW m \in Message, Settle(m)
      PROVE  TypeInv'
  <2>1. PipelineTypeOK' /\ CallInv'
    BY <1>3 DEF Settle, PipelineTypeOK, pipelineVars, localVars, streamVars,
                keyVars, linkVars
  <2>2. /\ status' \in [Message -> Status]
        /\ owner' \in [Message -> Job \union {None}]
        /\ failures' \in [Message -> 0..Attempts]
        /\ \A n \in Message : HasAttempts(n)'
    BY <1>3 DEF Settle
  <2> QED
    BY <1>3, <2>1, <2>2 DEF Settle
<1>4. ASSUME NEW m \in Message, Stall(m)
      PROVE  TypeInv'
  <2>1. PipelineTypeOK' /\ CallInv'
    BY <1>4 DEF Stall, PipelineTypeOK, pipelineVars, localVars, streamVars,
                keyVars, linkVars
  <2>2. /\ status' \in [Message -> Status]
        /\ owner' \in [Message -> Job \union {None}]
        /\ stalls' \in [Message -> 0..MaxStalled]
        /\ \A n \in Message : HasAttempts(n)'
    BY <1>4 DEF Stall
  <2> QED
    BY <1>4, <2>1, <2>2 DEF Stall
<1>5. ASSUME NEW k \in LockKey, ExpireLock(k)
      PROVE  TypeInv'
  BY <1>5 DEF ExpireLock, PipelineTypeOK, streamVars, keyVars, linkVars
<1>6. ASSUME NEW k \in CacheKey, ExpireCache(k)
      PROVE  TypeInv'
  BY <1>6 DEF ExpireCache, PipelineTypeOK, localVars, streamVars, keyVars,
              linkVars
<1>7. ASSUME NEW w \in Worker, Crash(w)
      PROVE  TypeInv'
  BY <1>7 DEF Crash, PipelineTypeOK, PC, RunningPc, ConsumerPc, ServicePc,
              streamVars, keyVars
<1>8. ASSUME NEW w \in Worker, LinkEnds(w)
      PROVE  TypeInv'
  BY <1>8 DEF LinkEnds, PipelineTypeOK, localVars, streamVars, keyVars
<1> QED
  BY <1>1, <1>2, <1>3, <1>4, <1>5, <1>6, <1>7, <1>8
     DEF Next, QueueStep, Environment

(* Nothing has happened yet.                                               *)
LEMMA InitType == Init => TypeInv
BY QueueAssumption
   DEF Init, PipelineInit, TypeInv, PipelineTypeOK, CallInv, HasMessage,
       HasPost, HasTries, HasAttempts, Status, PC, RunningPc, ConsumerPc,
       ServicePc

(* Nothing changes.                                                        *)
LEMMA StutterType ==
  ASSUME TypeInv, UNCHANGED vars
  PROVE  TypeInv'
BY DEF TypeInv, PipelineTypeOK, CallInv, HasMessage, HasPost, HasTries,
       HasAttempts, vars, pipelineVars, localVars, streamVars, keyVars,
       linkVars, queueVars

(* The types with the facts that keep them: every reachable state of the   *)
(* pipeline has them.                                                      *)
THEOREM TypeInvariant == Spec => []TypeInv
<1>1. TypeInv /\ [Next]_vars => TypeInv'
  BY StepType, StutterType
<1> QED
  BY <1>1, InitType, PTL DEF Spec

(* Every variable of the pipeline stays in its type.                       *)
THEOREM TypeCorrect == Spec => []TypeOK
<1>1. TypeInv => TypeOK
  BY DEF TypeInv, TypeOK
<1> QED
  BY <1>1, TypeInvariant, PTL

----------------------------------------------------------------------------
(* Exclusion.  A held key that has not lapsed stores its holder, so two    *)
(* calls cannot both hold one; a call behind a lock holds the lock's key.  *)

KeysHeld(j) ==
  /\ BehindConsumerLock(j) => ConsumerKey(j) \in held[j]
  /\ BehindServiceLock(j) => ServiceKey(j) \in held[j]

(* Only what is held can lapse.                                            *)
GrantsInv ==
  /\ HeldUnlessLapsed
  /\ \A j \in Job : lapsed[j] \subseteq held[j]

LockInv ==
  /\ GrantsInv
  /\ \A j \in Job : KeysHeld(j)

(* The service's key is never a consumer's.                                *)
LEMMA KeysDiffer ==
  ASSUME NEW j \in Job, NEW other \in Job, message[j] \in Message
  PROVE  ConsumerKey(j) # ServiceKey(other)
BY DEF ConsumerKey, ServiceKey, apiPrefix

(* Acquiring and releasing keep the grants in order: a grant needs a free  *)
(* key, a release deletes the releaser's own value only.                   *)
LEMMA AcquireKeepsGrants ==
  ASSUME PipelineInv, GrantsInv, NEW j \in Job, NEW k \in LockKey,
         NEW r \in Reply, AcquireLock(j, k, r)
  PROVE  GrantsInv'
BY
   DEF PipelineInv, PipelineTypeOK, GrantsInv, HeldUnlessLapsed, AcquireLock,
       Granted,
       Executed

(* So does a release.                                                      *)
LEMMA ReleaseKeepsGrants ==
  ASSUME PipelineInv, GrantsInv, NEW j \in Job, NEW k \in LockKey,
         NEW r \in Reply, ReleaseLock(j, k, r)
  PROVE  GrantsInv'
BY DEF PipelineInv, PipelineTypeOK, GrantsInv, HeldUnlessLapsed, ReleaseLock

(* A call keeps its keys, as long as it keeps its message.                 *)
LEMMA KeysSame ==
  ASSUME NEW j \in Job, message'[j] = message[j]
  PROVE  ConsumerKey(j)' = ConsumerKey(j) /\ ServiceKey(j)' = ServiceKey(j)
BY DEF ConsumerKey, ServiceKey, query, apiPrefix

(* A call that stays behind the locks it is behind keeps its keys.         *)
LEMMA StayBehind ==
  ASSUME NEW j \in Job, KeysHeld(j), UNCHANGED <<message, held>>,
         pc'[j] \in ConsumerLockPc => pc[j] \in ConsumerLockPc,
         pc'[j] \in ServiceLockPc => pc[j] \in ServiceLockPc
  PROVE  KeysHeld(j)'
BY KeysSame DEF KeysHeld, BehindConsumerLock, BehindServiceLock

(* A step of one call leaves the keys of the others alone.                 *)
LEMMA OthersKeepKeys ==
  ASSUME \A other \in Job : KeysHeld(other), NEW j \in Job, KeysHeld(j)',
         \A other \in Job \ {j} : /\ message'[other] = message[other]
                                  /\ pc'[other] = pc[other]
                                  /\ held'[other] = held[other]
  PROVE  \A other \in Job : KeysHeld(other)'
BY KeysSame DEF KeysHeld, BehindConsumerLock, BehindServiceLock

(* A step that touches no lock key keeps the invariant, if the place its   *)
(* call goes to is one it has the keys for.                                *)
LEMMA FrameKeepsLocks ==
  ASSUME LockInv, NEW j \in Job, KeysHeld(j)',
         UNCHANGED <<message, locks, held, lapsed>>,
         \A other \in Job \ {j} : pc'[other] = pc[other]
  PROVE  LockInv'
<1>1. GrantsInv'
  BY DEF LockInv, GrantsInv, HeldUnlessLapsed
<1> QED
  BY <1>1, OthersKeepKeys DEF LockInv

(* The service enters its lock with the key granted, and gives the key     *)
(* back where it leaves the lock.                                          *)
LEMMA ServiceStepLocks ==
  ASSUME PipelineInv, LockInv, NEW j \in Job, ServiceStep(j)
  PROVE  LockInv'
<1> USE DEF PipelineInv, PipelineTypeOK, CallInv, HasMessage, Goto, Return,
             RunningPc, ConsumerPc, ServicePc, ConsumerLockPc, ServiceLockPc
<1>1. ASSUME AcquireQueryLock(j)
      PROVE  LockInv'
  <2>1. PICK r \in Reply : AcquireLock(j, ServiceKey(j), r)
    BY <1>1 DEF AcquireQueryLock
  <2>2. ServiceKey(j) \in LockKey /\ ConsumerKey(j) # ServiceKey(j)
    BY <1>1, KeysTyped, KeysDiffer DEF AcquireQueryLock
  <2>3. GrantsInv'
    BY <2>1, <2>2, AcquireKeepsGrants DEF LockInv
  <2>4. KeysHeld(j)'
    BY <1>1, <2>2, KeysSame
       DEF AcquireQueryLock, AcquireLock, LockInv, KeysHeld, BehindConsumerLock,
                 BehindServiceLock
  <2>5. \A other \in Job : KeysHeld(other)'
    BY <1>1, <2>4, OthersKeepKeys DEF AcquireQueryLock, AcquireLock, LockInv
  <2> QED
    BY <2>3, <2>5 DEF LockInv
<1>2. ASSUME HandleDuplicateProcessing(j)
      PROVE  LockInv'
  <2>1. KeysHeld(j)'
    BY <1>2, KeysSame
       DEF HandleDuplicateProcessing, LockInv, KeysHeld, BehindConsumerLock,
                 BehindServiceLock
  <2> QED
    BY <1>2, <2>1, FrameKeepsLocks DEF HandleDuplicateProcessing
<1>3. ASSUME CheckRateLimit(j)
      PROVE  LockInv'
  <2>1. /\ pc[j] \in ConsumerLockPc \intersect ServiceLockPc
        /\ UNCHANGED <<message, locks, held, lapsed>>
    BY <1>3 DEF CheckRateLimit
  <2>2. KeysHeld(j)'
    BY <2>1, StayBehind DEF LockInv
  <2> QED
    BY <1>3, <2>1, <2>2, FrameKeepsLocks DEF CheckRateLimit
<1>4. ASSUME GetFromCache(j)
      PROVE  LockInv'
  <2>1. /\ pc[j] \in ConsumerLockPc \intersect ServiceLockPc
        /\ UNCHANGED <<message, locks, held, lapsed>>
    BY <1>4 DEF GetFromCache
  <2>2. KeysHeld(j)'
    BY <2>1, StayBehind DEF LockInv
  <2> QED
    BY <1>4, <2>1, <2>2, FrameKeepsLocks DEF GetFromCache
<1>5. ASSUME FetchPost(j)
      PROVE  LockInv'
  <2>1. /\ pc[j] \in ConsumerLockPc \intersect ServiceLockPc
        /\ UNCHANGED <<message, locks, held, lapsed>>
    BY <1>5 DEF FetchPost
  <2>2. KeysHeld(j)'
    BY <2>1, StayBehind DEF LockInv
  <2> QED
    BY <1>5, <2>1, <2>2, FrameKeepsLocks DEF FetchPost
<1>6. ASSUME SetCache(j)
      PROVE  LockInv'
  <2>1. /\ pc[j] \in ConsumerLockPc \intersect ServiceLockPc
        /\ UNCHANGED <<message, locks, held, lapsed>>
    BY <1>6 DEF SetCache
  <2>2. KeysHeld(j)'
    BY <2>1, StayBehind DEF LockInv
  <2> QED
    BY <1>6, <2>1, <2>2, FrameKeepsLocks DEF SetCache
<1>7. ASSUME InvalidateCache(j)
      PROVE  LockInv'
  <2>1. /\ pc[j] \in ConsumerLockPc \intersect ServiceLockPc
        /\ UNCHANGED <<message, locks, held, lapsed>>
    BY <1>7 DEF InvalidateCache
  <2>2. KeysHeld(j)'
    BY <2>1, StayBehind DEF LockInv
  <2> QED
    BY <1>7, <2>1, <2>2, FrameKeepsLocks DEF InvalidateCache
<1>8. ASSUME PublishResponse(j)
      PROVE  LockInv'
  <2>1. /\ pc[j] \in ConsumerLockPc \intersect ServiceLockPc
        /\ UNCHANGED <<message, locks, held, lapsed>>
    BY <1>8 DEF PublishResponse
  <2>2. KeysHeld(j)'
    BY <2>1, StayBehind DEF LockInv
  <2> QED
    BY <1>8, <2>1, <2>2, FrameKeepsLocks DEF PublishResponse
<1>9. ASSUME ReleaseQueryLock(j)
      PROVE  LockInv'
  <2>1. PICK r \in Reply : ReleaseLock(j, ServiceKey(j), r)
    BY <1>9 DEF ReleaseQueryLock
  <2>2. ServiceKey(j) \in LockKey /\ ConsumerKey(j) # ServiceKey(j)
    BY <1>9, KeysTyped, KeysDiffer DEF ReleaseQueryLock
  <2>3. GrantsInv'
    BY <2>1, <2>2, ReleaseKeepsGrants DEF LockInv
  <2>4. KeysHeld(j)'
    BY <1>9, <2>2, KeysSame
       DEF ReleaseQueryLock, ReleaseLock, LockInv, KeysHeld, BehindConsumerLock,
                 BehindServiceLock
  <2>5. \A other \in Job : KeysHeld(other)'
    BY <1>9, <2>4, OthersKeepKeys DEF ReleaseQueryLock, ReleaseLock, LockInv
  <2> QED
    BY <2>3, <2>5 DEF LockInv
<1>10. ASSUME HandleErrorAndPublish(j)
      PROVE  LockInv'
  <2>1. /\ pc[j] \in ConsumerLockPc \intersect ServiceLockPc
        /\ UNCHANGED <<message, locks, held, lapsed>>
    BY <1>10 DEF HandleErrorAndPublish
  <2>2. KeysHeld(j)'
    BY <2>1, StayBehind DEF LockInv
  <2> QED
    BY <1>10, <2>1, <2>2, FrameKeepsLocks DEF HandleErrorAndPublish
<1>11. ASSUME ReleaseAfterError(j)
      PROVE  LockInv'
  <2>1. PICK r \in Reply : ReleaseLock(j, ServiceKey(j), r)
    BY <1>11 DEF ReleaseAfterError
  <2>2. ServiceKey(j) \in LockKey /\ ConsumerKey(j) # ServiceKey(j)
    BY <1>11, KeysTyped, KeysDiffer DEF ReleaseAfterError
  <2>3. GrantsInv'
    BY <2>1, <2>2, ReleaseKeepsGrants DEF LockInv
  <2>4. KeysHeld(j)'
    BY <1>11, <2>2, KeysSame
       DEF ReleaseAfterError, ReleaseLock, LockInv, KeysHeld,
           BehindConsumerLock,
                 BehindServiceLock
  <2>5. \A other \in Job : KeysHeld(other)'
    BY <1>11, <2>4, OthersKeepKeys DEF ReleaseAfterError, ReleaseLock, LockInv
  <2> QED
    BY <2>3, <2>5 DEF LockInv
<1>12. ASSUME ServiceAddToDLQ(j)
      PROVE  LockInv'
  <2>1. KeysHeld(j)'
    BY <1>12, KeysSame
       DEF ServiceAddToDLQ, LockInv, KeysHeld, BehindConsumerLock,
                 BehindServiceLock
  <2> QED
    BY <1>12, <2>1, FrameKeepsLocks DEF ServiceAddToDLQ
<1> QED
  BY <1>1, <1>2, <1>3, <1>4, <1>5, <1>6, <1>7, <1>8, <1>9, <1>10, <1>11, <1>12
     DEF ServiceStep

(* So does the consumer with its own.                                      *)
LEMMA ConsumerStepLocks ==
  ASSUME PipelineInv, LockInv, NEW j \in Job, ConsumerStep(j)
  PROVE  LockInv'
<1> USE DEF PipelineInv, PipelineTypeOK, CallInv, HasMessage, Goto, Return,
             RunningPc, ConsumerPc, ServicePc, ConsumerLockPc, ServiceLockPc
<1>1. ASSUME ClaimJob(j)
      PROVE  LockInv'
  <2>1. KeysHeld(j)'
    BY <1>1, KeysSame DEF ClaimJob, LockInv, KeysHeld, BehindConsumerLock,
                 BehindServiceLock
  <2> QED
    BY <1>1, <2>1, FrameKeepsLocks DEF ClaimJob
<1>2. ASSUME CheckDlqDuplicate(j)
      PROVE  LockInv'
  <2>1. KeysHeld(j)'
    BY <1>2, KeysSame
       DEF CheckDlqDuplicate, LockInv, KeysHeld, BehindConsumerLock,
                 BehindServiceLock
  <2> QED
    BY <1>2, <2>1, FrameKeepsLocks DEF CheckDlqDuplicate
<1>3. ASSUME AnswerDlqDuplicate(j)
      PROVE  LockInv'
  <2>1. KeysHeld(j)'
    BY <1>3, KeysSame
       DEF AnswerDlqDuplicate, AnswerAndReturn, LockInv, KeysHeld,
           BehindConsumerLock,
                 BehindServiceLock
  <2> QED
    BY <1>3, <2>1, FrameKeepsLocks DEF AnswerDlqDuplicate, AnswerAndReturn
<1>4. ASSUME AnswerLockFailed(j)
      PROVE  LockInv'
  <2>1. KeysHeld(j)'
    BY <1>4, KeysSame
       DEF AnswerLockFailed, AnswerAndReturn, LockInv, KeysHeld,
           BehindConsumerLock,
                 BehindServiceLock
  <2> QED
    BY <1>4, <2>1, FrameKeepsLocks DEF AnswerLockFailed, AnswerAndReturn
<1>5. ASSUME TryConsumerLock(j)
      PROVE  LockInv'
  <2>1. PICK r \in Reply : AcquireLock(j, ConsumerKey(j), r)
    BY <1>5 DEF TryConsumerLock
  <2>2. ConsumerKey(j) \in LockKey /\ ConsumerKey(j) # ServiceKey(j)
    BY <1>5, KeysTyped, KeysDiffer DEF TryConsumerLock
  <2>3. GrantsInv'
    BY <2>1, <2>2, AcquireKeepsGrants DEF LockInv
  <2>4. KeysHeld(j)'
    BY <1>5, <2>2, KeysSame
       DEF TryConsumerLock, AcquireLock, LockInv, KeysHeld, BehindConsumerLock,
                 BehindServiceLock
  <2>5. \A other \in Job : KeysHeld(other)'
    BY <1>5, <2>4, OthersKeepKeys DEF TryConsumerLock, AcquireLock, LockInv
  <2> QED
    BY <2>3, <2>5 DEF LockInv
<1>6. ASSUME Validate(j)
      PROVE  LockInv'
  <2>1. KeysHeld(j)'
    BY <1>6, KeysSame
       DEF Validate, ProcessJob, LockInv, KeysHeld, BehindConsumerLock,
                 BehindServiceLock
  <2> QED
    BY <1>6, <2>1, FrameKeepsLocks DEF Validate
<1>7. ASSUME AnswerInvalid(j)
      PROVE  LockInv'
  <2>1. KeysHeld(j)'
    BY <1>7, KeysSame DEF AnswerInvalid, LockInv, KeysHeld, BehindConsumerLock,
                 BehindServiceLock
  <2> QED
    BY <1>7, <2>1, FrameKeepsLocks DEF AnswerInvalid
<1>8. ASSUME RecheckDlqDuplicate(j)
      PROVE  LockInv'
  <2>1. KeysHeld(j)'
    BY <1>8, KeysSame
       DEF RecheckDlqDuplicate, LockInv, KeysHeld, BehindConsumerLock,
                 BehindServiceLock
  <2> QED
    BY <1>8, <2>1, FrameKeepsLocks DEF RecheckDlqDuplicate
<1>9. ASSUME InvalidToDLQ(j)
      PROVE  LockInv'
  <2>1. KeysHeld(j)'
    BY <1>9, KeysSame DEF InvalidToDLQ, LockInv, KeysHeld, BehindConsumerLock,
                 BehindServiceLock
  <2> QED
    BY <1>9, <2>1, FrameKeepsLocks DEF InvalidToDLQ
<1>10. ASSUME CatchToDLQ(j)
      PROVE  LockInv'
  <2>1. KeysHeld(j)'
    BY <1>10, KeysSame DEF CatchToDLQ, LockInv, KeysHeld, BehindConsumerLock,
                 BehindServiceLock
  <2> QED
    BY <1>10, <2>1, FrameKeepsLocks DEF CatchToDLQ
<1>11. ASSUME CatchAnswer(j)
      PROVE  LockInv'
  <2>1. KeysHeld(j)'
    BY <1>11, KeysSame DEF CatchAnswer, LockInv, KeysHeld, BehindConsumerLock,
                 BehindServiceLock
  <2> QED
    BY <1>11, <2>1, FrameKeepsLocks DEF CatchAnswer
<1>12. ASSUME ReleaseConsumerLock(j)
      PROVE  LockInv'
  <2>1. PICK r \in Reply : ReleaseLock(j, ConsumerKey(j), r)
    BY <1>12 DEF ReleaseConsumerLock
  <2>2. ConsumerKey(j) \in LockKey /\ ConsumerKey(j) # ServiceKey(j)
    BY <1>12, KeysTyped, KeysDiffer DEF ReleaseConsumerLock
  <2>3. GrantsInv'
    BY <2>1, <2>2, ReleaseKeepsGrants DEF LockInv
  <2>4. KeysHeld(j)'
    BY <1>12, <2>2, KeysSame
       DEF ReleaseConsumerLock, ReleaseLock, LockInv, KeysHeld,
           BehindConsumerLock,
                 BehindServiceLock
  <2>5. \A other \in Job : KeysHeld(other)'
    BY <1>12, <2>4, OthersKeepKeys DEF ReleaseConsumerLock, ReleaseLock, LockInv
  <2> QED
    BY <2>3, <2>5 DEF LockInv
<1> QED
  BY <1>1, <1>2, <1>3, <1>4, <1>5, <1>6, <1>7, <1>8, <1>9, <1>10, <1>11, <1>12
     DEF ConsumerStep

(* No step of a call, BullMQ, Redis or a crash breaks the lock invariant.  *)
LEMMA StepLocks ==
  ASSUME TypeInv, LockInv, Next
  PROVE  LockInv'
<1>1. PipelineInv
  BY DEF TypeInv, PipelineInv
<1> USE DEF LockInv, GrantsInv, HeldUnlessLapsed
<1>2. ASSUME NEW j \in Job, JobStep(j)
      PROVE  LockInv'
  BY <1>1, <1>2, ServiceStepLocks, ConsumerStepLocks DEF JobStep
<1>3. ASSUME NEW m \in Message, NEW j \in Job, Deliver(m, j)
      PROVE  LockInv'
  <2>1. pc'[j] \in {"claim", "done"}
    BY <1>3 DEF Deliver, Start, Goto, TypeInv, PipelineTypeOK
  <2>2. KeysHeld(j)'
    BY <2>1 DEF KeysHeld, BehindConsumerLock, BehindServiceLock,
                ConsumerLockPc, ServiceLockPc, ServicePc
  <2>3. \A other \in Job \ {j} : /\ message'[other] = message[other]
                                 /\ pc'[other] = pc[other]
    BY <1>3 DEF Deliver, Start, Goto, TypeInv, PipelineTypeOK
  <2>4. \A other \in Job : KeysHeld(other)'
    BY <1>3, <2>2, <2>3, OthersKeepKeys DEF Deliver, Start
  <2> QED
    BY <1>3, <2>4 DEF Deliver, Start
<1>4. ASSUME UNCHANGED <<pc, message, held, lapsed, locks>>
      PROVE  LockInv'
  BY <1>4, KeysSame DEF KeysHeld, BehindConsumerLock, BehindServiceLock
<1>5. ASSUME NEW m \in Message, Settle(m) \/ Stall(m)
      PROVE  LockInv'
  BY <1>4, <1>5 DEF Settle, Stall, pipelineVars, localVars
<1>6. ASSUME NEW k \in LockKey, ExpireLock(k)
      PROVE  LockInv'
  <2>1. \A j \in Job : KeysHeld(j)'
    BY <1>6, KeysSame DEF ExpireLock, KeysHeld, BehindConsumerLock,
                          BehindServiceLock
  <2>2. locks[k] \in Job
    BY <1>6 DEF ExpireLock, TypeInv, PipelineTypeOK
  <2>3. GrantsInv'
    BY <1>6, <2>2 DEF ExpireLock, TypeInv, PipelineTypeOK
  <2> QED
    BY <2>1, <2>3
<1>7. ASSUME NEW k \in CacheKey, ExpireCache(k)
      PROVE  LockInv'
  BY <1>4, <1>7 DEF ExpireCache, localVars
<1>8. ASSUME NEW w \in Worker, Crash(w)
      PROVE  LockInv'
  <2>1. GrantsInv'
    BY <1>8 DEF Crash, TypeInv, PipelineTypeOK
  <2>2. ASSUME NEW j \in Job
        PROVE  KeysHeld(j)'
    <3>1. pc'[j] = "crashed" \/ (pc'[j] = pc[j] /\ held'[j] = held[j])
      BY <1>8 DEF Crash
    <3> QED
      BY <1>8, <3>1, KeysSame
         DEF Crash, KeysHeld, BehindConsumerLock, BehindServiceLock,
             ConsumerLockPc, ServiceLockPc, ServicePc
  <2> QED
    BY <2>1, <2>2
<1>9. ASSUME NEW w \in Worker, LinkEnds(w)
      PROVE  LockInv'
  BY <1>4, <1>9 DEF LinkEnds, localVars
<1> QED
  BY <1>2, <1>3, <1>5, <1>6, <1>7, <1>8, <1>9 DEF Next, QueueStep, Environment

(* No key is held at first.                                                *)
LEMMA InitLocks == Init => LockInv
BY DEF Init, PipelineInit, LockInv, GrantsInv, HeldUnlessLapsed, KeysHeld,
       BehindConsumerLock, BehindServiceLock, ConsumerLockPc, ServiceLockPc,
       ServicePc

(* Nothing changes.                                                        *)
LEMMA StutterLocks ==
  ASSUME LockInv, UNCHANGED vars
  PROVE  LockInv'
BY KeysSame
   DEF LockInv, GrantsInv, HeldUnlessLapsed, KeysHeld, BehindConsumerLock,
       BehindServiceLock, vars, pipelineVars, localVars

(* Every call behind a lock holds its key, and every held key that has not *)
(* lapsed stores its holder, in every reachable state.                     *)
THEOREM LockInvariant == Spec => []LockInv
<1>1. TypeInv /\ LockInv /\ [Next]_vars => LockInv'
  BY StepLocks, StutterLocks
<1> QED
  BY <1>1, InitLocks, TypeInvariant, PTL DEF Spec

(* A key that a call holds and that has not lapsed stores that call.       *)
THEOREM HeldKeysAreOwned == Spec => []HeldUnlessLapsed
<1>1. LockInv => HeldUnlessLapsed
  BY DEF LockInv, GrantsInv
<1> QED
  BY <1>1, LockInvariant, PTL

(* Two calls are behind the same lock only if one outlived its key.        *)
THEOREM QueriesExclude == Spec => []QueryExclusion
<1>1. ASSUME TypeInv, LockInv
      PROVE  QueryExclusion
  <2>1. ASSUME NEW j \in Job, NEW other \in Job, j # other, NEW k \in LockKey,
               k \in held[j], k \in held[other]
        PROVE  Apart(j, other, k)
    BY <1>1, <2>1 DEF LockInv, GrantsInv, HeldUnlessLapsed, Apart
  <2>2. ASSUME NEW j \in Job, NEW other \in Job, j # other,
               BehindConsumerLock(j), BehindConsumerLock(other),
               ConsumerKey(j) = ConsumerKey(other)
        PROVE  Apart(j, other, ConsumerKey(j))
    BY <1>1, <2>1, <2>2 DEF LockInv, KeysHeld, TypeInv, PipelineTypeOK
  <2>3. ASSUME NEW j \in Job, NEW other \in Job, j # other,
               BehindServiceLock(j), BehindServiceLock(other),
               query(j) = query(other)
        PROVE  Apart(j, other, ServiceKey(j))
    <3>1. ServiceKey(j) = ServiceKey(other)
      BY <2>3 DEF ServiceKey
    <3> QED
      BY <1>1, <2>1, <2>3, <3>1 DEF LockInv, KeysHeld, TypeInv, PipelineTypeOK
  <2> QED
    BY <2>2, <2>3 DEF QueryExclusion
<1> QED
  BY <1>1, TypeInvariant, LockInvariant, PTL

----------------------------------------------------------------------------
(* What a call has reported by the time it stands where it stands.         *)

Answers(j) == Len(responses[j])
Records(j) == Len(dlq[j])
Only(j, kind) == \A i \in DOMAIN responses[j] : responses[j][i].kind = kind
Silent(j) == Answers(j) = 0 /\ Records(j) = 0
Refused(j) == Answers(j) > 0 /\ Only(j, "error") /\ Records(j) = 0

(* The awaits before anything is reported.                                 *)
SilentPc ==
  {"idle", "claim", "dedup", "dupAnswer", "lock", "busyAnswer", "validate",
   "invalidAnswer", "svcLock", "svcBusyAnswer", "rate", "cacheGet", "fetch",
   "cacheSet", "purge", "publish"}

StageInv(j) ==
  /\ pc[j] \in SilentPc => Silent(j)
  /\ pc[j] \in {"idle", "claim"} => j \notin processed
  /\ pc[j] \in {"recheck", "invalidDlq", "svcErrorDlq"} => Refused(j)
  /\ pc[j] = "svcRelease" =>
       /\ Records(j) = 0
       /\ \/ outcome[j] = "refused"
          \/ outcome[j] = "posted" /\ Answers(j) > 0
  /\ pc[j] = "svcErrorAnswer" => Silent(j) \/ (~Up(j) /\ Records(j) = 0)
  /\ pc[j] = "svcErrorRelease" =>
       \/ outcome[j] # "thrown" /\ Refused(j)
       \/ outcome[j] = "thrown" /\ ~Up(j) /\ Records(j) = 0
  /\ pc[j] = "catchDlq" => Silent(j) \/ ~Up(j) \/ ~EncryptionKey
  /\ pc[j] = "catchAnswer" => Answers(j) = 0
  /\ pc[j] \in {"release", "done"} /\ outcome[j] # "thrown" =>
       \/ Answers(j) > 0
       \/ /\ Records(j) = 0
          /\ \/ outcome[j] = "refused"
             \/ outcome[j] = "duplicateJob" /\ resends > 0

(* One kind of answer, and no more of them than commands were executed.    *)
CountInv(j) ==
  /\ Answers(j) <= 1 + resends
  /\ Records(j) <= 1 + resends
  /\ Answers(j) + Records(j) <= 2 + resends
  /\ Only(j, "error") \/ (Only(j, "success") /\ Records(j) = 0)

CauseInv(j) ==
  pc[j] \in {"release", "done"} /\ outcome[j] = "thrown" =>
    message[j] \in Malformed \/ ~EncryptionKey \/ ClientEnded(j)

ReportInv == \A j \in Job : StageInv(j) /\ CountInv(j) /\ CauseInv(j)

(* Concatenation adds the lengths.                                         *)
LEMMA LengthsAdd ==
  ASSUME NEW S, NEW s \in Seq(S), NEW t \in Seq(S)
  PROVE  Len(s \o t) = Len(s) + Len(t)
OBVIOUS

(* A command: a client that has ended sends nothing, one that throws has   *)
(* ended, and only resending executes a command twice.                     *)
LEMMA CommandEffect ==
  ASSUME PipelineTypeOK, NEW j \in Job, NEW r \in Reply, Command(j, r)
  PROVE  /\ resends \in Nat /\ resends' \in Nat /\ resends' >= resends
         /\ Executions(r) \in Nat
         /\ Executions(r) <= 1 + resends' - resends
         /\ r = "resent" => resends' > 0
         /\ Up(j) <=> r # "refused"
         /\ Up(j) <=> Executions(r) > 0
         /\ Threw(r) <=> ~Up(j)'
         /\ \A w \in Worker : link'[w] => link[w]
<1>1. WorkerOf[j] \in Worker /\ link \in [Worker -> BOOLEAN]
  BY DEF PipelineTypeOK
<1>2. /\ link' = [link EXCEPT ![WorkerOf[j]] = r \in {"ok", "resent"}]
      /\ r = "refused" <=> ~link[WorkerOf[j]]
  BY DEF Command, Up
<1>3. /\ resends \in Nat /\ resends' \in Nat /\ resends' >= resends
      /\ Executions(r) \in Nat
      /\ Executions(r) <= 1 + resends' - resends
      /\ r = "resent" => resends' > 0
  BY DEF PipelineTypeOK, Command, Executions, Reply
<1>4. Up(j) <=> Executions(r) > 0
  BY <1>2 DEF Up, Executions, Reply
<1>5. link'[WorkerOf[j]] = (r \in {"ok", "resent"})
  BY <1>1, <1>2
<1>6. \A w \in Worker : w = WorkerOf[j] \/ link'[w] = link[w]
  BY <1>1, <1>2
<1>7. (Threw(r) <=> ~Up(j)') /\ (Up(j) <=> r # "refused")
  BY <1>2, <1>5 DEF Up, Threw, Reply
<1>8. r \in {"ok", "resent"} => link[WorkerOf[j]]
  BY <1>2 DEF Reply
<1> QED
  BY <1>2, <1>3, <1>4, <1>5, <1>6, <1>7, <1>8 DEF Up, Threw

(* XADD on a responses stream, seen by length and kind.                    *)
LEMMA RespondEffect ==
  ASSUME PipelineTypeOK, NEW j \in Job, NEW r \in Reply,
         NEW e \in ResponseEntry, Respond(j, e, r)
  PROVE  /\ \A other \in Job \ {j} : responses'[other] = responses[other]
         /\ Answers(j) \in Nat
         /\ Answers(j)' = Answers(j) + Executions(r)
         /\ \A kind \in {"success", "error"} :
              Only(j, kind)' <=> Only(j, kind) /\ (Executions(r) = 0 \/ e.kind = kind)
         /\ \A i \in DOMAIN responses'[j] :
              \/ i \in DOMAIN responses[j] /\ responses'[j][i] = responses[j][i]
              \/ responses'[j][i] = e
<1> DEFINE added == [i \in 1..Executions(r) |-> e]
<1>1. Executions(r) \in Nat
  BY DEF Executions
<1>2. added \in Seq(ResponseEntry) /\ Len(added) = Executions(r)
  BY <1>1
<1> HIDE DEF added
<1>3. responses[j] \in Seq(ResponseEntry) /\ responses'[j] = responses[j] \o added
  BY DEF Respond, PipelineTypeOK, added
<1>4. Answers(j) \in Nat /\ Answers(j)' = Answers(j) + Executions(r)
  <2>1. Len(responses[j] \o added) = Len(responses[j]) + Len(added)
    BY <1>2, <1>3, LengthsAdd
  <2> QED
    BY <1>2, <1>3, <2>1 DEF Answers
<1>5. \A i \in DOMAIN responses[j] : i \in DOMAIN responses'[j] /\ responses'[j][i] = responses[j][i]
  BY <1>1, <1>2, <1>3
<1>6. \A i \in DOMAIN responses'[j] : i \in DOMAIN responses[j]
                                      \/ (Executions(r) > 0 /\ responses'[j][i] = e)
  <2> SUFFICES ASSUME NEW i \in DOMAIN responses'[j], i \notin DOMAIN responses[j]
               PROVE  Executions(r) > 0 /\ responses'[j][i] = e
    OBVIOUS
  <2>1. i \in 1..(Len(responses[j]) + Executions(r)) /\ i \notin 1..Len(responses[j])
    BY <1>1, <1>2, <1>3
  <2>2. responses'[j][i] = added[i - Len(responses[j])]
    BY <1>1, <1>2, <1>3, <2>1
  <2>3. i - Len(responses[j]) \in 1..Executions(r)
    BY <1>1, <1>3, <2>1
  <2> QED
    BY <1>1, <2>2, <2>3 DEF added
<1>7. Executions(r) > 0 => \E i \in DOMAIN responses'[j] : responses'[j][i] = e
  <2> SUFFICES ASSUME Executions(r) > 0
               PROVE  \E i \in DOMAIN responses'[j] : responses'[j][i] = e
    OBVIOUS
  <2> DEFINE i == Len(responses[j]) + 1
  <2>1. i \in DOMAIN responses'[j] /\ responses'[j][i] = added[1]
    BY <1>1, <1>2, <1>3
  <2>2. added[1] = e
    BY <1>1 DEF added
  <2> QED
    BY <2>1, <2>2
<1>8. \A kind \in {"success", "error"} :
        Only(j, kind)' <=> Only(j, kind) /\ (Executions(r) = 0 \/ e.kind = kind)
  <2> QED
    BY <1>1, <1>5, <1>6, <1>7 DEF Only
<1> QED
  BY <1>4, <1>5, <1>6, <1>8 DEF Respond, PipelineTypeOK

(* addToDLQ, seen by length.                                               *)
LEMMA RecordEffect ==
  ASSUME PipelineTypeOK, NEW j \in Job, NEW stream \in Prefix,
         NEW failed \in BOOLEAN, AddToDLQ(j, stream, failed)
  PROVE  /\ \A other \in Job \ {j} : dlq'[other] = dlq[other]
         /\ resends \in Nat /\ resends' \in Nat /\ resends' >= resends
         /\ Records(j) \in Nat /\ Records(j)' \in Nat
         /\ Records(j)' <= Records(j) + 1 + resends' - resends
         /\ ~Up(j) \/ ~EncryptionKey => Records(j)' = Records(j) /\ failed
         /\ failed => ~Up(j)' \/ ~EncryptionKey
         /\ \A w \in Worker : link'[w] => link[w]
<1>1. CASE EncryptionKey
  <2>1. PICK r \in Reply :
          /\ Command(j, r)
          /\ failed = Threw(r)
          /\ dlq' = [dlq EXCEPT ![j] = @ \o [i \in 1..Executions(r) |-> stream]]
    BY <1>1 DEF AddToDLQ
  <2> DEFINE added == [i \in 1..Executions(r) |-> stream]
  <2>2. Executions(r) \in Nat
    BY DEF Executions
  <2>3. added \in Seq(Prefix) /\ Len(added) = Executions(r)
    BY <2>2
  <2> HIDE DEF added
  <2>4. dlq[j] \in Seq(Prefix) /\ dlq'[j] = dlq[j] \o added
    BY <2>1 DEF PipelineTypeOK, added
  <2>5. Records(j) \in Nat /\ Records(j)' = Records(j) + Executions(r)
    <3>1. Len(dlq[j] \o added) = Len(dlq[j]) + Len(added)
      BY <2>3, <2>4, LengthsAdd
    <3> QED
      BY <2>2, <2>3, <2>4, <3>1 DEF Records
  <2>6. \A other \in Job \ {j} : dlq'[other] = dlq[other]
    BY <2>1 DEF PipelineTypeOK
  <2> QED
    <3>1. failed <=> ~Up(j)'
      BY <2>1, CommandEffect DEF Threw
    <3>2. ~Up(j) => Executions(r) = 0 /\ ~Up(j)'
      BY <2>1, CommandEffect DEF Threw, Executions, Command
    <3> QED
      BY <1>1, <2>1, <2>2, <2>5, <2>6, <3>1, <3>2, CommandEffect
<1>2. CASE ~EncryptionKey
  BY <1>2 DEF AddToDLQ, PipelineTypeOK, linkVars, Records
<1> QED
  BY <1>1, <1>2

(* What a step of call j leaves alone: the other calls, but for their      *)
(* worker's client, which may end.                                         *)
TouchesOnly(j) ==
  /\ \A other \in Job \ {j} :
       /\ pc'[other] = pc[other] /\ message'[other] = message[other]
       /\ outcome'[other] = outcome[other] /\ dlq'[other] = dlq[other]
       /\ responses'[other] = responses[other]
       /\ other \in processed' <=> other \in processed
  /\ message'[j] = message[j]
  /\ resends \in Nat /\ resends' \in Nat /\ resends' >= resends
  /\ \A w \in Worker : link'[w] => link[w]

(* A call that makes no step keeps what it has reported.                   *)
LEMMA OthersKeepReports ==
  ASSUME PipelineTypeOK, NEW other \in Job,
         StageInv(other), CountInv(other), CauseInv(other),
         pc'[other] = pc[other], message'[other] = message[other],
         outcome'[other] = outcome[other], dlq'[other] = dlq[other],
         responses'[other] = responses[other],
         other \in processed' <=> other \in processed,
         resends' \in Nat, resends' >= resends,
         link'[WorkerOf[other]] => link[WorkerOf[other]],
         ClientEnded(other) => ClientEnded(other)'
  PROVE  StageInv(other)' /\ CountInv(other)' /\ CauseInv(other)'
<1>1. resends \in Nat /\ Answers(other) \in Nat /\ Records(other) \in Nat
  BY DEF PipelineTypeOK, Answers, Records
<1>2. /\ Answers(other)' = Answers(other) /\ Records(other)' = Records(other)
      /\ Silent(other)' = Silent(other) /\ Refused(other)' = Refused(other)
      /\ \A kind : Only(other, kind)' <=> Only(other, kind)
      /\ Up(other)' => Up(other)
  BY DEF Answers, Records, Silent, Refused, Only, Up
<1>3. StageInv(other)'
  BY <1>1, <1>2 DEF StageInv
<1>4. CountInv(other)'
  BY <1>1, <1>2 DEF CountInv
<1> QED
  BY <1>3, <1>4 DEF CauseInv

(* An action of the service is one call's.                                 *)
LEMMA ServiceTouches ==
  ASSUME PipelineInv, NEW j \in Job, ServiceStep(j)
  PROVE  TouchesOnly(j)
<1> USE DEF PipelineInv, PipelineTypeOK, TouchesOnly, Goto, Return,
             streamVars, keyVars, linkVars
<1>1. ASSUME AcquireQueryLock(j)
      PROVE  TouchesOnly(j)
  BY <1>1, CommandEffect DEF AcquireQueryLock
<1>2. ASSUME HandleDuplicateProcessing(j)
      PROVE  TouchesOnly(j)
  BY <1>2, CommandEffect DEF HandleDuplicateProcessing, Respond
<1>3. ASSUME CheckRateLimit(j)
      PROVE  TouchesOnly(j)
  BY <1>3, CommandEffect DEF CheckRateLimit
<1>4. ASSUME GetFromCache(j)
      PROVE  TouchesOnly(j)
  BY <1>4, CommandEffect DEF GetFromCache
<1>5. ASSUME FetchPost(j)
      PROVE  TouchesOnly(j)
  BY <1>5, CommandEffect DEF FetchPost
<1>6. ASSUME SetCache(j)
      PROVE  TouchesOnly(j)
  BY <1>6, CommandEffect DEF SetCache
<1>7. ASSUME InvalidateCache(j)
      PROVE  TouchesOnly(j)
  BY <1>7, CommandEffect DEF InvalidateCache
<1>8. ASSUME PublishResponse(j)
      PROVE  TouchesOnly(j)
  BY <1>8, CommandEffect DEF PublishResponse, Respond
<1>9. ASSUME ReleaseQueryLock(j)
      PROVE  TouchesOnly(j)
  BY <1>9, CommandEffect DEF ReleaseQueryLock
<1>10. ASSUME HandleErrorAndPublish(j)
      PROVE  TouchesOnly(j)
  BY <1>10, CommandEffect DEF HandleErrorAndPublish, Respond
<1>11. ASSUME ReleaseAfterError(j)
      PROVE  TouchesOnly(j)
  BY <1>11, CommandEffect DEF ReleaseAfterError
<1>12. ASSUME ServiceAddToDLQ(j)
      PROVE  TouchesOnly(j)
  <2>1. Danbooru \in Prefix
    BY <1>12, KeysTyped, EntriesTyped
       DEF ServiceAddToDLQ, CallInv, HasMessage, RunningPc, ConsumerPc
  <2>2. PICK failed \in BOOLEAN : AddToDLQ(j, Danbooru, failed)
    BY <1>12 DEF ServiceAddToDLQ
  <2>3. \A other \in Job \ {j} : dlq'[other] = dlq[other]
    BY <2>1, <2>2, RecordEffect
  <2> QED
    BY <1>12, <2>1, <2>2, <2>3, RecordEffect DEF ServiceAddToDLQ
<1> QED
  BY <1>1, <1>2, <1>3, <1>4, <1>5, <1>6, <1>7, <1>8, <1>9, <1>10, <1>11, <1>12
     DEF ServiceStep

(* So is an action of the consumer.                                        *)
LEMMA ConsumerTouches ==
  ASSUME PipelineInv, NEW j \in Job, ConsumerStep(j)
  PROVE  TouchesOnly(j)
<1> USE DEF PipelineInv, PipelineTypeOK, TouchesOnly, Goto, Return,
             streamVars, keyVars, linkVars
<1>1. ASSUME ClaimJob(j)
      PROVE  TouchesOnly(j)
  BY <1>1, CommandEffect DEF ClaimJob
<1>2. ASSUME CheckDlqDuplicate(j)
      PROVE  TouchesOnly(j)
  BY <1>2, CommandEffect DEF CheckDlqDuplicate, DedupCheck
<1>3. ASSUME AnswerDlqDuplicate(j)
      PROVE  TouchesOnly(j)
  BY <1>3, CommandEffect DEF AnswerDlqDuplicate, AnswerAndReturn, Respond
<1>4. ASSUME AnswerLockFailed(j)
      PROVE  TouchesOnly(j)
  BY <1>4, CommandEffect DEF AnswerLockFailed, AnswerAndReturn, Respond
<1>5. ASSUME TryConsumerLock(j)
      PROVE  TouchesOnly(j)
  BY <1>5, CommandEffect DEF TryConsumerLock
<1>6. ASSUME Validate(j)
      PROVE  TouchesOnly(j)
  BY <1>6, CommandEffect DEF Validate
<1>7. ASSUME AnswerInvalid(j)
      PROVE  TouchesOnly(j)
  BY <1>7, CommandEffect DEF AnswerInvalid, Respond
<1>8. ASSUME RecheckDlqDuplicate(j)
      PROVE  TouchesOnly(j)
  BY <1>8, CommandEffect DEF RecheckDlqDuplicate, DedupCheck
<1>9. ASSUME InvalidToDLQ(j)
      PROVE  TouchesOnly(j)
  <2>1. apiPrefix(j) \in Prefix
    BY <1>9, KeysTyped, EntriesTyped
       DEF InvalidToDLQ, CallInv, HasMessage, RunningPc, ConsumerPc
  <2>2. PICK failed \in BOOLEAN : AddToDLQ(j, apiPrefix(j), failed)
    BY <1>9 DEF InvalidToDLQ
  <2>3. \A other \in Job \ {j} : dlq'[other] = dlq[other]
    BY <2>1, <2>2, RecordEffect
  <2> QED
    BY <1>9, <2>1, <2>2, <2>3, RecordEffect DEF InvalidToDLQ
<1>10. ASSUME CatchToDLQ(j)
      PROVE  TouchesOnly(j)
  <2>1. apiPrefix(j) \in Prefix
    BY <1>10, KeysTyped, EntriesTyped
       DEF CatchToDLQ, CallInv, HasMessage, RunningPc, ConsumerPc
  <2>2. PICK failed \in BOOLEAN : AddToDLQ(j, apiPrefix(j), failed)
    BY <1>10 DEF CatchToDLQ
  <2>3. \A other \in Job \ {j} : dlq'[other] = dlq[other]
    BY <2>1, <2>2, RecordEffect
  <2> QED
    BY <1>10, <2>1, <2>2, <2>3, RecordEffect DEF CatchToDLQ
<1>11. ASSUME CatchAnswer(j)
      PROVE  TouchesOnly(j)
  BY <1>11, CommandEffect DEF CatchAnswer, Respond
<1>12. ASSUME ReleaseConsumerLock(j)
      PROVE  TouchesOnly(j)
  BY <1>12, CommandEffect DEF ReleaseConsumerLock
<1> QED
  BY <1>1, <1>2, <1>3, <1>4, <1>5, <1>6, <1>7, <1>8, <1>9, <1>10, <1>11, <1>12
     DEF ConsumerStep

(* The lengths are numbers, and a stream without entries has them of any   *)
(* kind.                                                                   *)
LEMMA LengthsTyped ==
  ASSUME PipelineTypeOK, NEW j \in Job
  PROVE  /\ Answers(j) \in Nat /\ Records(j) \in Nat
         /\ Answers(j) = 0 => \A kind : Only(j, kind)
<1>1. responses[j] \in Seq(ResponseEntry) /\ dlq[j] \in Seq(Prefix)
  BY DEF PipelineTypeOK
<1> QED
  BY <1>1 DEF Answers, Records, Only

(* Nothing is reported.                                                    *)
LEMMA QuietEffect ==
  ASSUME NEW j \in Job, UNCHANGED responses
  PROVE  /\ Answers(j)' = Answers(j)
         /\ \A kind : Only(j, kind)' <=> Only(j, kind)
BY DEF Answers, Only

(* Nothing is recorded.                                                    *)
LEMMA UnrecordedEffect ==
  ASSUME NEW j \in Job, UNCHANGED dlq
  PROVE  Records(j)' = Records(j)
BY DEF Records

(* One command of a call that has not answered keeps the bounds.           *)
LEMMA BoundsKept ==
  ASSUME NEW a \in Nat, NEW q \in Nat, NEW n \in Nat, NEW next \in Nat,
         NEW e \in Nat, n <= next, e <= 1 + next - n, a = 0 \/ e = 0,
         a <= 1 + n, q <= 1 + n, a + q <= 2 + n
  PROVE  a + e <= 1 + next /\ q <= 1 + next /\ (a + e) + q <= 2 + next
OBVIOUS

CallReports(j) == StageInv(j) /\ CountInv(j) /\ CauseInv(j)

(* Only a call that runs makes a step, and it goes on running or ends.     *)
LEMMA ServiceRuns ==
  ASSUME PipelineInv, NEW j \in Job, ServiceStep(j)
  PROVE  pc[j] \in RunningPc /\ pc'[j] \in RunningPc \union {"done"}
BY DEF ServiceStep, AcquireQueryLock, HandleDuplicateProcessing, CheckRateLimit,
       GetFromCache, FetchPost, SetCache, InvalidateCache, PublishResponse,
       ReleaseQueryLock, HandleErrorAndPublish, ReleaseAfterError,
       ServiceAddToDLQ, PipelineInv, PipelineTypeOK, Goto, Return, RunningPc,
       ConsumerPc, ServicePc

(* So does a step of the consumer.                                         *)
LEMMA ConsumerRuns ==
  ASSUME PipelineInv, NEW j \in Job, ConsumerStep(j)
  PROVE  pc[j] \in RunningPc /\ pc'[j] \in RunningPc \union {"done"}
BY DEF ConsumerStep, ClaimJob, CheckDlqDuplicate, AnswerDlqDuplicate,
       AnswerLockFailed, AnswerAndReturn, TryConsumerLock, Validate, ProcessJob,
       AnswerInvalid, RecheckDlqDuplicate, InvalidToDLQ, CatchToDLQ,
           CatchAnswer,
       ReleaseConsumerLock, PipelineInv, PipelineTypeOK, Goto, Return,
           RunningPc,
       ConsumerPc, ServicePc

(* A client that has ended stays so for a call, whatever the others do.    *)
LEMMA EndedStays ==
  ASSUME NEW j \in Job, TouchesOnly(j), pc[j] # "crashed"
  PROVE  /\ \A other \in Job : ClientEnded(other) => ClientEnded(other)'
         /\ ~Up(j)' => ClientEnded(j)'
BY DEF TouchesOnly, ClientEnded, Up

(* Nor does a crash undo it, which gives the worker a new client: the call *)
(* that died with the old one remains.                                     *)
LEMMA CrashKeepsEnded ==
  ASSUME PipelineTypeOK, NEW w \in Worker, Crash(w)
  PROVE  \A j \in Job : ClientEnded(j) => ClientEnded(j)'
<1> SUFFICES ASSUME NEW j \in Job, ClientEnded(j)
             PROVE  ClientEnded(j)'
  OBVIOUS
<1>1. \A v \in Worker : v = w \/ link'[v] = link[v]
  BY DEF Crash, PipelineTypeOK
<1>2. \A other \in Job : pc[other] = "crashed" => pc'[other] = "crashed"
  BY DEF Crash
<1>3. \E other \in Job : WorkerOf[other] = w /\ pc'[other] = "crashed"
  BY DEF Crash
<1> QED
  BY <1>1, <1>2, <1>3 DEF ClientEnded, Up

(* The service reports what its stages say.                                *)
LEMMA ServiceReports ==
  ASSUME PipelineInv, ReportInv, NEW j \in Job, ServiceStep(j)
  PROVE  CallReports(j)'
<1> USE DEF Goto, Return, streamVars, keyVars, linkVars, SilentPc
<1>t. /\ PipelineTypeOK /\ CallInv
      /\ pc \in [Job -> PC] /\ outcome \in [Job -> Outcome \union {None}]
  BY DEF PipelineInv, PipelineTypeOK
<1>a. TouchesOnly(j) /\ pc[j] # "crashed"
  BY ServiceTouches, ServiceRuns DEF RunningPc, ConsumerPc, ServicePc
<1>x. /\ ClientEnded(j) => ClientEnded(j)'
      /\ ~Up(j)' => ClientEnded(j)'
  BY <1>a, EndedStays
<1>b. StageInv(j) /\ CountInv(j) /\ CauseInv(j)
  BY DEF ReportInv
<1>c. (Up(j)' => Up(j)) /\ WorkerOf[j] \in Worker
  BY <1>a DEF TouchesOnly, Up
<1>d. /\ Answers(j) \in Nat /\ Records(j) \in Nat
      /\ resends \in Nat /\ resends' \in Nat /\ resends' >= resends
  BY <1>t, <1>a, LengthsTyped DEF TouchesOnly
<1>e. Answers(j) = 0 => Only(j, "error") /\ Only(j, "success")
  BY <1>t, LengthsTyped
<1>n. /\ Answers(j) <= 1 + resends /\ Records(j) <= 1 + resends
      /\ Answers(j) + Records(j) <= 2 + resends
  BY <1>b DEF CountInv
<1>1. ASSUME AcquireQueryLock(j)
      PROVE  CallReports(j)'
  <2>1. /\ Answers(j)' = Answers(j) /\ Records(j)' = Records(j)
        /\ \A kind : Only(j, kind)' <=> Only(j, kind)
    BY <1>1, QuietEffect, UnrecordedEffect DEF AcquireQueryLock
  <2>2. StageInv(j)'
    BY <1>1, <1>t, <1>b, <1>c, <1>d, <2>1, CommandEffect
       DEF AcquireQueryLock, StageInv, Silent, Refused
  <2>3. CountInv(j)' /\ CauseInv(j)'
    BY <1>1, <1>t, <1>a, <1>b, <1>x, <1>d, <2>1
       DEF AcquireQueryLock, CountInv, CauseInv, TouchesOnly
  <2> QED
    BY <2>2, <2>3 DEF CallReports
<1>2. ASSUME HandleDuplicateProcessing(j)
      PROVE  CallReports(j)'
  <2>1. PICK r \in Reply :
          /\ Command(j, r)
          /\ Respond(j, ErrorEntry(j, Danbooru), r)
          /\ IF Threw(r) THEN Goto(j, "catchDlq") /\ UNCHANGED outcome
                         ELSE Return(j, "busy")
    BY <1>2 DEF HandleDuplicateProcessing
  <2> DEFINE e == ErrorEntry(j, Danbooru)
  <2>2. e \in ResponseEntry /\ e.kind = "error"
    BY <1>2, <1>t, KeysTyped, EntriesTyped
       DEF HandleDuplicateProcessing, CallInv, HasMessage, HasPost, RunningPc,
              ConsumerPc, ServicePc,
           ErrorEntry, SuccessEntry
  <2> HIDE DEF e
  <2>3. Answers(j)' = Answers(j) + Executions(r)
    BY <1>t, <2>1, <2>2, RespondEffect DEF e
  <2>9. /\ Only(j, "error")' <=>
             Only(j, "error") /\ (Executions(r) = 0 \/ e.kind = "error")
        /\ Only(j, "success")' <=>
             Only(j, "success") /\ (Executions(r) = 0 \/ e.kind = "success")
    BY <1>t, <2>1, <2>2, RespondEffect DEF e
  <2>4. /\ Executions(r) \in Nat /\ Executions(r) <= 1 + resends' - resends
        /\ Up(j) <=> Executions(r) > 0
        /\ Threw(r) <=> ~Up(j)'
    BY <1>t, <2>1, CommandEffect
  <2>5. Records(j)' = Records(j)
    BY <1>2, UnrecordedEffect DEF HandleDuplicateProcessing
  <2>6. StageInv(j)'
    BY <1>2, <1>t, <1>b, <1>c, <1>d, <2>1, <2>2, <2>3, <2>4, <2>5, <2>9
       DEF HandleDuplicateProcessing, StageInv, Silent, Refused
  <2>7. CountInv(j)'
    <3>1. Records(j) = 0 /\ (Answers(j) = 0 \/ Executions(r) = 0)
      BY <1>2, <1>b, <1>d, <2>4 DEF HandleDuplicateProcessing, StageInv, Silent
    <3>2. Only(j, "error")' \/ (Only(j, "success")' /\ Records(j)' = 0)
      BY <1>b, <1>e, <2>2, <2>9, <2>5, <3>1 DEF CountInv
    <3>3. /\ Answers(j)' <= 1 + resends'
          /\ Records(j)' <= 1 + resends'
          /\ Answers(j)' + Records(j)' <= 2 + resends'
      <4>1. Answers(j) = 0 \/ Executions(r) = 0
        BY <3>1
      <4>2. Executions(r) \in Nat /\ Executions(r) <= 1 + resends' - resends
        BY <2>4
      <4> QED
        BY <1>d, <1>n, <2>3, <2>5, <4>1, <4>2, BoundsKept
    <3> QED
      BY <3>2, <3>3 DEF CountInv
  <2>8. CauseInv(j)'
    BY <1>2, <1>t, <1>a, <1>b, <1>x, <2>1, <2>4
       DEF HandleDuplicateProcessing, CauseInv, TouchesOnly
  <2> QED
    BY <2>6, <2>7, <2>8 DEF CallReports
<1>3. ASSUME CheckRateLimit(j)
      PROVE  CallReports(j)'
  <2>1. /\ Answers(j)' = Answers(j) /\ Records(j)' = Records(j)
        /\ \A kind : Only(j, kind)' <=> Only(j, kind)
    BY <1>3, QuietEffect, UnrecordedEffect DEF CheckRateLimit
  <2>2. StageInv(j)'
    BY <1>3, <1>t, <1>b, <1>c, <1>d, <2>1, CommandEffect
       DEF CheckRateLimit, StageInv, Silent, Refused
  <2>3. CountInv(j)' /\ CauseInv(j)'
    BY <1>3, <1>t, <1>a, <1>b, <1>x, <1>d, <2>1
       DEF CheckRateLimit, CountInv, CauseInv, TouchesOnly
  <2> QED
    BY <2>2, <2>3 DEF CallReports
<1>4. ASSUME GetFromCache(j)
      PROVE  CallReports(j)'
  <2>1. /\ Answers(j)' = Answers(j) /\ Records(j)' = Records(j)
        /\ \A kind : Only(j, kind)' <=> Only(j, kind)
    BY <1>4, QuietEffect, UnrecordedEffect DEF GetFromCache, CacheThrows
  <2>2. StageInv(j)'
    BY <1>4, <1>t, <1>b, <1>c, <1>d, <2>1, CommandEffect
       DEF GetFromCache, CacheThrows, StageInv, Silent, Refused
  <2>3. CountInv(j)' /\ CauseInv(j)'
    BY <1>4, <1>t, <1>a, <1>b, <1>x, <1>d, <2>1
       DEF GetFromCache, CacheThrows, CountInv, CauseInv, TouchesOnly
  <2> QED
    BY <2>2, <2>3 DEF CallReports
<1>5. ASSUME FetchPost(j)
      PROVE  CallReports(j)'
  <2>1. /\ Answers(j)' = Answers(j) /\ Records(j)' = Records(j)
        /\ \A kind : Only(j, kind)' <=> Only(j, kind)
    BY <1>5, QuietEffect, UnrecordedEffect DEF FetchPost
  <2>2. StageInv(j)'
    BY <1>5, <1>t, <1>b, <1>c, <1>d, <2>1, CommandEffect
       DEF FetchPost, StageInv, Silent, Refused
  <2>3. CountInv(j)' /\ CauseInv(j)'
    BY <1>5, <1>t, <1>a, <1>b, <1>x, <1>d, <2>1
       DEF FetchPost, CountInv, CauseInv, TouchesOnly
  <2> QED
    BY <2>2, <2>3 DEF CallReports
<1>6. ASSUME SetCache(j)
      PROVE  CallReports(j)'
  <2>1. /\ Answers(j)' = Answers(j) /\ Records(j)' = Records(j)
        /\ \A kind : Only(j, kind)' <=> Only(j, kind)
    BY <1>6, QuietEffect, UnrecordedEffect DEF SetCache, CacheThrows
  <2>2. StageInv(j)'
    BY <1>6, <1>t, <1>b, <1>c, <1>d, <2>1, CommandEffect
       DEF SetCache, CacheThrows, StageInv, Silent, Refused
  <2>3. CountInv(j)' /\ CauseInv(j)'
    BY <1>6, <1>t, <1>a, <1>b, <1>x, <1>d, <2>1
       DEF SetCache, CacheThrows, CountInv, CauseInv, TouchesOnly
  <2> QED
    BY <2>2, <2>3 DEF CallReports
<1>7. ASSUME InvalidateCache(j)
      PROVE  CallReports(j)'
  <2>1. /\ Answers(j)' = Answers(j) /\ Records(j)' = Records(j)
        /\ \A kind : Only(j, kind)' <=> Only(j, kind)
    BY <1>7, QuietEffect, UnrecordedEffect DEF InvalidateCache
  <2>2. StageInv(j)'
    BY <1>7, <1>t, <1>b, <1>c, <1>d, <2>1, CommandEffect
       DEF InvalidateCache, StageInv, Silent, Refused
  <2>3. CountInv(j)' /\ CauseInv(j)'
    BY <1>7, <1>t, <1>a, <1>b, <1>x, <1>d, <2>1
       DEF InvalidateCache, CountInv, CauseInv, TouchesOnly
  <2> QED
    BY <2>2, <2>3 DEF CallReports
<1>8. ASSUME PublishResponse(j)
      PROVE  CallReports(j)'
  <2>1. PICK r \in Reply :
          /\ Command(j, r)
          /\ Respond(j, SuccessEntry(j), r)
          /\ Goto(j, IF Threw(r) THEN "svcErrorAnswer" ELSE "svcRelease")
          /\ outcome' = IF Threw(r) THEN outcome
                        ELSE [outcome EXCEPT ![j] = "posted"]
    BY <1>8 DEF PublishResponse
  <2> DEFINE e == SuccessEntry(j)
  <2>2. e \in ResponseEntry /\ e.kind = "success"
    BY <1>8, <1>t, KeysTyped, EntriesTyped
       DEF PublishResponse, CallInv, HasMessage, HasPost, RunningPc,
              ConsumerPc, ServicePc,
           ErrorEntry, SuccessEntry
  <2> HIDE DEF e
  <2>3. Answers(j)' = Answers(j) + Executions(r)
    BY <1>t, <2>1, <2>2, RespondEffect DEF e
  <2>9. /\ Only(j, "error")' <=>
             Only(j, "error") /\ (Executions(r) = 0 \/ e.kind = "error")
        /\ Only(j, "success")' <=>
             Only(j, "success") /\ (Executions(r) = 0 \/ e.kind = "success")
    BY <1>t, <2>1, <2>2, RespondEffect DEF e
  <2>4. /\ Executions(r) \in Nat /\ Executions(r) <= 1 + resends' - resends
        /\ Up(j) <=> Executions(r) > 0
        /\ Threw(r) <=> ~Up(j)'
    BY <1>t, <2>1, CommandEffect
  <2>5. Records(j)' = Records(j)
    BY <1>8, UnrecordedEffect DEF PublishResponse
  <2>6. StageInv(j)'
    BY <1>8, <1>t, <1>b, <1>c, <1>d, <2>1, <2>2, <2>3, <2>4, <2>5, <2>9
       DEF PublishResponse, StageInv, Silent, Refused
  <2>7. CountInv(j)'
    <3>1. Records(j) = 0 /\ (Answers(j) = 0 \/ Executions(r) = 0)
      BY <1>8, <1>b, <1>d, <2>4 DEF PublishResponse, StageInv, Silent
    <3>2. Only(j, "error")' \/ (Only(j, "success")' /\ Records(j)' = 0)
      BY <1>b, <1>e, <2>2, <2>9, <2>5, <3>1 DEF CountInv
    <3>3. /\ Answers(j)' <= 1 + resends'
          /\ Records(j)' <= 1 + resends'
          /\ Answers(j)' + Records(j)' <= 2 + resends'
      <4>1. Answers(j) = 0 \/ Executions(r) = 0
        BY <3>1
      <4>2. Executions(r) \in Nat /\ Executions(r) <= 1 + resends' - resends
        BY <2>4
      <4> QED
        BY <1>d, <1>n, <2>3, <2>5, <4>1, <4>2, BoundsKept
    <3> QED
      BY <3>2, <3>3 DEF CountInv
  <2>8. CauseInv(j)'
    BY <1>8, <1>t, <1>a, <1>b, <1>x, <2>1, <2>4
       DEF PublishResponse, CauseInv, TouchesOnly
  <2> QED
    BY <2>6, <2>7, <2>8 DEF CallReports
<1>9. ASSUME ReleaseQueryLock(j)
      PROVE  CallReports(j)'
  <2>1. /\ Answers(j)' = Answers(j) /\ Records(j)' = Records(j)
        /\ \A kind : Only(j, kind)' <=> Only(j, kind)
    BY <1>9, QuietEffect, UnrecordedEffect DEF ReleaseQueryLock
  <2>2. StageInv(j)'
    BY <1>9, <1>t, <1>b, <1>c, <1>d, <2>1, CommandEffect
       DEF ReleaseQueryLock, StageInv, Silent, Refused
  <2>3. CountInv(j)'
    BY <1>9, <1>b, <1>d, <1>n, <1>t, <2>1, CommandEffect
       DEF ReleaseQueryLock, CountInv
  <2>4. CauseInv(j)'
    <3>1. outcome[j] # "thrown" /\ outcome'[j] = outcome[j]
      BY <1>9, <1>b, <1>t DEF ReleaseQueryLock, StageInv
    <3> QED
      BY <3>1 DEF CauseInv
  <2> QED
    BY <2>2, <2>3, <2>4 DEF CallReports
<1>10. ASSUME HandleErrorAndPublish(j)
      PROVE  CallReports(j)'
  <2>1. PICK r \in Reply :
          /\ Command(j, r)
          /\ Respond(j, ErrorEntry(j, Danbooru), r)
          /\ outcome' = [outcome EXCEPT ![j] =
                           IF Threw(r) THEN "thrown" ELSE "svcFailed"]
    BY <1>10 DEF HandleErrorAndPublish
  <2> DEFINE e == ErrorEntry(j, Danbooru)
  <2>2. e \in ResponseEntry /\ e.kind = "error"
    BY <1>10, <1>t, KeysTyped, EntriesTyped
       DEF HandleErrorAndPublish, CallInv, HasMessage, HasPost, RunningPc,
              ConsumerPc, ServicePc,
           ErrorEntry, SuccessEntry
  <2> HIDE DEF e
  <2>3. Answers(j)' = Answers(j) + Executions(r)
    BY <1>t, <2>1, <2>2, RespondEffect DEF e
  <2>9. /\ Only(j, "error")' <=>
             Only(j, "error") /\ (Executions(r) = 0 \/ e.kind = "error")
        /\ Only(j, "success")' <=>
             Only(j, "success") /\ (Executions(r) = 0 \/ e.kind = "success")
    BY <1>t, <2>1, <2>2, RespondEffect DEF e
  <2>4. /\ Executions(r) \in Nat /\ Executions(r) <= 1 + resends' - resends
        /\ Up(j) <=> Executions(r) > 0
        /\ Threw(r) <=> ~Up(j)'
    BY <1>t, <2>1, CommandEffect
  <2>5. Records(j)' = Records(j)
    BY <1>10, UnrecordedEffect DEF HandleErrorAndPublish
  <2>6. StageInv(j)'
    <3>1. Records(j) = 0 /\ (Silent(j) \/ ~Up(j))
      BY <1>10, <1>b DEF HandleErrorAndPublish, StageInv, Silent
    <3>2. ~Threw(r) => Refused(j)'
      BY <1>c, <1>d, <1>e, <2>2, <2>3, <2>4, <2>5, <2>9, <3>1
         DEF Silent, Refused
    <3>3. /\ pc'[j] = "svcErrorRelease"
          /\ outcome'[j] = IF Threw(r) THEN "thrown" ELSE "svcFailed"
      BY <1>10, <1>t, <2>1 DEF HandleErrorAndPublish
    <3> QED
      BY <2>4, <2>5, <3>1, <3>2, <3>3 DEF StageInv
  <2>7. CountInv(j)'
    <3>1. Records(j) = 0 /\ (Answers(j) = 0 \/ Executions(r) = 0)
      BY <1>10, <1>b, <1>d, <2>4 DEF HandleErrorAndPublish, StageInv, Silent
    <3>2. Only(j, "error")' \/ (Only(j, "success")' /\ Records(j)' = 0)
      BY <1>b, <1>e, <2>2, <2>9, <2>5, <3>1 DEF CountInv
    <3>3. /\ Answers(j)' <= 1 + resends'
          /\ Records(j)' <= 1 + resends'
          /\ Answers(j)' + Records(j)' <= 2 + resends'
      <4>1. Answers(j) = 0 \/ Executions(r) = 0
        BY <3>1
      <4>2. Executions(r) \in Nat /\ Executions(r) <= 1 + resends' - resends
        BY <2>4
      <4> QED
        BY <1>d, <1>n, <2>3, <2>5, <4>1, <4>2, BoundsKept
    <3> QED
      BY <3>2, <3>3 DEF CountInv
  <2>8. CauseInv(j)'
    BY <1>10, <1>t, <1>a, <1>b, <1>x, <2>1, <2>4
       DEF HandleErrorAndPublish, CauseInv, TouchesOnly
  <2> QED
    BY <2>6, <2>7, <2>8 DEF CallReports
<1>11. ASSUME ReleaseAfterError(j)
      PROVE  CallReports(j)'
  <2>1. /\ Answers(j)' = Answers(j) /\ Records(j)' = Records(j)
        /\ \A kind : Only(j, kind)' <=> Only(j, kind)
    BY <1>11, QuietEffect, UnrecordedEffect DEF ReleaseAfterError
  <2>2. StageInv(j)'
    BY <1>11, <1>t, <1>b, <1>c, <1>d, <2>1, CommandEffect
       DEF ReleaseAfterError, StageInv, Silent, Refused
  <2>3. CountInv(j)' /\ CauseInv(j)'
    BY <1>11, <1>t, <1>a, <1>b, <1>x, <1>d, <2>1
       DEF ReleaseAfterError, CountInv, CauseInv, TouchesOnly
  <2> QED
    BY <2>2, <2>3 DEF CallReports
<1>12. ASSUME ServiceAddToDLQ(j)
      PROVE  CallReports(j)'
  <2>1. Danbooru \in Prefix
    BY <1>12, <1>t, KeysTyped, EntriesTyped
       DEF ServiceAddToDLQ, CallInv, HasMessage, RunningPc, ConsumerPc
  <2>2. PICK failed \in BOOLEAN :
          /\ AddToDLQ(j, Danbooru, failed)
          /\ IF failed THEN Goto(j, "catchDlq") /\ UNCHANGED outcome
                       ELSE Return(j, "svcFailed")
    BY <1>12 DEF ServiceAddToDLQ
  <2>3. /\ Records(j)' \in Nat
        /\ Records(j)' <= Records(j) + 1 + resends' - resends
        /\ ~Up(j) \/ ~EncryptionKey => Records(j)' = Records(j) /\ failed
        /\ failed => ~Up(j)' \/ ~EncryptionKey
    BY <1>t, <2>1, <2>2, RecordEffect
  <2>4. Answers(j)' = Answers(j) /\ \A kind : Only(j, kind)' <=> Only(j, kind)
    BY <1>12, QuietEffect DEF ServiceAddToDLQ
  <2>5. StageInv(j)'
    BY <1>12, <1>t, <1>b, <1>c, <1>d, <2>2, <2>3, <2>4
       DEF ServiceAddToDLQ, StageInv, Silent, Refused
  <2>6. CountInv(j)'
    <3>1. Only(j, "error") /\ Records(j) = 0
      BY <1>12, <1>b, <2>2, <2>3 DEF ServiceAddToDLQ, StageInv, Silent, Refused
    <3>2. Only(j, "error")' \/ (Only(j, "success")' /\ Records(j)' = 0)
      BY <1>b, <1>e, <2>4, <3>1 DEF CountInv
    <3> QED
      BY <1>b, <1>d, <2>3, <2>4, <3>1, <3>2 DEF CountInv
  <2>7. CauseInv(j)'
    BY <1>12, <1>t, <1>a, <1>b, <1>x, <2>2, <2>3
       DEF ServiceAddToDLQ, CauseInv, TouchesOnly
  <2> QED
    BY <2>5, <2>6, <2>7 DEF CallReports
<1> QED
  BY <1>1, <1>2, <1>3, <1>4, <1>5, <1>6, <1>7, <1>8, <1>9, <1>10, <1>11, <1>12
     DEF ServiceStep

(* So does the consumer.                                                   *)
LEMMA ConsumerReports ==
  ASSUME PipelineInv, ReportInv, NEW j \in Job, ConsumerStep(j)
  PROVE  CallReports(j)'
<1> USE DEF Goto, Return, streamVars, keyVars, linkVars, SilentPc
<1>t. /\ PipelineTypeOK /\ CallInv
      /\ pc \in [Job -> PC] /\ outcome \in [Job -> Outcome \union {None}]
  BY DEF PipelineInv, PipelineTypeOK
<1>a. TouchesOnly(j) /\ pc[j] # "crashed"
  BY ConsumerTouches, ConsumerRuns DEF RunningPc, ConsumerPc, ServicePc
<1>x. /\ ClientEnded(j) => ClientEnded(j)'
      /\ ~Up(j)' => ClientEnded(j)'
  BY <1>a, EndedStays
<1>b. StageInv(j) /\ CountInv(j) /\ CauseInv(j)
  BY DEF ReportInv
<1>c. (Up(j)' => Up(j)) /\ WorkerOf[j] \in Worker
  BY <1>a DEF TouchesOnly, Up
<1>d. /\ Answers(j) \in Nat /\ Records(j) \in Nat
      /\ resends \in Nat /\ resends' \in Nat /\ resends' >= resends
  BY <1>t, <1>a, LengthsTyped DEF TouchesOnly
<1>e. Answers(j) = 0 => Only(j, "error") /\ Only(j, "success")
  BY <1>t, LengthsTyped
<1>n. /\ Answers(j) <= 1 + resends /\ Records(j) <= 1 + resends
      /\ Answers(j) + Records(j) <= 2 + resends
  BY <1>b DEF CountInv
<1>1. ASSUME ClaimJob(j)
      PROVE  CallReports(j)'
  <2>1. /\ Answers(j)' = Answers(j) /\ Records(j)' = Records(j)
        /\ \A kind : Only(j, kind)' <=> Only(j, kind)
    BY <1>1, QuietEffect, UnrecordedEffect DEF ClaimJob
  <2>2. StageInv(j)'
    BY <1>1, <1>t, <1>b, <1>c, <1>d, <2>1, CommandEffect
       DEF ClaimJob, StageInv, Silent, Refused
  <2>3. CountInv(j)' /\ CauseInv(j)'
    BY <1>1, <1>t, <1>a, <1>b, <1>x, <1>d, <2>1
       DEF ClaimJob, CountInv, CauseInv, TouchesOnly
  <2> QED
    BY <2>2, <2>3 DEF CallReports
<1>2. ASSUME CheckDlqDuplicate(j)
      PROVE  CallReports(j)'
  <2>1. /\ Answers(j)' = Answers(j) /\ Records(j)' = Records(j)
        /\ \A kind : Only(j, kind)' <=> Only(j, kind)
    BY <1>2, QuietEffect, UnrecordedEffect
       DEF CheckDlqDuplicate, DedupCheck, Duplicate
  <2>2. StageInv(j)'
    BY <1>2, <1>t, <1>b, <1>c, <1>d, <2>1, CommandEffect
       DEF CheckDlqDuplicate, DedupCheck, Duplicate, StageInv, Silent, Refused
  <2>3. CountInv(j)' /\ CauseInv(j)'
    BY <1>2, <1>t, <1>a, <1>b, <1>x, <1>d, <2>1
       DEF CheckDlqDuplicate, DedupCheck, Duplicate, CountInv, CauseInv,
           TouchesOnly
  <2> QED
    BY <2>2, <2>3 DEF CallReports
<1>3. ASSUME AnswerDlqDuplicate(j)
      PROVE  CallReports(j)'
  <2>1. PICK r \in Reply :
          /\ Command(j, r)
          /\ Respond(j, ErrorEntry(j, apiPrefix(j)), r)
          /\ IF Threw(r) THEN Goto(j, "catchDlq") /\ UNCHANGED outcome
                         ELSE Return(j, "duplicateQuery")
    BY <1>3 DEF AnswerDlqDuplicate, AnswerAndReturn
  <2> DEFINE e == ErrorEntry(j, apiPrefix(j))
  <2>2. e \in ResponseEntry /\ e.kind = "error"
    BY <1>3, <1>t, KeysTyped, EntriesTyped
       DEF AnswerDlqDuplicate, AnswerAndReturn, CallInv, HasMessage, HasPost,
              RunningPc, ConsumerPc, ServicePc,
           ErrorEntry, SuccessEntry
  <2> HIDE DEF e
  <2>3. Answers(j)' = Answers(j) + Executions(r)
    BY <1>t, <2>1, <2>2, RespondEffect DEF e
  <2>9. /\ Only(j, "error")' <=>
             Only(j, "error") /\ (Executions(r) = 0 \/ e.kind = "error")
        /\ Only(j, "success")' <=>
             Only(j, "success") /\ (Executions(r) = 0 \/ e.kind = "success")
    BY <1>t, <2>1, <2>2, RespondEffect DEF e
  <2>4. /\ Executions(r) \in Nat /\ Executions(r) <= 1 + resends' - resends
        /\ Up(j) <=> Executions(r) > 0
        /\ Threw(r) <=> ~Up(j)'
    BY <1>t, <2>1, CommandEffect
  <2>5. Records(j)' = Records(j)
    BY <1>3, UnrecordedEffect DEF AnswerDlqDuplicate, AnswerAndReturn
  <2>6. StageInv(j)'
    BY <1>3, <1>t, <1>b, <1>c, <1>d, <2>1, <2>2, <2>3, <2>4, <2>5, <2>9
       DEF AnswerDlqDuplicate, AnswerAndReturn, StageInv, Silent, Refused
  <2>7. CountInv(j)'
    <3>1. Records(j) = 0 /\ (Answers(j) = 0 \/ Executions(r) = 0)
      BY <1>3, <1>b, <1>d, <2>4
         DEF AnswerDlqDuplicate, AnswerAndReturn, StageInv, Silent
    <3>2. Only(j, "error")' \/ (Only(j, "success")' /\ Records(j)' = 0)
      BY <1>b, <1>e, <2>2, <2>9, <2>5, <3>1 DEF CountInv
    <3>3. /\ Answers(j)' <= 1 + resends'
          /\ Records(j)' <= 1 + resends'
          /\ Answers(j)' + Records(j)' <= 2 + resends'
      <4>1. Answers(j) = 0 \/ Executions(r) = 0
        BY <3>1
      <4>2. Executions(r) \in Nat /\ Executions(r) <= 1 + resends' - resends
        BY <2>4
      <4> QED
        BY <1>d, <1>n, <2>3, <2>5, <4>1, <4>2, BoundsKept
    <3> QED
      BY <3>2, <3>3 DEF CountInv
  <2>8. CauseInv(j)'
    BY <1>3, <1>t, <1>a, <1>b, <1>x, <2>1, <2>4
       DEF AnswerDlqDuplicate, AnswerAndReturn, CauseInv, TouchesOnly
  <2> QED
    BY <2>6, <2>7, <2>8 DEF CallReports
<1>4. ASSUME AnswerLockFailed(j)
      PROVE  CallReports(j)'
  <2>1. PICK r \in Reply :
          /\ Command(j, r)
          /\ Respond(j, ErrorEntry(j, apiPrefix(j)), r)
          /\ IF Threw(r) THEN Goto(j, "catchDlq") /\ UNCHANGED outcome
                         ELSE Return(j, "lockFailed")
    BY <1>4 DEF AnswerLockFailed, AnswerAndReturn
  <2> DEFINE e == ErrorEntry(j, apiPrefix(j))
  <2>2. e \in ResponseEntry /\ e.kind = "error"
    BY <1>4, <1>t, KeysTyped, EntriesTyped
       DEF AnswerLockFailed, AnswerAndReturn, CallInv, HasMessage, HasPost,
              RunningPc, ConsumerPc, ServicePc,
           ErrorEntry, SuccessEntry
  <2> HIDE DEF e
  <2>3. Answers(j)' = Answers(j) + Executions(r)
    BY <1>t, <2>1, <2>2, RespondEffect DEF e
  <2>9. /\ Only(j, "error")' <=>
             Only(j, "error") /\ (Executions(r) = 0 \/ e.kind = "error")
        /\ Only(j, "success")' <=>
             Only(j, "success") /\ (Executions(r) = 0 \/ e.kind = "success")
    BY <1>t, <2>1, <2>2, RespondEffect DEF e
  <2>4. /\ Executions(r) \in Nat /\ Executions(r) <= 1 + resends' - resends
        /\ Up(j) <=> Executions(r) > 0
        /\ Threw(r) <=> ~Up(j)'
    BY <1>t, <2>1, CommandEffect
  <2>5. Records(j)' = Records(j)
    BY <1>4, UnrecordedEffect DEF AnswerLockFailed, AnswerAndReturn
  <2>6. StageInv(j)'
    BY <1>4, <1>t, <1>b, <1>c, <1>d, <2>1, <2>2, <2>3, <2>4, <2>5, <2>9
       DEF AnswerLockFailed, AnswerAndReturn, StageInv, Silent, Refused
  <2>7. CountInv(j)'
    <3>1. Records(j) = 0 /\ (Answers(j) = 0 \/ Executions(r) = 0)
      BY <1>4, <1>b, <1>d, <2>4
         DEF AnswerLockFailed, AnswerAndReturn, StageInv, Silent
    <3>2. Only(j, "error")' \/ (Only(j, "success")' /\ Records(j)' = 0)
      BY <1>b, <1>e, <2>2, <2>9, <2>5, <3>1 DEF CountInv
    <3>3. /\ Answers(j)' <= 1 + resends'
          /\ Records(j)' <= 1 + resends'
          /\ Answers(j)' + Records(j)' <= 2 + resends'
      <4>1. Answers(j) = 0 \/ Executions(r) = 0
        BY <3>1
      <4>2. Executions(r) \in Nat /\ Executions(r) <= 1 + resends' - resends
        BY <2>4
      <4> QED
        BY <1>d, <1>n, <2>3, <2>5, <4>1, <4>2, BoundsKept
    <3> QED
      BY <3>2, <3>3 DEF CountInv
  <2>8. CauseInv(j)'
    BY <1>4, <1>t, <1>a, <1>b, <1>x, <2>1, <2>4
       DEF AnswerLockFailed, AnswerAndReturn, CauseInv, TouchesOnly
  <2> QED
    BY <2>6, <2>7, <2>8 DEF CallReports
<1>5. ASSUME TryConsumerLock(j)
      PROVE  CallReports(j)'
  <2>1. /\ Answers(j)' = Answers(j) /\ Records(j)' = Records(j)
        /\ \A kind : Only(j, kind)' <=> Only(j, kind)
    BY <1>5, QuietEffect, UnrecordedEffect DEF TryConsumerLock
  <2>2. StageInv(j)'
    BY <1>5, <1>t, <1>b, <1>c, <1>d, <2>1, CommandEffect
       DEF TryConsumerLock, StageInv, Silent, Refused
  <2>3. CountInv(j)' /\ CauseInv(j)'
    BY <1>5, <1>t, <1>a, <1>b, <1>x, <1>d, <2>1
       DEF TryConsumerLock, CountInv, CauseInv, TouchesOnly
  <2> QED
    BY <2>2, <2>3 DEF CallReports
<1>6. ASSUME Validate(j)
      PROVE  CallReports(j)'
  <2>1. /\ Answers(j)' = Answers(j) /\ Records(j)' = Records(j)
        /\ \A kind : Only(j, kind)' <=> Only(j, kind)
    BY <1>6, QuietEffect, UnrecordedEffect DEF Validate, ProcessJob
  <2>2. StageInv(j)'
    BY <1>6, <1>t, <1>b, <1>c, <1>d, <2>1, CommandEffect
       DEF Validate, ProcessJob, StageInv, Silent, Refused
  <2>3. CountInv(j)' /\ CauseInv(j)'
    BY <1>6, <1>t, <1>a, <1>b, <1>x, <1>d, <2>1
       DEF Validate, ProcessJob, CountInv, CauseInv, TouchesOnly
  <2> QED
    BY <2>2, <2>3 DEF CallReports
<1>7. ASSUME AnswerInvalid(j)
      PROVE  CallReports(j)'
  <2>1. PICK r \in Reply, named \in {j, None} :
          /\ Command(j, r)
          /\ Respond(j, [ErrorEntry(j, apiPrefix(j)) EXCEPT !.jobId = named], r)
          /\ Goto(j, IF Threw(r) THEN "catchDlq" ELSE "recheck")
    BY <1>7 DEF AnswerInvalid
  <2> DEFINE e == [ErrorEntry(j, apiPrefix(j)) EXCEPT !.jobId = named]
  <2>2. e \in ResponseEntry /\ e.kind = "error"
    BY <1>7, <1>t, KeysTyped, EntriesTyped
       DEF AnswerInvalid, CallInv, HasMessage, HasPost, RunningPc, ConsumerPc,
              ServicePc,
           ErrorEntry, SuccessEntry
  <2> HIDE DEF e
  <2>3. Answers(j)' = Answers(j) + Executions(r)
    BY <1>t, <2>1, <2>2, RespondEffect DEF e
  <2>9. /\ Only(j, "error")' <=>
             Only(j, "error") /\ (Executions(r) = 0 \/ e.kind = "error")
        /\ Only(j, "success")' <=>
             Only(j, "success") /\ (Executions(r) = 0 \/ e.kind = "success")
    BY <1>t, <2>1, <2>2, RespondEffect DEF e
  <2>4. /\ Executions(r) \in Nat /\ Executions(r) <= 1 + resends' - resends
        /\ Up(j) <=> Executions(r) > 0
        /\ Threw(r) <=> ~Up(j)'
    BY <1>t, <2>1, CommandEffect
  <2>5. Records(j)' = Records(j)
    BY <1>7, UnrecordedEffect DEF AnswerInvalid
  <2>6. StageInv(j)'
    <3>1. Silent(j)
      BY <1>7, <1>b DEF AnswerInvalid, StageInv, Silent
    <3>2. ~Threw(r) => Refused(j)'
      BY <1>c, <1>d, <1>e, <2>2, <2>3, <2>4, <2>5, <2>9, <3>1
         DEF Silent, Refused
    <3>3. /\ pc'[j] = IF Threw(r) THEN "catchDlq" ELSE "recheck"
      BY <1>7, <1>t, <2>1 DEF AnswerInvalid
    <3> QED
      BY <2>4, <2>5, <3>1, <3>2, <3>3 DEF StageInv
  <2>7. CountInv(j)'
    <3>1. Records(j) = 0 /\ (Answers(j) = 0 \/ Executions(r) = 0)
      BY <1>7, <1>b, <1>d, <2>4 DEF AnswerInvalid, StageInv, Silent
    <3>2. Only(j, "error")' \/ (Only(j, "success")' /\ Records(j)' = 0)
      BY <1>b, <1>e, <2>2, <2>9, <2>5, <3>1 DEF CountInv
    <3>3. /\ Answers(j)' <= 1 + resends'
          /\ Records(j)' <= 1 + resends'
          /\ Answers(j)' + Records(j)' <= 2 + resends'
      <4>1. Answers(j) = 0 \/ Executions(r) = 0
        BY <3>1
      <4>2. Executions(r) \in Nat /\ Executions(r) <= 1 + resends' - resends
        BY <2>4
      <4> QED
        BY <1>d, <1>n, <2>3, <2>5, <4>1, <4>2, BoundsKept
    <3> QED
      BY <3>2, <3>3 DEF CountInv
  <2>8. CauseInv(j)'
    BY <1>7, <1>t, <1>a, <1>b, <1>x, <2>1, <2>4
       DEF AnswerInvalid, CauseInv, TouchesOnly
  <2> QED
    BY <2>6, <2>7, <2>8 DEF CallReports
<1>8. ASSUME RecheckDlqDuplicate(j)
      PROVE  CallReports(j)'
  <2>1. /\ Answers(j)' = Answers(j) /\ Records(j)' = Records(j)
        /\ \A kind : Only(j, kind)' <=> Only(j, kind)
    BY <1>8, QuietEffect, UnrecordedEffect
       DEF RecheckDlqDuplicate, DedupCheck, Duplicate
  <2>2. StageInv(j)'
    BY <1>8, <1>t, <1>b, <1>c, <1>d, <2>1, CommandEffect
       DEF RecheckDlqDuplicate, DedupCheck, Duplicate, StageInv, Silent, Refused
  <2>3. CountInv(j)' /\ CauseInv(j)'
    BY <1>8, <1>t, <1>a, <1>b, <1>x, <1>d, <2>1
       DEF RecheckDlqDuplicate, DedupCheck, Duplicate, CountInv, CauseInv,
           TouchesOnly
  <2> QED
    BY <2>2, <2>3 DEF CallReports
<1>9. ASSUME InvalidToDLQ(j)
      PROVE  CallReports(j)'
  <2>1. apiPrefix(j) \in Prefix
    BY <1>9, <1>t, KeysTyped, EntriesTyped
       DEF InvalidToDLQ, CallInv, HasMessage, RunningPc, ConsumerPc
  <2>2. PICK failed \in BOOLEAN :
          /\ AddToDLQ(j, apiPrefix(j), failed)
          /\ IF failed THEN Goto(j, "catchDlq") /\ UNCHANGED outcome
                       ELSE Return(j, "invalid")
    BY <1>9 DEF InvalidToDLQ
  <2>3. /\ Records(j)' \in Nat
        /\ Records(j)' <= Records(j) + 1 + resends' - resends
        /\ ~Up(j) \/ ~EncryptionKey => Records(j)' = Records(j) /\ failed
        /\ failed => ~Up(j)' \/ ~EncryptionKey
    BY <1>t, <2>1, <2>2, RecordEffect
  <2>4. Answers(j)' = Answers(j) /\ \A kind : Only(j, kind)' <=> Only(j, kind)
    BY <1>9, QuietEffect DEF InvalidToDLQ
  <2>5. StageInv(j)'
    BY <1>9, <1>t, <1>b, <1>c, <1>d, <2>2, <2>3, <2>4
       DEF InvalidToDLQ, StageInv, Silent, Refused
  <2>6. CountInv(j)'
    <3>1. Only(j, "error") /\ Records(j) = 0
      BY <1>9, <1>b, <2>2, <2>3 DEF InvalidToDLQ, StageInv, Silent, Refused
    <3>2. Only(j, "error")' \/ (Only(j, "success")' /\ Records(j)' = 0)
      BY <1>b, <1>e, <2>4, <3>1 DEF CountInv
    <3> QED
      BY <1>b, <1>d, <2>3, <2>4, <3>1, <3>2 DEF CountInv
  <2>7. CauseInv(j)'
    BY <1>9, <1>t, <1>a, <1>b, <1>x, <2>2, <2>3
       DEF InvalidToDLQ, CauseInv, TouchesOnly
  <2> QED
    BY <2>5, <2>6, <2>7 DEF CallReports
<1>10. ASSUME CatchToDLQ(j)
      PROVE  CallReports(j)'
  <2>1. apiPrefix(j) \in Prefix
    BY <1>10, <1>t, KeysTyped, EntriesTyped
       DEF CatchToDLQ, CallInv, HasMessage, RunningPc, ConsumerPc
  <2>2. PICK failed \in BOOLEAN :
          /\ AddToDLQ(j, apiPrefix(j), failed)
          /\ IF failed THEN Return(j, "thrown")
                       ELSE Goto(j, "catchAnswer") /\ UNCHANGED outcome
    BY <1>10 DEF CatchToDLQ
  <2>3. /\ Records(j)' \in Nat
        /\ Records(j)' <= Records(j) + 1 + resends' - resends
        /\ ~Up(j) \/ ~EncryptionKey => Records(j)' = Records(j) /\ failed
        /\ failed => ~Up(j)' \/ ~EncryptionKey
    BY <1>t, <2>1, <2>2, RecordEffect
  <2>4. Answers(j)' = Answers(j) /\ \A kind : Only(j, kind)' <=> Only(j, kind)
    BY <1>10, QuietEffect DEF CatchToDLQ
  <2>5. StageInv(j)'
    BY <1>10, <1>t, <1>b, <1>c, <1>d, <2>2, <2>3, <2>4
       DEF CatchToDLQ, StageInv, Silent, Refused
  <2>6. CountInv(j)'
    <3>1. (Answers(j) = 0 /\ Records(j) = 0) \/ Records(j)' = Records(j)
      BY <1>10, <1>b, <2>2, <2>3 DEF CatchToDLQ, StageInv, Silent, Refused
    <3>2. Only(j, "error")' \/ (Only(j, "success")' /\ Records(j)' = 0)
      BY <1>b, <1>e, <2>4, <3>1 DEF CountInv
    <3> QED
      BY <1>b, <1>d, <2>3, <2>4, <3>1, <3>2 DEF CountInv
  <2>7. CauseInv(j)'
    BY <1>10, <1>t, <1>a, <1>b, <1>x, <2>2, <2>3 DEF CatchToDLQ, CauseInv, TouchesOnly
  <2> QED
    BY <2>5, <2>6, <2>7 DEF CallReports
<1>11. ASSUME CatchAnswer(j)
      PROVE  CallReports(j)'
  <2>1. PICK r \in Reply :
          /\ Command(j, r)
          /\ Respond(j, ErrorEntry(j, apiPrefix(j)), r)
          /\ Return(j, IF Threw(r) THEN "thrown" ELSE "failed")
    BY <1>11 DEF CatchAnswer
  <2> DEFINE e == ErrorEntry(j, apiPrefix(j))
  <2>2. e \in ResponseEntry /\ e.kind = "error"
    BY <1>11, <1>t, KeysTyped, EntriesTyped
       DEF CatchAnswer, CallInv, HasMessage, HasPost, RunningPc, ConsumerPc,
              ServicePc,
           ErrorEntry, SuccessEntry
  <2> HIDE DEF e
  <2>3. Answers(j)' = Answers(j) + Executions(r)
    BY <1>t, <2>1, <2>2, RespondEffect DEF e
  <2>9. /\ Only(j, "error")' <=>
             Only(j, "error") /\ (Executions(r) = 0 \/ e.kind = "error")
        /\ Only(j, "success")' <=>
             Only(j, "success") /\ (Executions(r) = 0 \/ e.kind = "success")
    BY <1>t, <2>1, <2>2, RespondEffect DEF e
  <2>4. /\ Executions(r) \in Nat /\ Executions(r) <= 1 + resends' - resends
        /\ Up(j) <=> Executions(r) > 0
        /\ Threw(r) <=> ~Up(j)'
    BY <1>t, <2>1, CommandEffect
  <2>5. Records(j)' = Records(j)
    BY <1>11, UnrecordedEffect DEF CatchAnswer
  <2>6. StageInv(j)'
    BY <1>11, <1>t, <1>b, <1>c, <1>d, <2>1, <2>2, <2>3, <2>4, <2>5, <2>9
       DEF CatchAnswer, StageInv, Silent, Refused
  <2>7. CountInv(j)'
    <3>1. Answers(j) = 0
      BY <1>11, <1>b, <1>d, <2>4 DEF CatchAnswer, StageInv, Silent
    <3>2. Only(j, "error")' \/ (Only(j, "success")' /\ Records(j)' = 0)
      BY <1>b, <1>e, <2>2, <2>9, <2>5, <3>1 DEF CountInv
    <3>3. /\ Answers(j)' <= 1 + resends'
          /\ Records(j)' <= 1 + resends'
          /\ Answers(j)' + Records(j)' <= 2 + resends'
      <4>1. Answers(j) = 0 \/ Executions(r) = 0
        BY <3>1
      <4>2. Executions(r) \in Nat /\ Executions(r) <= 1 + resends' - resends
        BY <2>4
      <4> QED
        BY <1>d, <1>n, <2>3, <2>5, <4>1, <4>2, BoundsKept
    <3> QED
      BY <3>2, <3>3 DEF CountInv
  <2>8. CauseInv(j)'
    BY <1>11, <1>t, <1>a, <1>b, <1>x, <2>1, <2>4
       DEF CatchAnswer, CauseInv, TouchesOnly
  <2> QED
    BY <2>6, <2>7, <2>8 DEF CallReports
<1>12. ASSUME ReleaseConsumerLock(j)
      PROVE  CallReports(j)'
  <2>1. /\ Answers(j)' = Answers(j) /\ Records(j)' = Records(j)
        /\ \A kind : Only(j, kind)' <=> Only(j, kind)
    BY <1>12, QuietEffect, UnrecordedEffect DEF ReleaseConsumerLock
  <2>2. StageInv(j)'
    BY <1>12, <1>t, <1>b, <1>c, <1>d, <2>1, CommandEffect
       DEF ReleaseConsumerLock, StageInv, Silent, Refused
  <2>3. CountInv(j)' /\ CauseInv(j)'
    BY <1>12, <1>t, <1>a, <1>b, <1>x, <1>d, <2>1
       DEF ReleaseConsumerLock, CountInv, CauseInv, TouchesOnly
  <2> QED
    BY <2>2, <2>3 DEF CallReports
<1> QED
  BY <1>1, <1>2, <1>3, <1>4, <1>5, <1>6, <1>7, <1>8, <1>9, <1>10, <1>11, <1>12
     DEF ConsumerStep

(* No step of the system makes a call report more than its stage says.     *)
LEMMA StepReports ==
  ASSUME TypeInv, ReportInv, Next
  PROVE  ReportInv'
<1>1. PipelineInv /\ PipelineTypeOK /\ resends \in Nat
  BY DEF TypeInv, PipelineInv, PipelineTypeOK
<1>2. ASSUME NEW j \in Job, JobStep(j)
      PROVE  ReportInv'
  <2>1. CallReports(j)' /\ TouchesOnly(j)
    BY <1>1, <1>2, ServiceReports, ConsumerReports, ServiceTouches,
       ConsumerTouches DEF JobStep
  <2>3. \A other \in Job : ClientEnded(other) => ClientEnded(other)'
    <3>1. pc[j] # "crashed"
      BY <1>1, <1>2, ServiceRuns, ConsumerRuns
         DEF JobStep, RunningPc, ConsumerPc, ServicePc
    <3> QED
      BY <2>1, <3>1, EndedStays
  <2>2. ASSUME NEW other \in Job \ {j}
        PROVE  CallReports(other)'
    <3>1. WorkerOf[other] \in Worker
      OBVIOUS
    <3> QED
      BY <1>1, <2>1, <2>2, <2>3, <3>1, OthersKeepReports
         DEF ReportInv, TouchesOnly, CallReports
  <2> QED
    BY <2>1, <2>2 DEF ReportInv, CallReports
<1>3. ASSUME NEW m \in Message, NEW j \in Job, Deliver(m, j)
      PROVE  ReportInv'
  <2>1. /\ pc[j] = "idle"
        /\ UNCHANGED <<responses, dlq, processed, link, resends>>
        /\ message'[j] = m
        /\ \/ m \in Malformed /\ pc'[j] = "done" /\ outcome'[j] = "thrown"
           \/ pc'[j] = "claim" /\ outcome' = outcome
        /\ \A other \in Job \ {j} :
             /\ pc'[other] = pc[other] /\ message'[other] = message[other]
             /\ outcome'[other] = outcome[other]
    BY <1>1, <1>3 DEF Deliver, Start, Goto, PipelineTypeOK, streamVars,
                      keyVars, linkVars
  <2>2. CallReports(j)'
    <3>1. /\ Answers(j)' = Answers(j) /\ Records(j)' = Records(j)
          /\ Answers(j) \in Nat /\ Records(j) \in Nat
          /\ \A kind : Only(j, kind)' <=> Only(j, kind)
      BY <1>1, <2>1, QuietEffect, UnrecordedEffect, LengthsTyped
    <3>2. StageInv(j)'
      BY <2>1, <3>1 DEF ReportInv, StageInv, Silent, SilentPc
    <3>3. CountInv(j)' /\ CauseInv(j)'
      BY <2>1, <3>1 DEF ReportInv, CountInv, CauseInv, StageInv
    <3> QED
      BY <3>2, <3>3 DEF CallReports
  <2>3. ASSUME NEW other \in Job \ {j}
        PROVE  CallReports(other)'
    <3>1. ClientEnded(other) => ClientEnded(other)'
      BY <2>1 DEF ClientEnded, Up
    <3> QED
      BY <1>1, <2>1, <2>3, <3>1, OthersKeepReports DEF ReportInv, CallReports
  <2> QED
    BY <2>2, <2>3 DEF ReportInv, CallReports
<1>4. ASSUME UNCHANGED <<pc, message, outcome, responses, dlq, processed,
                         resends>>,
             \A w \in Worker : link'[w] => link[w]
      PROVE  ReportInv'
  <2>1. ASSUME NEW j \in Job
        PROVE  CallReports(j)'
    <3>1. WorkerOf[j] \in Worker
      OBVIOUS
    <3>2. ClientEnded(j) => ClientEnded(j)'
      BY <1>4, <3>1 DEF ClientEnded, Up
    <3> QED
      BY <1>1, <1>4, <3>1, <3>2, OthersKeepReports DEF ReportInv, CallReports
  <2> QED
    BY <1>4, <2>1 DEF ReportInv, CallReports
<1>5. ASSUME NEW m \in Message, Settle(m) \/ Stall(m)
      PROVE  ReportInv'
  BY <1>4, <1>5 DEF Settle, Stall, pipelineVars, localVars, streamVars,
                    keyVars, linkVars, ReportInv
<1>6. ASSUME NEW k \in LockKey, ExpireLock(k)
      PROVE  ReportInv'
  BY <1>4, <1>6 DEF ExpireLock, streamVars, keyVars, linkVars, ReportInv
<1>7. ASSUME NEW k \in CacheKey, ExpireCache(k)
      PROVE  ReportInv'
  BY <1>4, <1>7
     DEF ExpireCache, localVars, streamVars, keyVars, linkVars, ReportInv
<1>8. ASSUME NEW w \in Worker, Crash(w)
      PROVE  ReportInv'
  <2>1. /\ UNCHANGED <<message, outcome, responses, dlq, processed, resends>>
        /\ \A v \in Worker : v = w \/ link'[v] = link[v]
        /\ link'[w]
    BY <1>1, <1>8 DEF Crash, streamVars, keyVars, PipelineTypeOK
  <2>3. \A j \in Job : ClientEnded(j) => ClientEnded(j)'
    BY <1>1, <1>8, CrashKeepsEnded
  <2>2. ASSUME NEW j \in Job
        PROVE  CallReports(j)'
    <3>1. /\ Answers(j)' = Answers(j) /\ Records(j)' = Records(j)
          /\ Answers(j) \in Nat /\ Records(j) \in Nat
          /\ \A kind : Only(j, kind)' <=> Only(j, kind)
      BY <1>1, <2>1, QuietEffect, UnrecordedEffect, LengthsTyped
    <3>2. CountInv(j)' /\ CauseInv(j)'
      <4>1. pc'[j] = "crashed" \/ pc'[j] = pc[j]
        BY <1>8 DEF Crash
      <4> QED
        BY <2>1, <2>3, <3>1, <4>1 DEF ReportInv, CountInv, CauseInv
    <3>3. CASE pc'[j] = "crashed"
      BY <3>2, <3>3 DEF CallReports, StageInv, SilentPc
    <3>4. CASE pc'[j] = pc[j] /\ (WorkerOf[j] # w \/ pc[j] \notin RunningPc)
      <4>1. Up(j)' = Up(j) \/ pc[j] \notin RunningPc
        BY <2>1, <3>4 DEF Up
      <4>2. StageInv(j)'
        BY <2>1, <3>1, <3>4, <4>1
           DEF ReportInv, StageInv, Silent, Refused, SilentPc, RunningPc,
               ConsumerPc, ServicePc
      <4> QED
        BY <3>2, <4>2 DEF CallReports
    <3> QED
      BY <1>8, <3>3, <3>4 DEF Crash, Running
  <2> QED
    BY <2>1, <2>2 DEF ReportInv, CallReports
<1>9. ASSUME NEW w \in Worker, LinkEnds(w)
      PROVE  ReportInv'
  <2>1. \A v \in Worker : link'[v] => link[v]
    BY <1>1, <1>9 DEF LinkEnds, PipelineTypeOK
  <2> QED
    BY <1>4, <1>9, <2>1 DEF LinkEnds, localVars, streamVars, keyVars
<1> QED
  BY <1>2, <1>3, <1>5, <1>6, <1>7, <1>8, <1>9 DEF Next, QueueStep, Environment

(* Nothing is reported at first.                                           *)
LEMMA InitReports == Init => ReportInv
<1> SUFFICES ASSUME Init PROVE ReportInv
  OBVIOUS
<1>1. ASSUME NEW j \in Job
      PROVE  StageInv(j) /\ CountInv(j) /\ CauseInv(j)
  <2>1. /\ Answers(j) = 0 /\ Records(j) = 0 /\ Only(j, "error")
        /\ pc[j] = "idle" /\ j \notin processed /\ resends = 0
    BY DEF Init, PipelineInit, Answers, Records, Only
  <2> QED
    BY <2>1 DEF StageInv, CountInv, CauseInv, Silent, SilentPc
<1> QED
  BY <1>1 DEF ReportInv, Init, PipelineInit

(* Nothing changes.                                                        *)
LEMMA StutterReports ==
  ASSUME TypeInv, ReportInv, UNCHANGED vars
  PROVE  ReportInv'
<1>1. PipelineTypeOK /\ resends \in Nat
  BY DEF TypeInv, PipelineTypeOK
<1>2. UNCHANGED <<pc, message, outcome, responses, dlq, processed, link, resends>>
  BY DEF vars, pipelineVars, localVars, streamVars, keyVars, linkVars
<1>3. ASSUME NEW j \in Job
      PROVE  CallReports(j)'
  <2>1. ClientEnded(j)' = ClientEnded(j)
    BY <1>2 DEF ClientEnded, Up
  <2> QED
    BY <1>1, <1>2, <2>1, OthersKeepReports DEF ReportInv, CallReports
<1> QED
  BY <1>3 DEF ReportInv, CallReports

(* Every call has reported what the stage it is at says, in every          *)
(* reachable state.                                                        *)
THEOREM ReportInvariant == Spec => []ReportInv
<1>1. TypeInv /\ ReportInv /\ [Next]_vars => ReportInv'
  BY StepReports, StutterReports
<1> QED
  BY <1>1, InitReports, TypeInvariant, PTL DEF Spec

(* A job with a success answer has neither an error answer nor a DLQ       *)
(* entry, whatever is lost, resent or crashes around the publication.      *)
THEOREM VerdictIsOne == Spec => []OneVerdict
<1>1. ASSUME TypeInv, ReportInv
      PROVE  OneVerdict
  <2> SUFFICES ASSUME NEW j \in Job, Has(j, "success")
               PROVE  ~Has(j, "error") /\ dlq[j] = <<>>
    BY DEF OneVerdict
  <2>1. ~Only(j, "error")
    BY DEF Has, Only
  <2>2. Only(j, "success") /\ Records(j) = 0
    BY <1>1, <2>1 DEF ReportInv, CountInv
  <2>3. ~Has(j, "error")
    BY <2>2 DEF Has, Only
  <2>4. dlq[j] \in Seq(Prefix)
    BY <1>1 DEF TypeInv, PipelineTypeOK
  <2> QED
    BY <2>2, <2>3, <2>4 DEF Records
<1> QED
  BY <1>1, TypeInvariant, ReportInvariant, PTL

(* A job is answered once and recorded once, but for what was resent: the  *)
(* catch levels never add up.                                              *)
THEOREM ReportsOnce == Spec => []ReportedOnce
<1>1. ReportInv => ReportedOnce
  BY DEF ReportInv, CountInv, ReportedOnce, Answers, Records
<1> QED
  BY <1>1, ReportInvariant, PTL

(* A rejected call was given malformed data, had no encryption key or its  *)
(* client has ended.                                                       *)
THEOREM RejectionsHaveCause == Spec => []RejectsForCause
<1>1. ReportInv => RejectsForCause
  BY DEF ReportInv, CauseInv, RejectsForCause
<1> QED
  BY <1>1, ReportInvariant, PTL

(* A call that ends with a DLQ entry has an error answer or rejects.       *)
THEOREM RecordsAreReported == Spec => []RecordedIsReported
<1>1. ASSUME TypeInv, ReportInv
      PROVE  RecordedIsReported
  <2> SUFFICES ASSUME NEW j \in Job, pc[j] = "done", dlq[j] # <<>>,
                      outcome[j] # "thrown"
               PROVE  Has(j, "error")
    BY DEF RecordedIsReported
  <2>1. dlq[j] \in Seq(Prefix) /\ responses[j] \in Seq(ResponseEntry)
    BY <1>1 DEF TypeInv, PipelineTypeOK
  <2>2. Records(j) # 0
    BY <2>1 DEF Records
  <2>3. Answers(j) > 0 /\ Only(j, "error")
    BY <1>1, <2>2 DEF ReportInv, StageInv, CountInv
  <2>4. 1 \in DOMAIN responses[j]
    BY <2>1, <2>3 DEF Answers
  <2> QED
    BY <2>3, <2>4 DEF Only, Has
<1> QED
  BY <1>1, TypeInvariant, ReportInvariant, PTL

----------------------------------------------------------------------------
(* BullMQ and the calls.                                                   *)

OwnerInv ==
  \A m \in Message : status[m] = "active" =>
    /\ owner[m] \in Job
    /\ message[owner[m]] = m
    /\ pc[owner[m]] # "idle"

SettledInv == OwnerInv /\ CompletedIsAnswered

(* A call that started keeps its message, and one that returned changes no *)
(* more.                                                                   *)
LEMMA ReturnedStays ==
  ASSUME TypeInv, [Next]_vars, NEW j \in Job
  PROVE  /\ resends' \in Nat /\ resends' >= resends
         /\ pc[j] # "idle" => pc'[j] # "idle" /\ message'[j] = message[j]
         /\ pc[j] = "done" => /\ pc'[j] = "done"
                              /\ outcome'[j] = outcome[j]
                              /\ responses'[j] = responses[j]
<1> DEFINE Stays ==
      /\ resends' \in Nat /\ resends' >= resends
      /\ pc[j] # "idle" => pc'[j] # "idle" /\ message'[j] = message[j]
      /\ pc[j] = "done" => /\ pc'[j] = "done"
                           /\ outcome'[j] = outcome[j]
                           /\ responses'[j] = responses[j]
<1>1. PipelineInv /\ PipelineTypeOK /\ resends \in Nat
  BY DEF TypeInv, PipelineInv, PipelineTypeOK
<1>2. ASSUME NEW i \in Job, JobStep(i)
      PROVE  Stays
  <2>1. TouchesOnly(i) /\ pc[i] \in RunningPc /\ pc'[i] \in RunningPc \union {"done"}
    BY <1>1, <1>2, ServiceTouches, ConsumerTouches, ServiceRuns, ConsumerRuns
       DEF JobStep
  <2> QED
    BY <2>1 DEF TouchesOnly, RunningPc, ConsumerPc, ServicePc
<1>3. ASSUME NEW m \in Message, NEW i \in Job, Deliver(m, i)
      PROVE  Stays
  BY <1>1, <1>3 DEF Deliver, Start, Goto, PipelineTypeOK, streamVars, linkVars
<1>4. ASSUME UNCHANGED <<pc, message, outcome, responses, resends>>
      PROVE  Stays
  BY <1>1, <1>4
<1>5. ASSUME NEW w \in Worker, Crash(w)
      PROVE  Stays
  BY <1>1, <1>5 DEF Crash, Running, RunningPc, ConsumerPc, ServicePc, streamVars
<1>6. CASE QueueStep \/ Environment
  BY <1>3, <1>4, <1>5, <1>6
     DEF QueueStep, Environment, Settle, Stall, ExpireLock, ExpireCache,
            LinkEnds,
         pipelineVars, localVars, streamVars, linkVars
<1>7. CASE UNCHANGED vars
  BY <1>4, <1>7 DEF vars, pipelineVars, localVars, streamVars, linkVars
<1> QED
  BY <1>2, <1>6, <1>7 DEF Next

(* A message that is completed stays answered.                             *)
LEMMA AnsweredStays ==
  ASSUME TypeInv, [Next]_vars, NEW m \in Message, status[m] = "completed",
         CompletedIsAnswered
  PROVE  \E j \in Job :
           /\ message'[j] = m
           /\ pc'[j] = "done"
           /\ \/ responses'[j] # <<>>
              \/ outcome'[j] = "refused"
              \/ outcome'[j] = "duplicateJob" /\ resends' > 0
<1>1. PICK j \in Job :
        /\ message[j] = m
        /\ pc[j] = "done"
        /\ \/ responses[j] # <<>>
           \/ outcome[j] = "refused"
           \/ outcome[j] = "duplicateJob" /\ resends > 0
  BY DEF CompletedIsAnswered
<1>2. resends \in Nat
  BY DEF TypeInv, PipelineTypeOK
<1> QED
  BY <1>1, <1>2, ReturnedStays

(* No step takes the answer from a completed message.                      *)
LEMMA StepSettles ==
  ASSUME TypeInv, ReportInv, SettledInv, [Next]_vars
  PROVE  SettledInv'
<1>1. ASSUME UNCHANGED <<status, owner>>
      PROVE  SettledInv'
  <2>1. OwnerInv'
    BY <1>1, ReturnedStays DEF SettledInv, OwnerInv
  <2>2. CompletedIsAnswered'
    BY <1>1, AnsweredStays DEF SettledInv, CompletedIsAnswered
  <2> QED
    BY <2>1, <2>2 DEF SettledInv
<1>2. ASSUME NEW m \in Message,
             \A other \in Message \ {m} : /\ status'[other] = status[other]
                                          /\ owner'[other] = owner[other],
             status'[m] \in {"waiting", "failed"}
      PROVE  SettledInv'
  <2>1. OwnerInv'
    BY <1>2, ReturnedStays DEF SettledInv, OwnerInv
  <2>2. CompletedIsAnswered'
    BY <1>2, AnsweredStays DEF SettledInv, CompletedIsAnswered
  <2> QED
    BY <2>1, <2>2 DEF SettledInv
<1>3. ASSUME NEW m \in Message, NEW j \in Job, Deliver(m, j)
      PROVE  SettledInv'
  <2>1. /\ status'[m] = "active" /\ owner'[m] = j
        /\ message'[j] = m /\ pc'[j] # "idle"
        /\ \A other \in Message \ {m} : /\ status'[other] = status[other]
                                        /\ owner'[other] = owner[other]
    BY <1>3 DEF Deliver, Start, Goto, TypeInv, PipelineTypeOK
  <2>2. OwnerInv'
    BY <2>1, ReturnedStays DEF SettledInv, OwnerInv
  <2>3. CompletedIsAnswered'
    BY <2>1, AnsweredStays DEF SettledInv, CompletedIsAnswered
  <2> QED
    BY <2>2, <2>3 DEF SettledInv
<1>4. ASSUME NEW m \in Message, Settle(m)
      PROVE  SettledInv'
  <2>1. /\ \A other \in Message \ {m} : /\ status'[other] = status[other]
                                        /\ owner'[other] = owner[other]
        /\ UNCHANGED <<pc, message, outcome, responses, resends>>
    BY <1>4 DEF Settle, TypeInv, pipelineVars, localVars, streamVars, linkVars
  <2>2. CASE status'[m] \in {"waiting", "failed"}
    BY <1>2, <2>1, <2>2
  <2>3. CASE status'[m] = "completed"
    <3> DEFINE j == owner[m]
    <3>1. j \in Job /\ message[j] = m /\ pc[j] = "done" /\ outcome[j] # "thrown"
      BY <1>4, <2>3 DEF Settle, SettledInv, OwnerInv, TypeInv
    <3> HIDE DEF j
    <3>2. \/ Answers(j) > 0
          \/ outcome[j] = "refused"
          \/ outcome[j] = "duplicateJob" /\ resends > 0
      BY <3>1 DEF ReportInv, StageInv
    <3>3. Answers(j) > 0 => responses[j] # <<>>
      BY DEF Answers
    <3>4. OwnerInv'
      BY <2>1, <2>3, ReturnedStays DEF SettledInv, OwnerInv
    <3>5. CompletedIsAnswered'
      BY <2>1, <3>1, <3>2, <3>3, AnsweredStays
         DEF SettledInv, CompletedIsAnswered
    <3> QED
      BY <3>4, <3>5 DEF SettledInv
  <2> QED
    BY <1>4, <2>2, <2>3 DEF Settle, TypeInv
<1>5. ASSUME NEW m \in Message, Stall(m)
      PROVE  SettledInv'
  <2>1. /\ \A other \in Message \ {m} : /\ status'[other] = status[other]
                                        /\ owner'[other] = owner[other]
        /\ status'[m] \in {"waiting", "failed"}
    BY <1>5 DEF Stall, TypeInv
  <2> QED
    BY <1>2, <2>1
<1>6. ASSUME NEW j \in Job, JobStep(j)
      PROVE  SettledInv'
  BY <1>1, <1>6 DEF JobStep, queueVars
<1>7. CASE Environment
  BY <1>1, <1>7
     DEF Environment, ExpireLock, ExpireCache, Crash, LinkEnds, queueVars
<1>8. CASE UNCHANGED vars
  BY <1>1, <1>8 DEF vars, queueVars
<1> QED
  BY <1>3, <1>4, <1>5, <1>6, <1>7, <1>8 DEF Next, QueueStep

(* The owner of an active message is a call on it and a completed message  *)
(* had a call that returned, whatever is stalled, requeued or crashes.     *)
THEOREM SettledInvariant == Spec => []SettledInv
<1>1. Init => SettledInv
  BY DEF Init, SettledInv, OwnerInv, CompletedIsAnswered
<1>2. TypeInv /\ ReportInv /\ SettledInv /\ [Next]_vars => SettledInv'
  BY StepSettles
<1> QED
  BY <1>1, <1>2, TypeInvariant, ReportInvariant, PTL DEF Spec

(* A completed message was answered by a call that returned, was refused   *)
(* by the rate limiter, or met its own claim sent twice.                   *)
THEOREM CompletedWereAnswered == Spec => []CompletedIsAnswered
<1>1. SettledInv => CompletedIsAnswered
  BY DEF SettledInv
<1> QED
  BY <1>1, SettledInvariant, PTL

----------------------------------------------------------------------------
(* What a returning call leaves behind.                                    *)

(* A call holds its consumer key up to the finally of process(), its       *)
(* service key up to that of processRequest(), and no other; without       *)
(* resends no key stores a call that does not hold it, while the client it *)
(* works with is the one it began with.                                    *)
ConsumerHoldsPc == ConsumerLockPc \union {"catchDlq", "catchAnswer"}
HoldsOwn(j) ==
  \A k \in held[j] : \/ k = ConsumerKey(j) /\ pc[j] \in ConsumerHoldsPc
                     \/ k = ServiceKey(j) /\ pc[j] \in ServiceLockPc
Calm(j) == resends = 0 /\ ~ClientEnded(j)
StoredIsHeld(j) ==
  Calm(j) => \A k \in LockKey : locks[k] = j => k \in held[j] \/ pc[j] = "crashed"
LeaveInv == \A j \in Job : HoldsOwn(j) /\ StoredIsHeld(j)

(* SET NX and the compare-and-delete with a client that answers.           *)
LEMMA AcquireStores ==
  ASSUME PipelineTypeOK, NEW j \in Job, NEW key \in LockKey, NEW r \in Reply,
         Command(j, r), AcquireLock(j, key, r)
  PROVE  /\ \A other \in Job \ {j} :
              /\ held'[other] = held[other]
              /\ \A k \in LockKey : locks'[k] = other => locks[k] = other
         /\ held'[j] = IF Granted(key, r) THEN held[j] \union {key} ELSE held[j]
         /\ Calm(j)' => \A k \in LockKey :
              locks'[k] = j => locks[k] = j \/ (k = key /\ k \in held'[j])
<1>1. \A other \in Job \ {j} :
        /\ held'[other] = held[other]
        /\ \A k \in LockKey : locks'[k] = other => locks[k] = other
  BY DEF AcquireLock, PipelineTypeOK
<1>2. held'[j] = IF Granted(key, r) THEN held[j] \union {key} ELSE held[j]
  BY DEF AcquireLock, PipelineTypeOK
<1>3. ASSUME Calm(j)', NEW k \in LockKey, locks'[k] = j, locks[k] # j
      PROVE  k = key /\ k \in held'[j]
  <2>1. r # "resent" /\ r # "lost"
    BY <1>3, CommandEffect DEF Calm, ClientEnded, Threw
  <2>2. k = key /\ locks[key] = None /\ r # "refused"
    BY <1>3 DEF AcquireLock, Executed, PipelineTypeOK
  <2>3. Granted(key, r)
    BY <2>1, <2>2 DEF Granted, Reply
  <2> QED
    BY <1>2, <2>2, <2>3
<1> QED
  BY <1>1, <1>2, <1>3

(* The compare-and-delete empties the key, when it is executed.            *)
LEMMA ReleaseClears ==
  ASSUME PipelineTypeOK, NEW j \in Job, NEW key \in LockKey, NEW r \in Reply,
         Command(j, r), ReleaseLock(j, key, r)
  PROVE  /\ \A other \in Job \ {j} :
              /\ held'[other] = held[other]
              /\ \A k \in LockKey : locks'[k] = other => locks[k] = other
         /\ held'[j] = held[j] \ {key}
         /\ Up(j) => \A k \in LockKey :
              locks'[k] = j => locks[k] = j /\ k # key
<1>1. \A other \in Job \ {j} :
        /\ held'[other] = held[other]
        /\ \A k \in LockKey : locks'[k] = other => locks[k] = other
  BY DEF ReleaseLock, PipelineTypeOK
<1>2. held'[j] = held[j] \ {key}
  BY DEF ReleaseLock, PipelineTypeOK
<1>3. Up(j) => Executed(r)
  BY CommandEffect DEF Executed
<1>4. Up(j) => \A k \in LockKey : locks'[k] = j => locks[k] = j /\ k # key
  BY <1>3 DEF ReleaseLock, PipelineTypeOK
<1> QED
  BY <1>1, <1>2, <1>4

(* What a step of call j does to the lock keys of the others.              *)
TakesNone(j) ==
  \A other \in Job \ {j} :
    /\ held'[other] = held[other]
    /\ \A k \in LockKey : locks'[k] = other => locks[k] = other
CallLeaves(j) == HoldsOwn(j)' /\ StoredIsHeld(j)' /\ TakesNone(j)

(* The service gives its key back wherever it leaves its lock.             *)
LEMMA ServiceLeaves ==
  ASSUME PipelineInv, ReportInv, LeaveInv, NEW j \in Job, ServiceStep(j)
  PROVE  CallLeaves(j)
<1> USE
   DEF Goto, Return, ConsumerHoldsPc, ConsumerLockPc, ServiceLockPc, ServicePc
<1>t. /\ PipelineTypeOK /\ CallInv /\ pc \in [Job -> PC]
      /\ held \in [Job -> SUBSET LockKey]
  BY DEF PipelineInv, PipelineTypeOK
<1>a. TouchesOnly(j) /\ pc[j] # "crashed"
  BY ServiceTouches, ServiceRuns DEF RunningPc, ConsumerPc
<1>b. HoldsOwn(j) /\ StoredIsHeld(j)
  BY DEF LeaveInv
<1>c. Calm(j)' => Calm(j) /\ Up(j)
  BY <1>a, EndedStays DEF Calm, TouchesOnly, ClientEnded
<1>k. /\ ConsumerKey(j)' = ConsumerKey(j) /\ ServiceKey(j)' = ServiceKey(j)
      /\ pc[j] \in RunningPc => ConsumerKey(j) \in LockKey /\ ServiceKey(j) \in LockKey
  BY <1>t, <1>a, KeysTyped
     DEF TouchesOnly, ConsumerKey, ServiceKey, query, apiPrefix, CallInv,
            HasMessage
<1>q. ASSUME UNCHANGED <<locks, held>>
      PROVE  StoredIsHeld(j)' /\ TakesNone(j)
  BY <1>a, <1>b, <1>c, <1>q DEF StoredIsHeld, TakesNone
<1>1. ASSUME AcquireQueryLock(j)
      PROVE  CallLeaves(j)
  <2>1. PICK r \in Reply :
          /\ Command(j, r)
          /\ AcquireLock(j, ServiceKey(j), r)
          /\ Goto(j, CASE Threw(r) -> "catchDlq"
                       [] Granted(ServiceKey(j), r) -> "rate"
                       [] OTHER -> "svcBusyAnswer")
    BY <1>1 DEF AcquireQueryLock
  <2>2. ServiceKey(j) \in LockKey
    BY <1>1, <1>k DEF AcquireQueryLock, RunningPc, ConsumerPc
  <2>3. /\ TakesNone(j)
        /\ held'[j] = IF Granted(ServiceKey(j), r)
                      THEN held[j] \union {ServiceKey(j)} ELSE held[j]
        /\ Calm(j)' => \A k \in LockKey :
             locks'[k] = j => locks[k] = j \/ (k = ServiceKey(j) /\ k \in held'[j])
    BY <1>t, <1>c, <2>1, <2>2, AcquireStores DEF TakesNone
  <2>4. HoldsOwn(j)'
    BY <1>1, <1>t, <1>b, <1>k, <2>1, <2>3
       DEF AcquireQueryLock, HoldsOwn, Granted, Threw
  <2>5. StoredIsHeld(j)'
    BY <1>a, <1>b, <1>c, <2>3 DEF StoredIsHeld
  <2> QED
    BY <2>3, <2>4, <2>5 DEF CallLeaves
<1>2. ASSUME HandleDuplicateProcessing(j)
      PROVE  CallLeaves(j)
  <2>1. HoldsOwn(j)'
    BY <1>2, <1>t, <1>b, <1>k DEF HandleDuplicateProcessing, HoldsOwn
  <2> QED
    BY <1>2, <1>q, <2>1 DEF HandleDuplicateProcessing, CallLeaves
<1>3. ASSUME CheckRateLimit(j)
      PROVE  CallLeaves(j)
  <2>1. HoldsOwn(j)'
    BY <1>3, <1>t, <1>b, <1>k DEF CheckRateLimit, HoldsOwn
  <2> QED
    BY <1>3, <1>q, <2>1 DEF CheckRateLimit, CallLeaves
<1>4. ASSUME GetFromCache(j)
      PROVE  CallLeaves(j)
  <2>1. HoldsOwn(j)'
    BY <1>4, <1>t, <1>b, <1>k DEF GetFromCache, HoldsOwn
  <2> QED
    BY <1>4, <1>q, <2>1 DEF GetFromCache, CallLeaves
<1>5. ASSUME FetchPost(j)
      PROVE  CallLeaves(j)
  <2>1. HoldsOwn(j)'
    BY <1>5, <1>t, <1>b, <1>k DEF FetchPost, HoldsOwn
  <2> QED
    BY <1>5, <1>q, <2>1 DEF FetchPost, CallLeaves
<1>6. ASSUME SetCache(j)
      PROVE  CallLeaves(j)
  <2>1. HoldsOwn(j)'
    BY <1>6, <1>t, <1>b, <1>k DEF SetCache, HoldsOwn
  <2> QED
    BY <1>6, <1>q, <2>1 DEF SetCache, CallLeaves
<1>7. ASSUME InvalidateCache(j)
      PROVE  CallLeaves(j)
  <2>1. HoldsOwn(j)'
    BY <1>7, <1>t, <1>b, <1>k DEF InvalidateCache, HoldsOwn
  <2> QED
    BY <1>7, <1>q, <2>1 DEF InvalidateCache, CallLeaves
<1>8. ASSUME PublishResponse(j)
      PROVE  CallLeaves(j)
  <2>1. HoldsOwn(j)'
    BY <1>8, <1>t, <1>b, <1>k DEF PublishResponse, HoldsOwn
  <2> QED
    BY <1>8, <1>q, <2>1 DEF PublishResponse, CallLeaves
<1>9. ASSUME ReleaseQueryLock(j)
      PROVE  CallLeaves(j)
  <2>1. PICK r \in Reply :
          /\ Command(j, r)
          /\ ReleaseLock(j, ServiceKey(j), r)
    BY <1>9 DEF ReleaseQueryLock
  <2>2. ServiceKey(j) \in LockKey
    BY <1>9, <1>k DEF ReleaseQueryLock, RunningPc, ConsumerPc
  <2>3. /\ TakesNone(j)
        /\ held'[j] = held[j] \ {ServiceKey(j)}
        /\ Calm(j)' => \A k \in LockKey : locks'[k] = j => locks[k] = j /\ k # ServiceKey(j)
    BY <1>t, <1>c, <2>1, <2>2, ReleaseClears DEF TakesNone
  <2>4. HoldsOwn(j)'
    BY <1>9, <1>t, <1>b, <1>k, <2>3 DEF ReleaseQueryLock, HoldsOwn
  <2>5. StoredIsHeld(j)'
    BY <1>a, <1>b, <1>c, <2>3 DEF StoredIsHeld
  <2> QED
    BY <2>3, <2>4, <2>5 DEF CallLeaves
<1>10. ASSUME HandleErrorAndPublish(j)
      PROVE  CallLeaves(j)
  <2>1. HoldsOwn(j)'
    BY <1>10, <1>t, <1>b, <1>k DEF HandleErrorAndPublish, HoldsOwn
  <2> QED
    BY <1>10, <1>q, <2>1 DEF HandleErrorAndPublish, CallLeaves
<1>11. ASSUME ReleaseAfterError(j)
      PROVE  CallLeaves(j)
  <2>1. PICK r \in Reply :
          /\ Command(j, r)
          /\ ReleaseLock(j, ServiceKey(j), r)
    BY <1>11 DEF ReleaseAfterError
  <2>2. ServiceKey(j) \in LockKey
    BY <1>11, <1>k DEF ReleaseAfterError, RunningPc, ConsumerPc
  <2>3. /\ TakesNone(j)
        /\ held'[j] = held[j] \ {ServiceKey(j)}
        /\ Calm(j)' => \A k \in LockKey : locks'[k] = j => locks[k] = j /\ k # ServiceKey(j)
    BY <1>t, <1>c, <2>1, <2>2, ReleaseClears DEF TakesNone
  <2>4. HoldsOwn(j)'
    BY <1>11, <1>t, <1>b, <1>k, <2>3 DEF ReleaseAfterError, HoldsOwn
  <2>5. StoredIsHeld(j)'
    BY <1>a, <1>b, <1>c, <2>3 DEF StoredIsHeld
  <2> QED
    BY <2>3, <2>4, <2>5 DEF CallLeaves
<1>12. ASSUME ServiceAddToDLQ(j)
      PROVE  CallLeaves(j)
  <2>1. HoldsOwn(j)'
    BY <1>12, <1>t, <1>b, <1>k DEF ServiceAddToDLQ, HoldsOwn
  <2> QED
    BY <1>12, <1>q, <2>1 DEF ServiceAddToDLQ, CallLeaves
<1> QED
  BY <1>1, <1>2, <1>3, <1>4, <1>5, <1>6, <1>7, <1>8, <1>9, <1>10, <1>11, <1>12
     DEF ServiceStep

(* So does the consumer, on every path through its finally.                *)
LEMMA ConsumerLeaves ==
  ASSUME PipelineInv, ReportInv, LeaveInv, NEW j \in Job, ConsumerStep(j)
  PROVE  CallLeaves(j)
<1> USE
   DEF Goto, Return, ConsumerHoldsPc, ConsumerLockPc, ServiceLockPc, ServicePc
<1>t. /\ PipelineTypeOK /\ CallInv /\ pc \in [Job -> PC]
      /\ held \in [Job -> SUBSET LockKey]
  BY DEF PipelineInv, PipelineTypeOK
<1>a. TouchesOnly(j) /\ pc[j] # "crashed"
  BY ConsumerTouches, ConsumerRuns DEF RunningPc, ConsumerPc
<1>b. HoldsOwn(j) /\ StoredIsHeld(j)
  BY DEF LeaveInv
<1>c. Calm(j)' => Calm(j) /\ Up(j)
  BY <1>a, EndedStays DEF Calm, TouchesOnly, ClientEnded
<1>k. /\ ConsumerKey(j)' = ConsumerKey(j) /\ ServiceKey(j)' = ServiceKey(j)
      /\ pc[j] \in RunningPc => ConsumerKey(j) \in LockKey /\ ServiceKey(j) \in LockKey
  BY <1>t, <1>a, KeysTyped
     DEF TouchesOnly, ConsumerKey, ServiceKey, query, apiPrefix, CallInv,
            HasMessage
<1>q. ASSUME UNCHANGED <<locks, held>>
      PROVE  StoredIsHeld(j)' /\ TakesNone(j)
  BY <1>a, <1>b, <1>c, <1>q DEF StoredIsHeld, TakesNone
<1>1. ASSUME ClaimJob(j)
      PROVE  CallLeaves(j)
  <2>1. HoldsOwn(j)'
    BY <1>1, <1>t, <1>b, <1>k DEF ClaimJob, HoldsOwn
  <2> QED
    BY <1>1, <1>q, <2>1 DEF ClaimJob, CallLeaves
<1>2. ASSUME CheckDlqDuplicate(j)
      PROVE  CallLeaves(j)
  <2>1. HoldsOwn(j)'
    BY <1>2, <1>t, <1>b, <1>k DEF CheckDlqDuplicate, HoldsOwn
  <2> QED
    BY <1>2, <1>q, <2>1 DEF CheckDlqDuplicate, CallLeaves
<1>3. ASSUME AnswerDlqDuplicate(j)
      PROVE  CallLeaves(j)
  <2>1. HoldsOwn(j)'
    BY <1>3, <1>t, <1>b, <1>k DEF AnswerDlqDuplicate, AnswerAndReturn, HoldsOwn
  <2> QED
    BY <1>3, <1>q, <2>1 DEF AnswerDlqDuplicate, AnswerAndReturn, CallLeaves
<1>4. ASSUME AnswerLockFailed(j)
      PROVE  CallLeaves(j)
  <2>1. HoldsOwn(j)'
    BY <1>4, <1>t, <1>b, <1>k DEF AnswerLockFailed, AnswerAndReturn, HoldsOwn
  <2> QED
    BY <1>4, <1>q, <2>1 DEF AnswerLockFailed, AnswerAndReturn, CallLeaves
<1>5. ASSUME TryConsumerLock(j)
      PROVE  CallLeaves(j)
  <2>1. PICK r \in Reply :
          /\ Command(j, r)
          /\ AcquireLock(j, ConsumerKey(j), r)
          /\ Goto(j, CASE Threw(r) -> "catchDlq"
                       [] Granted(ConsumerKey(j), r) -> "validate"
                       [] OTHER -> IF TriesLeft(j) THEN "lock" ELSE "busyAnswer")
    BY <1>5 DEF TryConsumerLock
  <2>2. ConsumerKey(j) \in LockKey
    BY <1>5, <1>k DEF TryConsumerLock, RunningPc, ConsumerPc
  <2>3. /\ TakesNone(j)
        /\ held'[j] = IF Granted(ConsumerKey(j), r)
                      THEN held[j] \union {ConsumerKey(j)} ELSE held[j]
        /\ Calm(j)' => \A k \in LockKey :
             locks'[k] = j => locks[k] = j \/ (k = ConsumerKey(j) /\ k \in held'[j])
    BY <1>t, <1>c, <2>1, <2>2, AcquireStores DEF TakesNone
  <2>4. HoldsOwn(j)'
    BY <1>5, <1>t, <1>b, <1>k, <2>1, <2>3
       DEF TryConsumerLock, HoldsOwn, Granted, Threw
  <2>5. StoredIsHeld(j)'
    BY <1>a, <1>b, <1>c, <2>3 DEF StoredIsHeld
  <2> QED
    BY <2>3, <2>4, <2>5 DEF CallLeaves
<1>6. ASSUME Validate(j)
      PROVE  CallLeaves(j)
  <2>1. HoldsOwn(j)'
    BY <1>6, <1>t, <1>b, <1>k DEF Validate, ProcessJob, HoldsOwn
  <2> QED
    BY <1>6, <1>q, <2>1 DEF Validate, ProcessJob, CallLeaves
<1>7. ASSUME AnswerInvalid(j)
      PROVE  CallLeaves(j)
  <2>1. HoldsOwn(j)'
    BY <1>7, <1>t, <1>b, <1>k DEF AnswerInvalid, HoldsOwn
  <2> QED
    BY <1>7, <1>q, <2>1 DEF AnswerInvalid, CallLeaves
<1>8. ASSUME RecheckDlqDuplicate(j)
      PROVE  CallLeaves(j)
  <2>1. HoldsOwn(j)'
    BY <1>8, <1>t, <1>b, <1>k DEF RecheckDlqDuplicate, HoldsOwn
  <2> QED
    BY <1>8, <1>q, <2>1 DEF RecheckDlqDuplicate, CallLeaves
<1>9. ASSUME InvalidToDLQ(j)
      PROVE  CallLeaves(j)
  <2>1. HoldsOwn(j)'
    BY <1>9, <1>t, <1>b, <1>k DEF InvalidToDLQ, HoldsOwn
  <2> QED
    BY <1>9, <1>q, <2>1 DEF InvalidToDLQ, CallLeaves
<1>10. ASSUME CatchToDLQ(j)
      PROVE  CallLeaves(j)
  <2>1. HoldsOwn(j)'
    BY <1>10, <1>t, <1>b, <1>k DEF CatchToDLQ, HoldsOwn
  <2> QED
    BY <1>10, <1>q, <2>1 DEF CatchToDLQ, CallLeaves
<1>11. ASSUME CatchAnswer(j)
      PROVE  CallLeaves(j)
  <2>1. HoldsOwn(j)'
    BY <1>11, <1>t, <1>b, <1>k DEF CatchAnswer, HoldsOwn
  <2> QED
    BY <1>11, <1>q, <2>1 DEF CatchAnswer, CallLeaves
<1>12. ASSUME ReleaseConsumerLock(j)
      PROVE  CallLeaves(j)
  <2>1. PICK r \in Reply :
          /\ Command(j, r)
          /\ ReleaseLock(j, ConsumerKey(j), r)
    BY <1>12 DEF ReleaseConsumerLock
  <2>2. ConsumerKey(j) \in LockKey
    BY <1>12, <1>k DEF ReleaseConsumerLock, RunningPc, ConsumerPc
  <2>3. /\ TakesNone(j)
        /\ held'[j] = held[j] \ {ConsumerKey(j)}
        /\ Calm(j)' => \A k \in LockKey : locks'[k] = j => locks[k] = j /\ k # ConsumerKey(j)
    BY <1>t, <1>c, <2>1, <2>2, ReleaseClears DEF TakesNone
  <2>4. HoldsOwn(j)'
    BY <1>12, <1>t, <1>b, <1>k, <2>3 DEF ReleaseConsumerLock, HoldsOwn
  <2>5. StoredIsHeld(j)'
    BY <1>a, <1>b, <1>c, <2>3 DEF StoredIsHeld
  <2> QED
    BY <2>3, <2>4, <2>5 DEF CallLeaves
<1> QED
  BY <1>1, <1>2, <1>3, <1>4, <1>5, <1>6, <1>7, <1>8, <1>9, <1>10, <1>11, <1>12
     DEF ConsumerStep

(* No step of the system leaves a lock with a call that returned.          *)
LEMMA StepLeaves ==
  ASSUME TypeInv, ReportInv, LeaveInv, Next
  PROVE  LeaveInv'
<1> USE DEF ConsumerHoldsPc, ConsumerLockPc, ServiceLockPc, ServicePc
<1>1. PipelineInv /\ PipelineTypeOK /\ resends \in Nat
  BY DEF TypeInv, PipelineInv, PipelineTypeOK
<1>2. ASSUME NEW j \in Job, JobStep(j)
      PROVE  LeaveInv'
  <2>1. CallLeaves(j) /\ TouchesOnly(j) /\ pc[j] # "crashed"
    BY <1>1, <1>2, ServiceLeaves, ConsumerLeaves, ServiceTouches,
       ConsumerTouches, ServiceRuns, ConsumerRuns
       DEF JobStep, RunningPc, ConsumerPc
  <2>2. ASSUME NEW other \in Job \ {j}
        PROVE  HoldsOwn(other)' /\ StoredIsHeld(other)'
    <3>1. Calm(other)' => Calm(other)
      BY <2>1, EndedStays DEF TouchesOnly, Calm
    <3>2. ConsumerKey(other)' = ConsumerKey(other) /\ ServiceKey(other)' = ServiceKey(other)
      BY <2>1 DEF TouchesOnly, ConsumerKey, ServiceKey, query, apiPrefix
    <3>3. pc'[other] = pc[other] /\ held'[other] = held[other]
      BY <2>1 DEF TouchesOnly, CallLeaves, TakesNone
    <3>4. HoldsOwn(other)'
      BY <3>2, <3>3 DEF LeaveInv, HoldsOwn
    <3>5. StoredIsHeld(other)'
      BY <2>1, <3>1, <3>3 DEF LeaveInv, StoredIsHeld, CallLeaves, TakesNone
    <3> QED
      BY <3>4, <3>5
  <2> QED
    BY <2>1, <2>2 DEF LeaveInv, CallLeaves
<1>3. ASSUME NEW m \in Message, NEW j \in Job, Deliver(m, j)
      PROVE  LeaveInv'
  <2>1. /\ pc[j] = "idle" /\ pc'[j] # "crashed"
        /\ UNCHANGED <<held, locks, link, resends>>
        /\ \A other \in Job \ {j} :
             pc'[other] = pc[other] /\ message'[other] = message[other]
    BY <1>1, <1>3 DEF Deliver, Start, Goto, PipelineTypeOK, linkVars
  <2>5. ASSUME NEW other \in Job
        PROVE  Calm(other)' => Calm(other)
    BY <2>1 DEF Calm, ClientEnded, Up
  <2>2. ASSUME NEW other \in Job \ {j}
        PROVE  HoldsOwn(other)' /\ StoredIsHeld(other)'
    <3>1. ConsumerKey(other)' = ConsumerKey(other) /\ ServiceKey(other)' = ServiceKey(other)
      BY <2>1 DEF ConsumerKey, ServiceKey, query, apiPrefix
    <3> QED
      BY <2>1, <2>5, <3>1 DEF LeaveInv, HoldsOwn, StoredIsHeld
  <2>3. held[j] = {}
    BY <1>1, <2>1 DEF LeaveInv, HoldsOwn, PipelineTypeOK
  <2>4. HoldsOwn(j)' /\ StoredIsHeld(j)'
    BY <2>1, <2>3, <2>5 DEF LeaveInv, HoldsOwn, StoredIsHeld
  <2> QED
    BY <2>2, <2>4 DEF LeaveInv
<1>4. ASSUME UNCHANGED <<pc, message, held, resends>>,
             \A w \in Worker : link'[w] => link[w],
             \A k \in LockKey : locks'[k] = locks[k] \/ locks'[k] = None
      PROVE  LeaveInv'
  <2>1. ASSUME NEW j \in Job
        PROVE  HoldsOwn(j)' /\ StoredIsHeld(j)'
    <3>1. ConsumerKey(j)' = ConsumerKey(j) /\ ServiceKey(j)' = ServiceKey(j)
      BY <1>4 DEF ConsumerKey, ServiceKey, query, apiPrefix
    <3>2. j # None /\ WorkerOf[j] \in Worker
      OBVIOUS
    <3>3. Calm(j)' => Calm(j)
      BY <1>4, <3>2 DEF Calm, ClientEnded, Up
    <3> QED
      BY <1>4, <3>1, <3>2, <3>3 DEF LeaveInv, HoldsOwn, StoredIsHeld
  <2> QED
    BY <2>1 DEF LeaveInv
<1>5. ASSUME NEW m \in Message, Settle(m) \/ Stall(m)
      PROVE  LeaveInv'
  BY <1>4, <1>5 DEF Settle, Stall, pipelineVars, localVars, linkVars
<1>6. ASSUME NEW k \in LockKey, ExpireLock(k)
      PROVE  LeaveInv'
  BY <1>1, <1>4, <1>6 DEF ExpireLock, linkVars, PipelineTypeOK
<1>7. ASSUME NEW k \in CacheKey, ExpireCache(k)
      PROVE  LeaveInv'
  BY <1>4, <1>7 DEF ExpireCache, localVars, linkVars
<1>8. ASSUME NEW w \in Worker, Crash(w)
      PROVE  LeaveInv'
  <2>1. UNCHANGED <<message, locks, resends>>
    BY <1>8 DEF Crash
  <2>2. ASSUME NEW j \in Job
        PROVE  HoldsOwn(j)' /\ StoredIsHeld(j)'
    <3>1. \/ pc'[j] = "crashed" /\ held'[j] = {}
          \/ pc'[j] = pc[j] /\ held'[j] = held[j]
      BY <1>8 DEF Crash
    <3>2. ConsumerKey(j)' = ConsumerKey(j) /\ ServiceKey(j)' = ServiceKey(j)
      BY <2>1 DEF ConsumerKey, ServiceKey, query, apiPrefix
    <3>3. Calm(j)' => Calm(j)
      BY <1>1, <1>8, <2>1, CrashKeepsEnded DEF Calm
    <3> QED
      BY <2>1, <3>1, <3>2, <3>3 DEF LeaveInv, HoldsOwn, StoredIsHeld
  <2> QED
    BY <2>2 DEF LeaveInv
<1>9. ASSUME NEW w \in Worker, LinkEnds(w)
      PROVE  LeaveInv'
  <2>1. \A v \in Worker : link'[v] => link[v]
    BY <1>1, <1>9 DEF LinkEnds, PipelineTypeOK
  <2> QED
    BY <1>4, <1>9, <2>1 DEF LinkEnds, localVars
<1> QED
  BY <1>2, <1>3, <1>5, <1>6, <1>7, <1>8, <1>9 DEF Next, QueueStep, Environment

(* Nothing changes.                                                        *)
LEMMA StutterLeaves ==
  ASSUME LeaveInv, UNCHANGED vars
  PROVE  LeaveInv'
<1>1. UNCHANGED <<pc, message, held, locks, link, resends>>
  BY DEF vars, pipelineVars, localVars, linkVars
<1>2. \A j \in Job : Calm(j)' <=> Calm(j)
  BY <1>1 DEF Calm, ClientEnded, Up
<1>3. \A j \in Job : /\ ConsumerKey(j)' = ConsumerKey(j)
                     /\ ServiceKey(j)' = ServiceKey(j)
  BY <1>1 DEF ConsumerKey, ServiceKey, query, apiPrefix
<1> QED
  BY <1>1, <1>2, <1>3 DEF LeaveInv, HoldsOwn, StoredIsHeld

(* What a call holds and what stores it, in every state.                   *)
THEOREM LeaveInvariant == Spec => []LeaveInv
<1>1. Init => LeaveInv
  BY DEF Init, PipelineInit, LeaveInv, HoldsOwn, StoredIsHeld
<1>2. TypeInv /\ ReportInv /\ LeaveInv /\ [Next]_vars => LeaveInv'
  BY StepLeaves, StutterLeaves
<1> QED
  BY <1>1, <1>2, TypeInvariant, ReportInvariant, PTL DEF Spec

(* A call that returns leaves no lock behind unless its client ended or a  *)
(* command was resent: whatever path it took, both finally blocks ran.     *)
THEOREM NothingIsLeftLocked == Spec => []NoLockLeftBehind
<1>1. TypeInv /\ LeaveInv => NoLockLeftBehind
  BY DEF TypeInv, PipelineTypeOK, LeaveInv, HoldsOwn, StoredIsHeld, Calm,
         NoLockLeftBehind, ConsumerHoldsPc, ConsumerLockPc, ServiceLockPc,
             ServicePc
<1> QED
  BY <1>1, LeaveInvariant, TypeInvariant, PTL DEF Spec

(* A stored key is another call's that works on its query, or one that was *)
(* left behind: no call is turned away by a call that gave its key back.   *)
LEMMA StoredKeyIsTaken ==
  ASSUME TypeInv, LeaveInv, NEW j \in Job, NEW k \in LockKey,
         locks[k] # None, k \notin held[j]
  PROVE  Taken(j, k)
<1>1. /\ locks[k] \in Job /\ resends \in Nat
      /\ held[locks[k]] \in SUBSET LockKey
  BY DEF TypeInv, PipelineTypeOK
<1>2. HoldsOwn(locks[k]) /\ StoredIsHeld(locks[k])
  BY <1>1 DEF LeaveInv
<1>3. CASE k \in held[locks[k]]
  <2>1. locks[k] # j /\ Running(locks[k])
    BY <1>2, <1>3 DEF HoldsOwn, Running, RunningPc, ConsumerPc, ServicePc,
                      ConsumerHoldsPc, ConsumerLockPc, ServiceLockPc
  <2> QED
    BY <1>1, <1>3, <2>1 DEF Taken, AtWorkOn
<1>4. CASE k \notin held[locks[k]]
  <2>1. pc[locks[k]] = "crashed" => ClientEnded(locks[k])
    BY <1>1 DEF ClientEnded
  <2>2. ClientEnded(locks[k]) \/ resends > 0
    BY <1>1, <1>2, <1>4, <2>1 DEF StoredIsHeld, Calm
  <2> QED
    BY <1>1, <1>4, <2>2 DEF Taken, LeftBehind
<1> QED
  BY <1>3, <1>4

(* A SET NX that grants nothing found the key, or was resent.              *)
LEMMA UngrantedFindsIt ==
  ASSUME TypeInv, LeaveInv, NEW j \in Job, NEW k \in LockKey, k \notin held[j],
         NEW r \in Reply, Command(j, r), ~Threw(r), ~Granted(k, r)
  PROVE  Taken(j, k)
<1>1. CASE locks[k] # None
  BY <1>1, StoredKeyIsTaken
<1>2. CASE locks[k] = None
  <2>1. r = "resent"
    BY <1>2 DEF Reply, Threw, Granted
  <2>2. resends' > resends
    BY <2>1 DEF Command, TypeInv, PipelineTypeOK
  <2> QED
    BY <2>2 DEF Taken
<1> QED
  BY <1>1, <1>2

(* At its two lock commands a call does not hold the key it asks for.      *)
LEMMA AskerHoldsNone ==
  ASSUME TypeInv, LeaveInv, NEW j \in Job
  PROVE  /\ pc[j] = "lock" =>
              ConsumerKey(j) \in LockKey /\ ConsumerKey(j) \notin held[j]
         /\ pc[j] = "svcLock" =>
              ServiceKey(j) \in LockKey /\ ServiceKey(j) \notin held[j]
<1>1. HoldsOwn(j) /\ HasMessage(j)
  BY DEF LeaveInv, TypeInv, CallInv
<1>2. ASSUME pc[j] = "lock"
      PROVE  ConsumerKey(j) \in LockKey /\ ConsumerKey(j) \notin held[j]
  <2>1. message[j] \in Message
    BY <1>1, <1>2 DEF HasMessage, RunningPc, ConsumerPc
  <2>2. held[j] = {}
    BY <1>1, <1>2 DEF HoldsOwn, ConsumerHoldsPc, ConsumerLockPc, ServiceLockPc,
                      ServicePc
  <2> QED
    BY <2>1, <2>2, KeysTyped
<1>3. ASSUME pc[j] = "svcLock"
      PROVE  ServiceKey(j) \in LockKey /\ ServiceKey(j) \notin held[j]
  <2>1. message[j] \in Message
    BY <1>1, <1>3 DEF HasMessage, RunningPc, ServicePc
  <2>2. ConsumerKey(j) # ServiceKey(j)
    BY <2>1, KeysDiffer
  <2>3. pc[j] \notin ServiceLockPc
    BY <1>3 DEF ServiceLockPc, ServicePc
  <2>4. ServiceKey(j) \notin held[j]
    BY <1>1, <2>2, <2>3 DEF HoldsOwn
  <2> QED
    BY <2>1, <2>4, KeysTyped
<1> QED
  BY <1>2, <1>3

(* Only acquireLock counts a try.                                          *)
LEMMA OnlyTriesCount ==
  ASSUME TypeInv, Next, NEW j \in Job, tries'[j] > tries[j]
  PROVE  TryConsumerLock(j)
<1>1. tries \in [Job -> 0..LockAttempts]
  BY DEF TypeInv, PipelineTypeOK
<1>2. tries'[j] # tries[j]
  <2>1. tries[j] \in Int
    BY <1>1
  <2> QED
    BY <2>1
<1>3. ASSUME NEW other \in Job, ServiceStep(other)
      PROVE  UNCHANGED tries
  BY <1>3 DEF ServiceStep, AcquireQueryLock, HandleDuplicateProcessing,
       CheckRateLimit, GetFromCache, FetchPost, SetCache, InvalidateCache,
       PublishResponse, ReleaseQueryLock, HandleErrorAndPublish,
       ReleaseAfterError, ServiceAddToDLQ
<1>4. ASSUME NEW other \in Job, ConsumerStep(other)
      PROVE  TryConsumerLock(other) \/ UNCHANGED tries
  BY <1>4 DEF ConsumerStep, ClaimJob, CheckDlqDuplicate, AnswerDlqDuplicate,
       AnswerLockFailed, AnswerAndReturn, Validate, AnswerInvalid,
       RecheckDlqDuplicate, InvalidToDLQ, CatchToDLQ, CatchAnswer,
       ReleaseConsumerLock
<1>5. ASSUME NEW other \in Job \ {j}, TryConsumerLock(other)
      PROVE  tries'[j] = tries[j]
  BY <1>1, <1>5 DEF TryConsumerLock
<1>6. QueueStep \/ Environment => UNCHANGED tries
  BY DEF QueueStep, Environment, Deliver, Start, Settle, Stall, ExpireLock,
         ExpireCache, Crash, LinkEnds, pipelineVars, localVars
<1> QED
  BY <1>2, <1>3, <1>4, <1>5, <1>6 DEF Next, JobStep

(* Only acquireQueryLock leads to the answer to a duplicate query.         *)
LEMMA OnlyAskedIsBusy ==
  ASSUME TypeInv, Next, NEW j \in Job,
         pc[j] = "svcLock", pc'[j] = "svcBusyAnswer"
  PROVE  AcquireQueryLock(j)
<1>1. PipelineInv /\ pc \in [Job -> PC]
  BY DEF TypeInv, PipelineInv, PipelineTypeOK
<1>2. ASSUME NEW other \in Job, JobStep(other)
      PROVE  other = j
  BY <1>1, <1>2, ServiceTouches, ConsumerTouches DEF JobStep, TouchesOnly
<1>3. ASSUME JobStep(j)
      PROVE  AcquireQueryLock(j)
  BY <1>3 DEF JobStep, ServiceStep, HandleDuplicateProcessing, CheckRateLimit,
       GetFromCache, FetchPost, SetCache, InvalidateCache, PublishResponse,
       ReleaseQueryLock, HandleErrorAndPublish, ReleaseAfterError,
       ServiceAddToDLQ, ConsumerStep, ClaimJob, CheckDlqDuplicate,
       AnswerDlqDuplicate, AnswerLockFailed, AnswerAndReturn, TryConsumerLock,
       Validate, AnswerInvalid, RecheckDlqDuplicate, InvalidToDLQ, CatchToDLQ,
       CatchAnswer, ReleaseConsumerLock
<1>4. ~QueueStep
  BY <1>1 DEF QueueStep, Deliver, Start, Goto, Settle, Stall, pipelineVars,
         localVars
<1>5. ~Environment
  BY <1>1 DEF Environment, ExpireLock, ExpireCache, Crash, LinkEnds, localVars
<1> QED
  BY <1>2, <1>3, <1>4, <1>5 DEF Next

(* A call is turned away only by a call at work on the query, or by a key  *)
(* that a client left behind when it ended or sent a command again: never  *)
(* by itself, by its other lock, or by a call that returned.               *)
THEOREM TurnsAwayForCause == Spec => TurnedAwayForCause
<1>1. ASSUME TypeInv, LeaveInv, Next, NEW j \in Job,
             pc[j] = "lock", tries'[j] > tries[j]
      PROVE  Taken(j, ConsumerKey(j))
  <2>1. TryConsumerLock(j)
    BY <1>1, OnlyTriesCount
  <2>2. PICK r \in Reply :
          /\ Command(j, r)
          /\ tries' = IF Threw(r) \/ Granted(ConsumerKey(j), r)
                      THEN tries ELSE [tries EXCEPT ![j] = @ + 1]
    BY <2>1 DEF TryConsumerLock
  <2>3. ~(tries[j] > tries[j])
    BY <1>1 DEF TypeInv, PipelineTypeOK
  <2>4. ~Threw(r) /\ ~Granted(ConsumerKey(j), r)
    BY <1>1, <2>2, <2>3
  <2> QED
    BY <1>1, <2>2, <2>4, AskerHoldsNone, UngrantedFindsIt
<1>2. ASSUME TypeInv, LeaveInv, Next, NEW j \in Job,
             pc[j] = "svcLock", pc'[j] = "svcBusyAnswer"
      PROVE  Taken(j, ServiceKey(j))
  <2>1. AcquireQueryLock(j)
    BY <1>2, OnlyAskedIsBusy
  <2>2. PICK r \in Reply :
          /\ Command(j, r)
          /\ Goto(j, CASE Threw(r) -> "catchDlq"
                       [] Granted(ServiceKey(j), r) -> "rate"
                       [] OTHER -> "svcBusyAnswer")
    BY <2>1 DEF AcquireQueryLock
  <2>3. ~Threw(r) /\ ~Granted(ServiceKey(j), r)
    BY <1>2, <2>2 DEF Goto, TypeInv, PipelineTypeOK
  <2> QED
    BY <1>2, <2>2, <2>3, AskerHoldsNone, UngrantedFindsIt
<1>3. TypeInv /\ LeaveInv /\ [Next]_vars =>
        [\A j \in Job :
           /\ pc[j] = "lock" /\ tries'[j] > tries[j] => Taken(j, ConsumerKey(j))
           /\ pc[j] = "svcLock" /\ pc'[j] = "svcBusyAnswer" =>
                Taken(j, ServiceKey(j))]_vars
  BY <1>1, <1>2
<1> QED
  BY <1>3, TypeInvariant, LeaveInvariant, PTL DEF Spec, TurnedAwayForCause

----------------------------------------------------------------------------
(* Which post a call serves.                                               *)

(* d fetched the post for a query with this cache key.                     *)
FetchedFor(d, key) == d \in Job /\ message[d] \in Message /\ CacheKeyOf[query(d)] = key
PostPc == {"cacheSet", "purge", "publish"}
FitInv ==
  /\ \A j \in Job : message[j] \in Message => pc[j] # "idle"
  /\ \A k \in CacheKey : cache[k] # None => FetchedFor(cache[k], k)
  /\ \A j \in Job : pc[j] \in PostPc => FetchedFor(post[j], CacheKeyOf[query(j)])
  /\ \A j \in Job : \A i \in DOMAIN responses[j] :
       responses[j][i].kind = "success" =>
         /\ message[j] \in Message
         /\ FetchedFor(responses[j][i].jobId, CacheKeyOf[query(j)])

(* What a step of call j may do to cached, held and published posts.       *)
MovesPosts(j) ==
  /\ \A k \in CacheKey : \/ cache'[k] \in {cache[k], None}
                         \/ /\ pc[j] \in PostPc /\ cache'[k] = post[j]
                            /\ k = CacheKeyOf[query(j)]
  /\ pc'[j] \in PostPc => \/ pc[j] \in PostPc /\ post'[j] = post[j]
                          \/ post'[j] = j
                          \/ /\ post'[j] = cache[CacheKeyOf[query(j)]]
                             /\ post'[j] # None
  /\ \A i \in DOMAIN responses'[j] :
       \/ i \in DOMAIN responses[j] /\ responses'[j][i] = responses[j][i]
       \/ responses'[j][i].kind = "error"
       \/ pc[j] \in PostPc /\ responses'[j][i].jobId = post[j]
  /\ \A other \in Job \ {j} : post'[other] = post[other]

(* The service moves posts from the API and the cache to the stream.       *)
LEMMA ServiceMovesPosts ==
  ASSUME PipelineInv, NEW j \in Job, ServiceStep(j)
  PROVE  MovesPosts(j)
<1> USE DEF Goto, Return, PostPc
<1>t. /\ PipelineTypeOK /\ CallInv /\ pc \in [Job -> PC]
      /\ post \in [Job -> Job \union {None}]
      /\ cache \in [CacheKey -> Job \union {None}]
  BY DEF PipelineInv, PipelineTypeOK
<1>q. ASSUME UNCHANGED <<cache, post, responses>>, pc'[j] \notin PostPc
      PROVE  MovesPosts(j)
  BY <1>q DEF MovesPosts
<1>1. ASSUME AcquireQueryLock(j)
      PROVE  MovesPosts(j)
  BY <1>1, <1>q, <1>t DEF AcquireQueryLock, streamVars
<1>2. ASSUME HandleDuplicateProcessing(j)
      PROVE  MovesPosts(j)
  <2>1. PICK r \in Reply : Respond(j, ErrorEntry(j, Danbooru), r)
    BY <1>2 DEF HandleDuplicateProcessing
  <2> DEFINE e == ErrorEntry(j, Danbooru)
  <2>2. e \in ResponseEntry /\ e.kind = "error"
    BY <1>2, <1>t, KeysTyped, EntriesTyped
       DEF HandleDuplicateProcessing, CallInv, HasMessage, HasPost, RunningPc,
              ConsumerPc, ServicePc,
           ErrorEntry, SuccessEntry
  <2> HIDE DEF e
  <2>3. \A i \in DOMAIN responses'[j] :
          \/ i \in DOMAIN responses[j] /\ responses'[j][i] = responses[j][i]
          \/ responses'[j][i] = e
    BY <1>t, <2>1, <2>2, RespondEffect DEF e
  <2>4. UNCHANGED <<cache, post>> /\ pc'[j] \notin PostPc
    BY <1>2, <1>t DEF HandleDuplicateProcessing
  <2> QED
    BY <1>2, <2>2, <2>3, <2>4 DEF HandleDuplicateProcessing, MovesPosts
<1>3. ASSUME CheckRateLimit(j)
      PROVE  MovesPosts(j)
  BY <1>3, <1>q, <1>t DEF CheckRateLimit, streamVars
<1>4. ASSUME GetFromCache(j)
      PROVE  MovesPosts(j)
  <2>1. \A k \in CacheKey : \/ cache'[k] \in {cache[k], None}
                             \/ /\ pc[j] \in PostPc /\ cache'[k] = post[j]
                                /\ k = CacheKeyOf[query(j)]
    BY <1>4, <1>t DEF GetFromCache, CacheKeyFor
  <2>2. \/ pc'[j] \notin PostPc
        \/ post'[j] = cache[CacheKeyOf[query(j)]] /\ post'[j] # None
    BY <1>4, <1>t, KeysTyped
       DEF GetFromCache, CacheKeyFor, CallInv, HasMessage, RunningPc, ServicePc
  <2>3. UNCHANGED responses /\ \A other \in Job \ {j} : post'[other] = post[other]
    BY <1>4, <1>t DEF GetFromCache, streamVars
  <2> QED
    BY <2>1, <2>2, <2>3 DEF MovesPosts
<1>5. ASSUME FetchPost(j)
      PROVE  MovesPosts(j)
  <2>1. \A k \in CacheKey : \/ cache'[k] \in {cache[k], None}
                             \/ /\ pc[j] \in PostPc /\ cache'[k] = post[j]
                                /\ k = CacheKeyOf[query(j)]
    BY <1>5, <1>t DEF FetchPost
  <2>2. pc'[j] \in PostPc => post'[j] = j
    BY <1>5, <1>t, KeysTyped
       DEF FetchPost, CallInv, HasMessage, RunningPc, ServicePc
  <2>3. UNCHANGED responses /\ \A other \in Job \ {j} : post'[other] = post[other]
    BY <1>5, <1>t DEF FetchPost, streamVars
  <2> QED
    BY <2>1, <2>2, <2>3 DEF MovesPosts
<1>6. ASSUME SetCache(j)
      PROVE  MovesPosts(j)
  <2>1. \A k \in CacheKey : \/ cache'[k] \in {cache[k], None}
                             \/ /\ pc[j] \in PostPc /\ cache'[k] = post[j]
                                /\ k = CacheKeyOf[query(j)]
    BY <1>6, <1>t DEF SetCache, CacheKeyFor
  <2>2. pc[j] \in PostPc /\ post' = post
    BY <1>6, <1>t, KeysTyped
       DEF SetCache, CacheKeyFor, CallInv, HasMessage, RunningPc, ServicePc
  <2>3. UNCHANGED responses /\ \A other \in Job \ {j} : post'[other] = post[other]
    BY <1>6, <1>t DEF SetCache, streamVars
  <2> QED
    BY <2>1, <2>2, <2>3 DEF MovesPosts
<1>7. ASSUME InvalidateCache(j)
      PROVE  MovesPosts(j)
  <2>1. \A k \in CacheKey : \/ cache'[k] \in {cache[k], None}
                             \/ /\ pc[j] \in PostPc /\ cache'[k] = post[j]
                                /\ k = CacheKeyOf[query(j)]
    BY <1>7, <1>t DEF InvalidateCache, CacheKeyFor
  <2>2. pc[j] \in PostPc /\ post' = post
    BY <1>7, <1>t, KeysTyped
       DEF InvalidateCache, CallInv, HasMessage, RunningPc, ServicePc
  <2>3. UNCHANGED responses /\ \A other \in Job \ {j} : post'[other] = post[other]
    BY <1>7, <1>t DEF InvalidateCache, streamVars
  <2> QED
    BY <2>1, <2>2, <2>3 DEF MovesPosts
<1>8. ASSUME PublishResponse(j)
      PROVE  MovesPosts(j)
  <2>1. PICK r \in Reply : Respond(j, SuccessEntry(j), r)
    BY <1>8 DEF PublishResponse
  <2> DEFINE e == SuccessEntry(j)
  <2>2. e \in ResponseEntry /\ e.jobId = post[j]
    BY <1>8, <1>t, KeysTyped, EntriesTyped
       DEF PublishResponse, CallInv, HasMessage, HasPost, RunningPc,
              ConsumerPc, ServicePc,
           ErrorEntry, SuccessEntry
  <2> HIDE DEF e
  <2>3. \A i \in DOMAIN responses'[j] :
          \/ i \in DOMAIN responses[j] /\ responses'[j][i] = responses[j][i]
          \/ responses'[j][i] = e
    BY <1>t, <2>1, <2>2, RespondEffect DEF e
  <2>4. UNCHANGED <<cache, post>> /\ pc'[j] \notin PostPc
    BY <1>8, <1>t DEF PublishResponse
  <2> QED
    BY <1>8, <2>2, <2>3, <2>4 DEF PublishResponse, MovesPosts
<1>9. ASSUME ReleaseQueryLock(j)
      PROVE  MovesPosts(j)
  BY <1>9, <1>q, <1>t DEF ReleaseQueryLock, streamVars
<1>10. ASSUME HandleErrorAndPublish(j)
      PROVE  MovesPosts(j)
  <2>1. PICK r \in Reply : Respond(j, ErrorEntry(j, Danbooru), r)
    BY <1>10 DEF HandleErrorAndPublish
  <2> DEFINE e == ErrorEntry(j, Danbooru)
  <2>2. e \in ResponseEntry /\ e.kind = "error"
    BY <1>10, <1>t, KeysTyped, EntriesTyped
       DEF HandleErrorAndPublish, CallInv, HasMessage, HasPost, RunningPc,
              ConsumerPc, ServicePc,
           ErrorEntry, SuccessEntry
  <2> HIDE DEF e
  <2>3. \A i \in DOMAIN responses'[j] :
          \/ i \in DOMAIN responses[j] /\ responses'[j][i] = responses[j][i]
          \/ responses'[j][i] = e
    BY <1>t, <2>1, <2>2, RespondEffect DEF e
  <2>4. UNCHANGED <<cache, post>> /\ pc'[j] \notin PostPc
    BY <1>10, <1>t DEF HandleErrorAndPublish
  <2> QED
    BY <1>10, <2>2, <2>3, <2>4 DEF HandleErrorAndPublish, MovesPosts
<1>11. ASSUME ReleaseAfterError(j)
      PROVE  MovesPosts(j)
  BY <1>11, <1>q, <1>t DEF ReleaseAfterError, streamVars
<1>12. ASSUME ServiceAddToDLQ(j)
      PROVE  MovesPosts(j)
  BY <1>12, <1>q, <1>t DEF ServiceAddToDLQ, streamVars
<1> QED
  BY <1>1, <1>2, <1>3, <1>4, <1>5, <1>6, <1>7, <1>8, <1>9, <1>10, <1>11, <1>12
     DEF ServiceStep

(* The consumer moves none.                                                *)
LEMMA ConsumerMovesPosts ==
  ASSUME PipelineInv, NEW j \in Job, ConsumerStep(j)
  PROVE  MovesPosts(j)
<1> USE DEF Goto, Return, PostPc
<1>t. /\ PipelineTypeOK /\ CallInv /\ pc \in [Job -> PC]
      /\ post \in [Job -> Job \union {None}]
      /\ cache \in [CacheKey -> Job \union {None}]
  BY DEF PipelineInv, PipelineTypeOK
<1>q. ASSUME UNCHANGED <<cache, post, responses>>, pc'[j] \notin PostPc
      PROVE  MovesPosts(j)
  BY <1>q DEF MovesPosts
<1>1. ASSUME ClaimJob(j)
      PROVE  MovesPosts(j)
  BY <1>1, <1>q, <1>t DEF ClaimJob, streamVars
<1>2. ASSUME CheckDlqDuplicate(j)
      PROVE  MovesPosts(j)
  BY <1>2, <1>q, <1>t DEF CheckDlqDuplicate, streamVars
<1>3. ASSUME AnswerDlqDuplicate(j)
      PROVE  MovesPosts(j)
  <2>1. PICK r \in Reply : Respond(j, ErrorEntry(j, apiPrefix(j)), r)
    BY <1>3 DEF AnswerDlqDuplicate, AnswerAndReturn
  <2> DEFINE e == ErrorEntry(j, apiPrefix(j))
  <2>2. e \in ResponseEntry /\ e.kind = "error"
    BY <1>3, <1>t, KeysTyped, EntriesTyped
       DEF AnswerDlqDuplicate, AnswerAndReturn, CallInv, HasMessage, HasPost,
              RunningPc, ConsumerPc, ServicePc,
           ErrorEntry, SuccessEntry
  <2> HIDE DEF e
  <2>3. \A i \in DOMAIN responses'[j] :
          \/ i \in DOMAIN responses[j] /\ responses'[j][i] = responses[j][i]
          \/ responses'[j][i] = e
    BY <1>t, <2>1, <2>2, RespondEffect DEF e
  <2>4. UNCHANGED <<cache, post>> /\ pc'[j] \notin PostPc
    BY <1>3, <1>t DEF AnswerDlqDuplicate, AnswerAndReturn
  <2> QED
    BY <1>3, <2>2, <2>3, <2>4 DEF AnswerDlqDuplicate, MovesPosts
<1>4. ASSUME AnswerLockFailed(j)
      PROVE  MovesPosts(j)
  <2>1. PICK r \in Reply : Respond(j, ErrorEntry(j, apiPrefix(j)), r)
    BY <1>4 DEF AnswerLockFailed, AnswerAndReturn
  <2> DEFINE e == ErrorEntry(j, apiPrefix(j))
  <2>2. e \in ResponseEntry /\ e.kind = "error"
    BY <1>4, <1>t, KeysTyped, EntriesTyped
       DEF AnswerLockFailed, AnswerAndReturn, CallInv, HasMessage, HasPost,
              RunningPc, ConsumerPc, ServicePc,
           ErrorEntry, SuccessEntry
  <2> HIDE DEF e
  <2>3. \A i \in DOMAIN responses'[j] :
          \/ i \in DOMAIN responses[j] /\ responses'[j][i] = responses[j][i]
          \/ responses'[j][i] = e
    BY <1>t, <2>1, <2>2, RespondEffect DEF e
  <2>4. UNCHANGED <<cache, post>> /\ pc'[j] \notin PostPc
    BY <1>4, <1>t DEF AnswerLockFailed, AnswerAndReturn
  <2> QED
    BY <1>4, <2>2, <2>3, <2>4 DEF AnswerLockFailed, MovesPosts
<1>5. ASSUME TryConsumerLock(j)
      PROVE  MovesPosts(j)
  BY <1>5, <1>q, <1>t DEF TryConsumerLock, streamVars
<1>6. ASSUME Validate(j)
      PROVE  MovesPosts(j)
  BY <1>6, <1>q, <1>t DEF Validate, ProcessJob, streamVars
<1>7. ASSUME AnswerInvalid(j)
      PROVE  MovesPosts(j)
  <2>1. PICK r \in Reply, named \in {j, None} :
          Respond(j, [ErrorEntry(j, apiPrefix(j)) EXCEPT !.jobId = named], r)
    BY <1>7 DEF AnswerInvalid
  <2> DEFINE e == [ErrorEntry(j, apiPrefix(j)) EXCEPT !.jobId = named]
  <2>2. e \in ResponseEntry /\ e.kind = "error"
    BY <1>7, <1>t, KeysTyped, EntriesTyped
       DEF AnswerInvalid, CallInv, HasMessage, HasPost, RunningPc, ConsumerPc,
              ServicePc,
           ErrorEntry, SuccessEntry
  <2> HIDE DEF e
  <2>3. \A i \in DOMAIN responses'[j] :
          \/ i \in DOMAIN responses[j] /\ responses'[j][i] = responses[j][i]
          \/ responses'[j][i] = e
    BY <1>t, <2>1, <2>2, RespondEffect DEF e
  <2>4. UNCHANGED <<cache, post>> /\ pc'[j] \notin PostPc
    BY <1>7, <1>t DEF AnswerInvalid
  <2> QED
    BY <1>7, <2>2, <2>3, <2>4 DEF AnswerInvalid, MovesPosts
<1>8. ASSUME RecheckDlqDuplicate(j)
      PROVE  MovesPosts(j)
  BY <1>8, <1>q, <1>t DEF RecheckDlqDuplicate, streamVars
<1>9. ASSUME InvalidToDLQ(j)
      PROVE  MovesPosts(j)
  BY <1>9, <1>q, <1>t DEF InvalidToDLQ, streamVars
<1>10. ASSUME CatchToDLQ(j)
      PROVE  MovesPosts(j)
  BY <1>10, <1>q, <1>t DEF CatchToDLQ, streamVars
<1>11. ASSUME CatchAnswer(j)
      PROVE  MovesPosts(j)
  <2>1. PICK r \in Reply : Respond(j, ErrorEntry(j, apiPrefix(j)), r)
    BY <1>11 DEF CatchAnswer
  <2> DEFINE e == ErrorEntry(j, apiPrefix(j))
  <2>2. e \in ResponseEntry /\ e.kind = "error"
    BY <1>11, <1>t, KeysTyped, EntriesTyped
       DEF CatchAnswer, CallInv, HasMessage, HasPost, RunningPc, ConsumerPc,
              ServicePc,
           ErrorEntry, SuccessEntry
  <2> HIDE DEF e
  <2>3. \A i \in DOMAIN responses'[j] :
          \/ i \in DOMAIN responses[j] /\ responses'[j][i] = responses[j][i]
          \/ responses'[j][i] = e
    BY <1>t, <2>1, <2>2, RespondEffect DEF e
  <2>4. UNCHANGED <<cache, post>> /\ pc'[j] \notin PostPc
    BY <1>11, <1>t DEF CatchAnswer
  <2> QED
    BY <1>11, <2>2, <2>3, <2>4 DEF CatchAnswer, MovesPosts
<1>12. ASSUME ReleaseConsumerLock(j)
      PROVE  MovesPosts(j)
  BY <1>12, <1>q, <1>t DEF ReleaseConsumerLock, streamVars
<1> QED
  BY <1>1, <1>2, <1>3, <1>4, <1>5, <1>6, <1>7, <1>8, <1>9, <1>10, <1>11, <1>12
     DEF ConsumerStep

(* A call that fetched a post for a key stays one.                         *)
LEMMA FetchedStays ==
  ASSUME TypeInv, FitInv, [Next]_vars, NEW d, NEW key, FetchedFor(d, key)
  PROVE  FetchedFor(d, key)'
<1>1. message'[d] = message[d]
  BY ReturnedStays DEF FitInv, FetchedFor
<1> QED
  BY <1>1 DEF FetchedFor, query

(* No step moves a post to a key it was not fetched for.                   *)
LEMMA StepFits ==
  ASSUME TypeInv, FitInv, [Next]_vars
  PROVE  FitInv'
<1> USE DEF PostPc
<1>1. /\ PipelineInv /\ PipelineTypeOK
      /\ cache \in [CacheKey -> Job \union {None}]
      /\ message \in [Job -> Message \union {None}]
  BY DEF TypeInv, PipelineInv, PipelineTypeOK
<1>2. \A j \in Job : message[j] \in Message =>
        /\ message'[j] = message[j] /\ query(j)' = query(j) /\ pc'[j] # "idle"
  BY ReturnedStays DEF FitInv, query
(* Where nothing but the calls' positions changes.                         *)
<1>3. ASSUME \A k \in CacheKey : cache'[k] \in {cache[k], None},
             UNCHANGED <<post, responses>>,
             \A j \in Job : pc'[j] \in PostPc => pc'[j] = pc[j],
             \A j \in Job : message'[j] \in Message => message[j] \in Message \/ pc'[j] # "idle"
      PROVE  FitInv'
  <2>1. \A j \in Job : (message[j] \in Message => pc[j] # "idle")'
    BY <1>2, <1>3
  <2>2. \A k \in CacheKey : (cache[k] # None => FetchedFor(cache[k], k))'
    BY <1>3, FetchedStays DEF FitInv
  <2>3. ASSUME NEW j \in Job, pc'[j] \in PostPc
        PROVE  FetchedFor(post[j], CacheKeyOf[query(j)])'
    <3>1. pc[j] \in PostPc /\ message[j] \in Message
      BY <1>1, <1>3, <2>3
         DEF PipelineInv, CallInv, HasMessage, RunningPc, ServicePc
    <3>2. FetchedFor(post'[j], CacheKeyOf[query(j)])
      BY <1>3, <3>1 DEF FitInv
    <3> QED
      BY <1>2, <1>3, <3>1, <3>2, FetchedStays DEF FetchedFor
  <2>4. ASSUME NEW j \in Job, NEW i \in DOMAIN responses'[j],
               responses'[j][i].kind = "success"
        PROVE  /\ message'[j] \in Message
               /\ FetchedFor(responses[j][i].jobId, CacheKeyOf[query(j)])'
    <3>1. /\ message[j] \in Message
          /\ FetchedFor(responses[j][i].jobId, CacheKeyOf[query(j)])
      BY <1>3, <2>4 DEF FitInv
    <3> QED
      BY <1>2, <1>3, <3>1, FetchedStays DEF FetchedFor
  <2> QED
    BY <2>1, <2>2, <2>3, <2>4 DEF FitInv
<1>4. ASSUME NEW j \in Job, JobStep(j)
      PROVE  FitInv'
  <2>1. MovesPosts(j) /\ TouchesOnly(j)
    BY <1>1, <1>4, ServiceMovesPosts, ConsumerMovesPosts, ServiceTouches,
       ConsumerTouches DEF JobStep
  <2>2. pc[j] \in RunningPc /\ message[j] \in Message /\ query(j)' = query(j)
    BY <1>1, <1>2, <1>4, ServiceRuns, ConsumerRuns
       DEF JobStep, PipelineInv, CallInv, HasMessage
  <2>3. query(j) \in Query
    BY <2>2, KeysTyped
  <2>4. \A other \in Job : (message[other] \in Message => pc[other] # "idle")'
    BY <1>2, <2>1, <2>2 DEF TouchesOnly
  <2>5. \A k \in CacheKey : (cache[k] # None => FetchedFor(cache[k], k))'
    <3> SUFFICES ASSUME NEW k \in CacheKey, cache'[k] # None
                 PROVE  FetchedFor(cache[k], k)'
      OBVIOUS
    <3>1. FetchedFor(cache'[k], k)
      BY <2>1 DEF MovesPosts, FitInv
    <3> QED
      BY <1>2, <3>1, FetchedStays DEF FetchedFor
  <2>6. ASSUME NEW other \in Job, pc'[other] \in PostPc
        PROVE  FetchedFor(post[other], CacheKeyOf[query(other)])'
    <3>1. message[other] \in Message /\ FetchedFor(post'[other], CacheKeyOf[query(other)])
      <4>1. CASE other = j
        <5>1. FetchedFor(j, CacheKeyOf[query(j)])
          BY <2>2 DEF FetchedFor
        <5>2. cache[CacheKeyOf[query(j)]] # None =>
                FetchedFor(cache[CacheKeyOf[query(j)]], CacheKeyOf[query(j)])
          BY <2>3 DEF FitInv
        <5> QED
          BY <2>1, <2>2, <2>6, <4>1, <5>1, <5>2 DEF MovesPosts, FitInv
      <4>2. CASE other # j
        <5>1. pc[other] \in PostPc /\ post'[other] = post[other]
          BY <2>1, <2>6, <4>2 DEF MovesPosts, TouchesOnly
        <5> QED
          BY <1>1, <5>1
             DEF FitInv, PipelineInv, CallInv, HasMessage, RunningPc, ServicePc
      <4> QED
        BY <4>1, <4>2
    <3> QED
      BY <1>2, <3>1, FetchedStays DEF FetchedFor
  <2>7. ASSUME NEW other \in Job, NEW i \in DOMAIN responses'[other],
               responses'[other][i].kind = "success"
        PROVE  /\ message'[other] \in Message
               /\ FetchedFor(responses[other][i].jobId, CacheKeyOf[query(other)])'
    <3>1. /\ message[other] \in Message
          /\ FetchedFor(responses'[other][i].jobId, CacheKeyOf[query(other)])
      <4>1. CASE i \in DOMAIN responses[other] /\ responses'[other][i] = responses[other][i]
        BY <2>7, <4>1 DEF FitInv
      <4>2. CASE other = j /\ pc[j] \in PostPc /\ responses'[j][i].jobId = post[j]
        BY <2>2, <4>2 DEF FitInv
      <4> QED
        BY <2>1, <2>7, <4>1, <4>2 DEF MovesPosts, TouchesOnly
    <3> QED
      BY <1>2, <3>1, FetchedStays DEF FetchedFor
  <2> QED
    BY <2>4, <2>5, <2>6, <2>7 DEF FitInv
<1>5. ASSUME NEW m \in Message, NEW j \in Job, Deliver(m, j)
      PROVE  FitInv'
  <2>1. /\ \A other \in Job : pc'[other] \in PostPc => pc'[other] = pc[other]
        /\ \A other \in Job : message'[other] \in Message =>
             message[other] \in Message \/ pc'[other] # "idle"
        /\ UNCHANGED <<post, responses, cache>>
    BY <1>1, <1>5 DEF Deliver, Start, Goto, streamVars, PipelineTypeOK
  <2> QED
    BY <1>3, <2>1
<1>6. ASSUME NEW k \in CacheKey, ExpireCache(k)
      PROVE  FitInv'
  BY <1>1, <1>3, <1>6 DEF ExpireCache, localVars, streamVars
<1>7. ASSUME NEW w \in Worker, Crash(w)
      PROVE  FitInv'
  <2>1. \A j \in Job : pc'[j] \in PostPc => pc'[j] = pc[j]
    BY <1>7 DEF Crash
  <2> QED
    BY <1>1, <1>3, <1>7, <2>1 DEF Crash, streamVars
<1>8. ASSUME UNCHANGED <<pc, message, post, responses, cache>>
      PROVE  FitInv'
  BY <1>3, <1>8
<1>9. CASE QueueStep \/ Environment \/ UNCHANGED vars
  BY <1>5, <1>6, <1>7, <1>8, <1>9
     DEF QueueStep, Environment, Settle, Stall, ExpireLock, LinkEnds, vars,
         pipelineVars, localVars, streamVars
<1> QED
  BY <1>4, <1>9 DEF Next

(* Every cached and every published post was fetched for a query with the  *)
(* same cache key.                                                         *)
THEOREM PostsFit == Spec => []ServedPostFits
<1>1. Init => FitInv
  BY DEF Init, PipelineInit, FitInv, PostPc
<1>2. TypeInv /\ FitInv /\ [Next]_vars => FitInv'
  BY StepFits
<1>3. FitInv => ServedPostFits
  BY DEF FitInv, FetchedFor, ServedPostFits
<1> QED
  BY <1>1, <1>2, <1>3, TypeInvariant, PTL DEF Spec
============================================================================
