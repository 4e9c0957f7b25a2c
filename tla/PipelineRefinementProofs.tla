---------------------- MODULE PipelineRefinementProofs ----------------------
(***************************************************************************)
(* What the pipeline implements: module Lease on every lock key, whatever  *)
(* the calls, their processes and clients do, and module RequestService,   *)
(* what it promises to those around it.  Between the two stands the        *)
(* variant of a call: every await brings it nearer to its end.             *)
(***************************************************************************)
EXTENDS RequestPipelineProofs

USE PipelineAssumption

----------------------------------------------------------------------------
(* The locks are leases.                                                   *)

(* A step that touches no lock key stutters.                               *)
LEMMA OtherStepsStutter ==
  ASSUME UNCHANGED <<locks, held, lapsed>>, NEW k \in LockKey
  PROVE  LeaseStep(k)
BY DEF LeaseStep, LeaseOf!leaseVars

(* Acquiring a key grants it, grants it unheard, or finds it taken.        *)
LEMMA AcquiringGrants ==
  ASSUME PipelineTypeOK, NEW j \in Job, NEW r \in Reply, NEW key \in LockKey,
         AcquireLock(j, key, r), NEW k \in LockKey
  PROVE  LeaseStep(k)
<1>1. CASE k = key /\ Granted(key, r)
  <2>1. LeaseOf(k)!Grant(j)
    BY <1>1 DEF AcquireLock, Granted, Executed, PipelineTypeOK, LeaseOf!Grant
  <2> QED
    BY <2>1 DEF LeaseStep, LeaseOf!LeaseNext
<1>2. CASE k = key /\ ~Granted(key, r) /\ locks[key] = None /\ Executed(r)
  <2>1. LeaseOf(k)!GrantUnheard(j)
    BY <1>2 DEF AcquireLock, PipelineTypeOK, LeaseOf!GrantUnheard
  <2> QED
    BY <2>1 DEF LeaseStep, LeaseOf!LeaseNext
<1>3. CASE k # key \/ ~(locks[key] = None /\ Executed(r))
  <2>1. UNCHANGED LeaseOf(k)!leaseVars
    BY <1>3 DEF AcquireLock, Granted, Executed, PipelineTypeOK, LeaseOf!leaseVars
  <2> QED
    BY <2>1 DEF LeaseStep
<1> QED
  BY <1>1, <1>2, <1>3 DEF Granted, Executed

(* Releasing a held key is leaving it.                                     *)
LEMMA ReleasingLeaves ==
  ASSUME PipelineTypeOK, NEW j \in Job, NEW r \in Reply, NEW key \in LockKey,
         key \in held[j], ReleaseLock(j, key, r), NEW k \in LockKey
  PROVE  LeaseStep(k)
<1>1. CASE k = key
  <2>1. LeaseOf(k)!Leave({j})
    BY <1>1 DEF ReleaseLock, PipelineTypeOK, LeaseOf!Leave
  <2>2. {j} \in SUBSET {c \in Job : k \in held[c]}
    BY <1>1
  <2> QED
    BY <2>1, <2>2 DEF LeaseStep, LeaseOf!LeaseNext
<1>2. CASE k # key
  <2>1. UNCHANGED LeaseOf(k)!leaseVars
    BY <1>2 DEF ReleaseLock, PipelineTypeOK, LeaseOf!leaseVars
  <2> QED
    BY <2>1 DEF LeaseStep
<1> QED
  BY <1>1, <1>2

(* An expiring key expires as a lease.                                     *)
LEMMA ExpiryExpires ==
  ASSUME PipelineTypeOK, NEW key \in LockKey, ExpireLock(key), NEW k \in LockKey
  PROVE  LeaseStep(k)
<1>1. CASE k = key
  <2>1. LeaseOf(k)!Expire
    BY <1>1 DEF ExpireLock, PipelineTypeOK, LeaseOf!Expire
  <2> QED
    BY <2>1 DEF LeaseStep, LeaseOf!LeaseNext
<1>2. CASE k # key
  <2>1. UNCHANGED LeaseOf(k)!leaseVars
    BY <1>2 DEF ExpireLock, PipelineTypeOK, LeaseOf!leaseVars
  <2> QED
    BY <2>1 DEF LeaseStep
<1> QED
  BY <1>1, <1>2

(* A crash makes every call of the process leave, its keys uncleared.      *)
LEMMA CrashLeaves ==
  ASSUME PipelineTypeOK, GrantsInv, NEW w \in Worker, Crash(w), NEW k \in LockKey
  PROVE  LeaseStep(k)
<1> DEFINE dying == {j \in Job : WorkerOf[j] = w /\ Running(j) /\ k \in held[j]}
<1>1. LeaseOf(k)!Leave(dying)
  BY DEF Crash, PipelineTypeOK, GrantsInv, LeaseOf!Leave
<1>2. dying \in SUBSET {c \in Job : k \in held[c]}
  OBVIOUS
<1> HIDE DEF dying
<1>3. LeaseOf(k)!LeaseNext
  BY <1>1, <1>2 DEF LeaseOf!LeaseNext, LeaseOf!Leave
<1> QED
  BY <1>3 DEF LeaseStep

(* The service acquires and releases its own key only, and releases it     *)
(* only while it holds it.                                                 *)
LEMMA ServiceStepsLease ==
  ASSUME PipelineInv, LockInv, NEW j \in Job, ServiceStep(j), NEW k \in LockKey
  PROVE  LeaseStep(k)
<1>1. PipelineTypeOK /\ KeysHeld(j)
  BY DEF PipelineInv, LockInv
<1>2. pc[j] \in ServicePc => ServiceKey(j) \in LockKey
  BY KeysTyped DEF PipelineInv, CallInv, HasMessage, RunningPc
<1>3. CASE AcquireQueryLock(j)
  <2>1. PICK r \in Reply : AcquireLock(j, ServiceKey(j), r)
    BY <1>3 DEF AcquireQueryLock
  <2>2. ServiceKey(j) \in LockKey
    BY <1>2, <1>3 DEF AcquireQueryLock, ServicePc
  <2> QED
    BY <1>1, <2>1, <2>2, AcquiringGrants
<1>4. CASE ReleaseQueryLock(j) \/ ReleaseAfterError(j)
  <2>1. PICK r \in Reply : ReleaseLock(j, ServiceKey(j), r)
    BY <1>4 DEF ReleaseQueryLock, ReleaseAfterError
  <2>2. pc[j] \in {"svcRelease", "svcErrorRelease"}
    BY <1>4 DEF ReleaseQueryLock, ReleaseAfterError
  <2>3. ServiceKey(j) \in LockKey
    BY <1>2, <2>2 DEF ServicePc
  <2>4. ServiceKey(j) \in held[j]
    BY <1>1, <2>2 DEF KeysHeld, BehindServiceLock, ServiceLockPc, ServicePc
  <2> QED
    BY <1>1, <2>1, <2>3, <2>4, ReleasingLeaves
<1>5. CASE UNCHANGED <<locks, held, lapsed>>
  BY <1>5, OtherStepsStutter
<1>6. \/ AcquireQueryLock(j)
      \/ ReleaseQueryLock(j) \/ ReleaseAfterError(j)
      \/ UNCHANGED <<locks, held, lapsed>>
  BY DEF ServiceStep, HandleDuplicateProcessing, CheckRateLimit, GetFromCache,
         FetchPost, SetCache, InvalidateCache, PublishResponse,
         HandleErrorAndPublish, ServiceAddToDLQ
<1> QED
  BY <1>3, <1>4, <1>5, <1>6

(* So does the consumer.                                                   *)
LEMMA ConsumerStepsLease ==
  ASSUME PipelineInv, LockInv, NEW j \in Job, ConsumerStep(j), NEW k \in LockKey
  PROVE  LeaseStep(k)
<1>1. PipelineTypeOK /\ KeysHeld(j)
  BY DEF PipelineInv, LockInv
<1>2. pc[j] \in ConsumerPc => ConsumerKey(j) \in LockKey
  BY KeysTyped DEF PipelineInv, CallInv, HasMessage, RunningPc
<1>3. CASE TryConsumerLock(j)
  <2>1. PICK r \in Reply : AcquireLock(j, ConsumerKey(j), r)
    BY <1>3 DEF TryConsumerLock
  <2>2. ConsumerKey(j) \in LockKey
    BY <1>2, <1>3 DEF TryConsumerLock, ConsumerPc
  <2> QED
    BY <1>1, <2>1, <2>2, AcquiringGrants
<1>4. CASE ReleaseConsumerLock(j)
  <2>1. PICK r \in Reply : ReleaseLock(j, ConsumerKey(j), r)
    BY <1>4 DEF ReleaseConsumerLock
  <2>2. pc[j] = "release"
    BY <1>4 DEF ReleaseConsumerLock
  <2>3. ConsumerKey(j) \in LockKey
    BY <1>2, <2>2 DEF ConsumerPc
  <2>4. ConsumerKey(j) \in held[j]
    BY <1>1, <2>2 DEF KeysHeld, BehindConsumerLock, ConsumerLockPc
  <2> QED
    BY <1>1, <2>1, <2>3, <2>4, ReleasingLeaves
<1>5. CASE UNCHANGED <<locks, held, lapsed>>
  BY <1>5, OtherStepsStutter
<1>6. \/ TryConsumerLock(j)
      \/ ReleaseConsumerLock(j)
      \/ UNCHANGED <<locks, held, lapsed>>
  BY DEF ConsumerStep, ClaimJob, CheckDlqDuplicate, AnswerDlqDuplicate,
         AnswerLockFailed, AnswerAndReturn, Validate, AnswerInvalid,
         RecheckDlqDuplicate, InvalidToDLQ, CatchToDLQ, CatchAnswer
<1> QED
  BY <1>3, <1>4, <1>5, <1>6

(* Every step of the pipeline is a step of each key's lease, or stutters.  *)
LEMMA StepsLease ==
  ASSUME TypeInv, LockInv, [Next]_vars, NEW k \in LockKey
  PROVE  LeaseStep(k)
<1>1. PipelineInv /\ PipelineTypeOK /\ GrantsInv
  BY DEF TypeInv, PipelineInv, LockInv
<1>2. ASSUME NEW j \in Job, JobStep(j)
      PROVE  LeaseStep(k)
  BY <1>1, <1>2, ServiceStepsLease, ConsumerStepsLease DEF JobStep
<1>3. CASE QueueStep
  BY <1>3, OtherStepsStutter
     DEF QueueStep, Settle, Stall, Deliver, Start, pipelineVars, localVars
<1>4. ASSUME NEW key \in LockKey, ExpireLock(key)
      PROVE  LeaseStep(k)
  BY <1>1, <1>4, ExpiryExpires
<1>5. ASSUME NEW w \in Worker, Crash(w)
      PROVE  LeaseStep(k)
  BY <1>1, <1>5, CrashLeaves
<1>6. ASSUME NEW key \in CacheKey, ExpireCache(key)
      PROVE  LeaseStep(k)
  BY <1>6, OtherStepsStutter DEF ExpireCache, localVars
<1>7. ASSUME NEW w \in Worker, LinkEnds(w)
      PROVE  LeaseStep(k)
  BY <1>7, OtherStepsStutter DEF LinkEnds, localVars
<1>8. CASE UNCHANGED vars
  BY <1>8, OtherStepsStutter DEF vars, pipelineVars, localVars
<1> QED
  BY <1>2, <1>3, <1>4, <1>5, <1>6, <1>7, <1>8 DEF Next, Environment

(* The pipeline implements the lease on every lock key, for any number of  *)
(* calls, processes, queries, crashes, resends and redeliveries: a key is  *)
(* granted only while free, and only its holder or its TTL frees it        *)
(* (lock.util.ts acquireLock, releaseLock and their two users).            *)
THEOREM LocksImplementLeases == Spec => LocksAreLeases
<1>1. Init => \A k \in LockKey : LeaseOf(k)!LeaseInit
  BY DEF Init, PipelineInit, LeaseOf!LeaseInit
<1>2. TypeInv /\ LockInv /\ [Next]_vars =>
        [\A k \in LockKey : LeaseStep(k)]_<<locks, held, lapsed>>
  BY StepsLease
<1> QED
  BY <1>1, <1>2, TypeInvariant, LockInvariant, PTL DEF Spec, LocksAreLeases

----------------------------------------------------------------------------
(* A call has no way back.                                                 *)

(* One await of a call leads on or ends the call.                          *)
Advances(j) ==
  /\ AwaitsLeft(j)' < AwaitsLeft(j)
  /\ pc'[j] \in RunningPc \union {"done"}

(* An await that leads on to others, or back to the lock with a try less.  *)
LEMMA OnwardAdvances ==
  ASSUME PipelineTypeOK, NEW j \in Job, pc'[j] \in PC,
         AwaitsAfter[pc'[j]] < AwaitsAfter[pc[j]], tries' = tries,
         pc'[j] \notin {"idle", "crashed"}
  PROVE  Advances(j)
<1>1. AwaitsAfter \in [PC -> Nat]
  BY DEF AwaitsAfter, PC, RunningPc, ConsumerPc, ServicePc
<1> QED
  BY <1>1 DEF Advances, AwaitsLeft, PipelineTypeOK, PC

(* Each await of the service, with where its tries and catches lead.       *)
LEMMA ServiceAdvances ==
  ASSUME PipelineTypeOK, NEW j \in Job, ServiceStep(j)
  PROVE  Advances(j)
<1> USE DEF Goto, Return, PipelineTypeOK
<1>1. /\ pc'[j] \in PC \ {"idle", "crashed"} /\ tries' = tries
      /\ pc[j] \in ServicePc
      /\ pc[j] = "svcLock" => pc'[j] \in {"catchDlq", "rate", "svcBusyAnswer"}
      /\ pc[j] = "svcBusyAnswer" => pc'[j] \in {"catchDlq", "release", "done"}
      /\ pc[j] = "rate" => pc'[j] \in {"svcErrorAnswer", "cacheGet", "svcRelease"}
      /\ pc[j] = "cacheGet" => pc'[j] \in {"svcErrorAnswer", "fetch", "purge"}
      /\ pc[j] = "fetch" => pc'[j] \in {"cacheSet", "svcErrorAnswer"}
      /\ pc[j] = "cacheSet" => pc'[j] \in {"svcErrorAnswer", "purge"}
      /\ pc[j] = "purge" => pc'[j] = "publish"
      /\ pc[j] = "publish" => pc'[j] \in {"svcErrorAnswer", "svcRelease"}
      /\ pc[j] = "svcRelease" => pc'[j] \in {"release", "done"}
      /\ pc[j] = "svcErrorAnswer" => pc'[j] = "svcErrorRelease"
      /\ pc[j] = "svcErrorRelease" => pc'[j] \in {"catchDlq", "svcErrorDlq"}
      /\ pc[j] = "svcErrorDlq" => pc'[j] \in {"catchDlq", "release", "done"}
  <2>1. CASE \/ AcquireQueryLock(j)
             \/ HandleDuplicateProcessing(j) \/ CheckRateLimit(j)
    BY <2>1 DEF AcquireQueryLock, HandleDuplicateProcessing, CheckRateLimit,
                PC, RunningPc, ConsumerPc, ServicePc
  <2>2. CASE GetFromCache(j) \/ FetchPost(j) \/ SetCache(j) \/ InvalidateCache(j)
    BY <2>2 DEF GetFromCache, FetchPost, SetCache, InvalidateCache,
                PC, RunningPc, ConsumerPc, ServicePc
  <2>3. CASE PublishResponse(j) \/ ReleaseQueryLock(j) \/ HandleErrorAndPublish(j)
    BY <2>3 DEF PublishResponse, ReleaseQueryLock, HandleErrorAndPublish,
                PC, RunningPc, ConsumerPc, ServicePc
  <2>4. CASE ReleaseAfterError(j) \/ ServiceAddToDLQ(j)
    BY <2>4 DEF ReleaseAfterError, ServiceAddToDLQ,
                PC, RunningPc, ConsumerPc, ServicePc
  <2> QED
    BY <2>1, <2>2, <2>3, <2>4 DEF ServiceStep
<1>2. AwaitsAfter[pc'[j]] < AwaitsAfter[pc[j]]
  BY <1>1 DEF AwaitsAfter, ServicePc
<1> QED
  BY <1>1, <1>2, OnwardAdvances

(* Each await of the consumer: only the lock is tried again, and counted.  *)
LEMMA ConsumerAdvances ==
  ASSUME PipelineTypeOK, NEW j \in Job, ConsumerStep(j)
  PROVE  Advances(j)
<1> USE DEF Goto, Return, PipelineTypeOK
<1>1. CASE TryConsumerLock(j)
  <2>1. /\ pc[j] = "lock"
        /\ \/ pc'[j] \in {"catchDlq", "validate"} /\ tries' = tries
           \/ pc'[j] \in {"lock", "busyAnswer"} /\ tries'[j] = tries[j] + 1
    BY <1>1 DEF TryConsumerLock
  <2>2. pc'[j] \in RunningPc
    BY <2>1 DEF RunningPc, ConsumerPc
  <2>3. AwaitsAfter[pc[j]] = 15 /\ AwaitsAfter[pc'[j]] \in 0..15
    BY <2>1 DEF AwaitsAfter
  <2>4. tries'[j] = tries[j] => AwaitsAfter[pc'[j]] < 15
    BY <2>1 DEF AwaitsAfter
  <2>5. /\ tries[j] \in Nat /\ LockAttempts \in Nat
        /\ tries'[j] = tries[j] \/ tries'[j] = tries[j] + 1
    BY <2>1
  <2> HIDE DEF PipelineTypeOK, Goto, Return
  <2>6. AwaitsLeft(j)' < AwaitsLeft(j)
    BY <2>3, <2>4, <2>5 DEF AwaitsLeft
  <2> QED
    BY <2>2, <2>6 DEF Advances
<1>2. CASE ~TryConsumerLock(j)
  <2>1. /\ pc'[j] \in PC \ {"idle", "crashed"} /\ tries' = tries
        /\ pc[j] \in ConsumerPc \ {"lock"}
        /\ pc[j] = "claim" => pc'[j] \in {"catchDlq", "dedup", "release", "done"}
        /\ pc[j] = "dedup" => pc'[j] \in {"dupAnswer", "lock"}
        /\ pc[j] \in {"dupAnswer", "busyAnswer"} =>
             pc'[j] \in {"catchDlq", "release", "done"}
        /\ pc[j] = "validate" =>
             pc'[j] \in {"invalidAnswer", "svcLock", "catchDlq"}
        /\ pc[j] = "invalidAnswer" => pc'[j] \in {"catchDlq", "recheck"}
        /\ pc[j] = "recheck" => pc'[j] \in {"release", "done", "invalidDlq"}
        /\ pc[j] = "invalidDlq" => pc'[j] \in {"catchDlq", "release", "done"}
        /\ pc[j] = "catchDlq" => pc'[j] \in {"catchAnswer", "release", "done"}
        /\ pc[j] = "catchAnswer" => pc'[j] \in {"release", "done"}
        /\ pc[j] = "release" => pc'[j] = "done"
    <3>1. CASE ClaimJob(j) \/ CheckDlqDuplicate(j) \/ Validate(j)
      BY <3>1 DEF ClaimJob, CheckDlqDuplicate, Validate, ProcessJob,
                  PC, RunningPc, ConsumerPc, ServicePc
    <3>2. CASE AnswerDlqDuplicate(j) \/ AnswerLockFailed(j) \/ AnswerInvalid(j)
      BY <3>2 DEF AnswerDlqDuplicate, AnswerLockFailed, AnswerAndReturn,
                  AnswerInvalid, PC, RunningPc, ConsumerPc, ServicePc
    <3>3. CASE RecheckDlqDuplicate(j) \/ InvalidToDLQ(j) \/ CatchToDLQ(j)
      BY <3>3 DEF RecheckDlqDuplicate, InvalidToDLQ, CatchToDLQ,
                  PC, RunningPc, ConsumerPc, ServicePc
    <3>4. CASE CatchAnswer(j) \/ ReleaseConsumerLock(j)
      BY <3>4 DEF CatchAnswer, ReleaseConsumerLock,
                  PC, RunningPc, ConsumerPc, ServicePc
    <3> QED
      BY <1>2, <3>1, <3>2, <3>3, <3>4 DEF ConsumerStep
  <2>2. AwaitsAfter[pc'[j]] < AwaitsAfter[pc[j]]
    BY <2>1 DEF AwaitsAfter, ConsumerPc
  <2> QED
    BY <2>1, <2>2, OnwardAdvances
<1> QED
  BY <1>1, <1>2

(* Every step of a call brings it nearer to its end.                       *)
THEOREM CallsOnlyAdvance == Spec => CallsAdvance
<1>1. TypeInv /\ [Next]_vars =>
        [\A j \in Job : JobStep(j) => AwaitsLeft(j)' < AwaitsLeft(j)]_vars
  BY ServiceAdvances, ConsumerAdvances DEF JobStep, Advances, TypeInv
<1> QED
  BY <1>1, TypeInvariant, PTL DEF Spec, CallsAdvance

----------------------------------------------------------------------------
(* The promises of module RequestService.                                  *)

(* What is answered and recorded stays so.                                 *)
Grows(j) ==
  /\ Answers(j)' >= Answers(j)
  /\ Records(j)' >= Records(j)
  /\ \A kind \in {"success", "error"} : Only(j, kind)' => Only(j, kind)

(* A step that answers and records nothing.                                *)
LEMMA SilentGrows ==
  ASSUME PipelineTypeOK, NEW j \in Job, UNCHANGED <<responses, dlq>>
  PROVE  Grows(j)
BY LengthsTyped, QuietEffect, UnrecordedEffect DEF Grows

(* A reply, of which a resend leaves a second entry.                       *)
LEMMA AnswerGrows ==
  ASSUME PipelineTypeOK, NEW j \in Job, NEW r \in Reply,
         NEW e \in ResponseEntry, Respond(j, e, r), UNCHANGED dlq
  PROVE  Grows(j)
<1>1. Executions(r) \in Nat
  BY DEF Executions
<1>2. Answers(j)' >= Answers(j)
  BY <1>1, RespondEffect
<1>3. \A kind \in {"success", "error"} : Only(j, kind)' => Only(j, kind)
  BY RespondEffect
<1>4. Records(j)' >= Records(j)
  BY LengthsTyped, UnrecordedEffect
<1> QED
  BY <1>2, <1>3, <1>4 DEF Grows

(* An entry for the DLQ, written or not.                                   *)
LEMMA RecordGrows ==
  ASSUME PipelineTypeOK, NEW j \in Job, NEW stream \in Prefix,
         NEW failed \in BOOLEAN, AddToDLQ(j, stream, failed), UNCHANGED responses
  PROVE  Grows(j)
<1>1. Records(j)' >= Records(j)
  <2>1. CASE EncryptionKey
    <3>1. PICK r \in Reply :
            dlq' = [dlq EXCEPT ![j] = @ \o [i \in 1..Executions(r) |-> stream]]
      BY <2>1 DEF AddToDLQ
    <3> DEFINE added == [i \in 1..Executions(r) |-> stream]
    <3>2. Executions(r) \in Nat
      BY DEF Executions
    <3>3. added \in Seq(Prefix) /\ dlq[j] \in Seq(Prefix)
      <4>1. dlq[j] \in Seq(Prefix)
        BY DEF PipelineTypeOK
      <4>2. added \in Seq(Prefix)
        BY <3>2
      <4> QED
        BY <4>1, <4>2
    <3>4. dlq'[j] = dlq[j] \o added
      BY <3>1 DEF PipelineTypeOK
    <3> HIDE DEF added
    <3>5. Len(dlq[j] \o added) = Len(dlq[j]) + Len(added)
      BY <3>3, LengthsAdd
    <3>6. Len(added) \in Nat /\ Len(dlq[j]) \in Nat
      BY <3>3
    <3>7. Len(dlq'[j]) >= Len(dlq[j])
      BY <3>4, <3>5, <3>6
    <3> QED
      BY <3>7 DEF Records
  <2>2. CASE ~EncryptionKey
    BY <2>2, LengthsTyped, UnrecordedEffect DEF AddToDLQ
  <2> QED
    BY <2>1, <2>2
<1>2. Answers(j)' >= Answers(j)
      /\ \A kind \in {"success", "error"} : Only(j, kind)' => Only(j, kind)
  BY LengthsTyped, QuietEffect
<1> QED
  BY <1>1, <1>2 DEF Grows

(* No step of the service takes back what was said, or the message.        *)
LEMMA ServiceGrows ==
  ASSUME PipelineInv, NEW j \in Job, ServiceStep(j)
  PROVE  Grows(j) /\ message' = message
<1>t. PipelineTypeOK /\ CallInv
  BY DEF PipelineInv
<1>1. CASE HandleDuplicateProcessing(j) \/ HandleErrorAndPublish(j)
  <2>1. ErrorEntry(j, Danbooru) \in ResponseEntry
    BY <1>t, EntriesTyped
  <2>2. PICK r \in Reply : Respond(j, ErrorEntry(j, Danbooru), r)
    BY <1>1 DEF HandleDuplicateProcessing, HandleErrorAndPublish
  <2> QED
    BY <1>t, <1>1, <2>1, <2>2, AnswerGrows
       DEF HandleDuplicateProcessing, HandleErrorAndPublish
<1>2. CASE PublishResponse(j)
  <2>1. SuccessEntry(j) \in ResponseEntry
    BY <1>t, <1>2, EntriesTyped DEF PublishResponse, CallInv, HasPost
  <2>2. PICK r \in Reply : Respond(j, SuccessEntry(j), r)
    BY <1>2 DEF PublishResponse
  <2> QED
    BY <1>t, <1>2, <2>1, <2>2, AnswerGrows DEF PublishResponse
<1>3. CASE ServiceAddToDLQ(j)
  <2>1. PICK failed \in BOOLEAN : AddToDLQ(j, Danbooru, failed)
    BY <1>3 DEF ServiceAddToDLQ
  <2>2. Danbooru \in Prefix
    OBVIOUS
  <2> QED
    BY <1>t, <1>3, <2>1, <2>2, RecordGrows DEF ServiceAddToDLQ
<1>4. \/ UNCHANGED <<responses, dlq, message>>
      \/ HandleDuplicateProcessing(j) \/ HandleErrorAndPublish(j)
      \/ PublishResponse(j) \/ ServiceAddToDLQ(j)
  BY DEF ServiceStep, AcquireQueryLock, CheckRateLimit, GetFromCache, FetchPost,
         SetCache, InvalidateCache, ReleaseQueryLock, ReleaseAfterError,
         streamVars
<1> QED
  BY <1>t, <1>1, <1>2, <1>3, <1>4, SilentGrows

(* Nor does a step of the consumer.                                        *)
LEMMA ConsumerGrows ==
  ASSUME PipelineInv, NEW j \in Job, ConsumerStep(j)
  PROVE  Grows(j) /\ message' = message
<1>t. PipelineTypeOK /\ CallInv
  BY DEF PipelineInv
<1>p. apiPrefix(j) \in Prefix /\ ErrorEntry(j, apiPrefix(j)) \in ResponseEntry
  <2>1. message[j] \in Message
    BY <1>t, ConsumerRuns DEF CallInv, HasMessage
  <2>2. apiPrefix(j) \in Prefix
    BY <2>1 DEF apiPrefix
  <2> QED
    BY <2>2, <1>t DEF ErrorEntry, ResponseEntry
<1>1. CASE AnswerDlqDuplicate(j) \/ AnswerLockFailed(j) \/ CatchAnswer(j)
  <2>1. PICK r \in Reply : Respond(j, ErrorEntry(j, apiPrefix(j)), r)
    BY <1>1 DEF AnswerDlqDuplicate, AnswerLockFailed, AnswerAndReturn, CatchAnswer
  <2> QED
    BY <1>t, <1>p, <1>1, <2>1, AnswerGrows
       DEF AnswerDlqDuplicate, AnswerLockFailed, AnswerAndReturn, CatchAnswer
<1>2. CASE AnswerInvalid(j)
  <2>1. PICK r \in Reply, named \in {j, None} :
          Respond(j, [ErrorEntry(j, apiPrefix(j)) EXCEPT !.jobId = named], r)
    BY <1>2 DEF AnswerInvalid
  <2>2. [ErrorEntry(j, apiPrefix(j)) EXCEPT !.jobId = named] \in ResponseEntry
    BY <1>p DEF ErrorEntry, ResponseEntry
  <2> QED
    BY <1>t, <1>2, <2>1, <2>2, AnswerGrows DEF AnswerInvalid
<1>3. CASE InvalidToDLQ(j) \/ CatchToDLQ(j)
  <2>1. PICK failed \in BOOLEAN : AddToDLQ(j, apiPrefix(j), failed)
    BY <1>3 DEF InvalidToDLQ, CatchToDLQ
  <2> QED
    BY <1>t, <1>p, <1>3, <2>1, RecordGrows DEF InvalidToDLQ, CatchToDLQ
<1>4. \/ UNCHANGED <<responses, dlq, message>>
      \/ AnswerDlqDuplicate(j) \/ AnswerLockFailed(j) \/ CatchAnswer(j)
      \/ AnswerInvalid(j) \/ InvalidToDLQ(j) \/ CatchToDLQ(j)
  BY DEF ConsumerStep, ClaimJob, CheckDlqDuplicate, TryConsumerLock, Validate,
         RecheckDlqDuplicate, ReleaseConsumerLock, streamVars
<1> QED
  BY <1>t, <1>1, <1>2, <1>3, <1>4, SilentGrows

(* The verdict on a request, by what its call has answered and recorded.   *)
VerdictCounts(j) ==
  /\ Answers(j) \in Nat /\ Records(j) \in Nat
  /\ VerdictOn(j) \subseteq {"posted", "failed"}
  /\ "posted" \in VerdictOn(j) <=> ~Only(j, "error")
  /\ "failed" \in VerdictOn(j) <=> ~Only(j, "success") \/ Records(j) > 0
  /\ Only(j, "error") /\ Only(j, "success") => Answers(j) = 0

(* Every call at once, for a statement about the next state.               *)
AllCounted == \A j \in Job : VerdictCounts(j)

(* The state determines the verdict as counted.                            *)
LEMMA VerdictByCounts == PipelineTypeOK => AllCounted
<1> SUFFICES ASSUME PipelineTypeOK, NEW j \in Job
             PROVE  VerdictCounts(j)
  BY DEF AllCounted
<1>1. responses[j] \in Seq(ResponseEntry) /\ dlq[j] \in Seq(Prefix)
  BY DEF PipelineTypeOK
<1>2. \A i \in DOMAIN responses[j] :
        responses[j][i].kind \in {"success", "error"}
  <2> SUFFICES ASSUME NEW i \in DOMAIN responses[j]
               PROVE  responses[j][i].kind \in {"success", "error"}
    OBVIOUS
  <2>1. responses[j][i] \in ResponseEntry
    BY <1>1
  <2> QED
    BY <2>1 DEF ResponseEntry
<1>3. /\ Has(j, "success") <=> ~Only(j, "error")
      /\ Has(j, "error") <=> ~Only(j, "success")
  BY <1>2 DEF Has, Only
<1>4. dlq[j] # <<>> <=> Records(j) > 0
  BY <1>1 DEF Records
<1>5. Only(j, "error") /\ Only(j, "success") => Answers(j) = 0
  <2> SUFFICES ASSUME Only(j, "error"), Only(j, "success"), Answers(j) # 0
               PROVE  FALSE
    OBVIOUS
  <2>1. 1 \in DOMAIN responses[j]
    BY <1>1 DEF Answers
  <2> QED
    BY <2>1 DEF Only
<1>6. /\ "posted" \in VerdictOn(j) <=> Has(j, "success")
      /\ "failed" \in VerdictOn(j) <=> Has(j, "error") \/ dlq[j] # <<>>
      /\ VerdictOn(j) \subseteq {"posted", "failed"}
  BY DEF VerdictOn, Told
<1> QED
  BY <1>3, <1>4, <1>5, <1>6, LengthsTyped DEF VerdictCounts

(* A job has one kind of answer and, if that is its post, no record.       *)
LEMMA OneVerdictOn ==
  ASSUME NEW j \in Job, VerdictCounts(j), CountInv(j)
  PROVE  VerdictOn(j) \in Service!Verdict
<1>1. ~("posted" \in VerdictOn(j) /\ "failed" \in VerdictOn(j))
  BY DEF VerdictCounts, CountInv
<1> QED
  BY <1>1 DEF VerdictCounts, Service!Verdict

(* A verdict stays, since answers and records only grow and a job has one  *)
(* kind of them.                                                           *)
LEMMA VerdictStays ==
  ASSUME NEW j \in Job, VerdictCounts(j), VerdictCounts(j)', Grows(j),
         VerdictOn(j)' \in Service!Verdict
  PROVE  VerdictOn(j) \in {{}, VerdictOn(j)'}
<1>1. /\ Answers(j) \in Nat /\ Records(j) \in Nat
      /\ Answers(j)' \in Nat /\ Records(j)' \in Nat
  BY DEF VerdictCounts
<1>2. VerdictOn(j) \subseteq VerdictOn(j)'
  <2>1. "posted" \in VerdictOn(j) => "posted" \in VerdictOn(j)'
    BY DEF VerdictCounts, Grows
  <2>2. "failed" \in VerdictOn(j) => "failed" \in VerdictOn(j)'
    BY <1>1 DEF VerdictCounts, Grows
  <2> QED
    BY <2>1, <2>2 DEF VerdictCounts
<1>3. CASE VerdictOn(j)' = {}
  BY <1>2, <1>3
<1>4. ASSUME NEW v \in {"posted", "failed"}, VerdictOn(j)' = {v}
      PROVE  VerdictOn(j) \in {{}, VerdictOn(j)'}
  BY <1>2, <1>4
<1> QED
  BY <1>3, <1>4 DEF Service!Verdict

(* An excuse stays: a call that is done keeps its message and its outcome. *)
LEMMA ExcusesStay ==
  ASSUME NEW c \in Job, ClientEnded(c) => ClientEnded(c)',
         resends \in Nat, resends' \in Nat, resends' >= resends,
         pc[c] = "done" => /\ pc'[c] = "done"
                           /\ message'[c] = message[c]
                           /\ outcome'[c] = outcome[c]
  PROVE  ExcusesOf(c) \subseteq ExcusesOf(c)'
BY DEF ExcusesOf, Excuse

(* How a call may stand, in terms of the calls.                            *)
MayStand(j) ==
  \/ StageOf(j) = "working"
  \/ /\ StageOf(j) = "returned"
     /\ VerdictOn(j) # {} \/ ExcusesOf(j) \intersect Service!Silent # {}
  \/ /\ StageOf(j) = "rejected"
     /\ ExcusesOf(j) \intersect Service!Rejecting # {}

(* What a call has reported at its end and why it throws is what it owes.  *)
LEMMA ReportsSuffice ==
  ASSUME NEW j \in Job, VerdictCounts(j), StageInv(j), CauseInv(j),
         pc[j] \in RunningPc \union {"done"}
  PROVE  MayStand(j)
<1>1. CASE pc[j] \in RunningPc
  BY <1>1 DEF MayStand, StageOf, Running, RunningPc, ConsumerPc, ServicePc
<1>2. CASE pc[j] = "done" /\ outcome[j] = "thrown"
  <2>1. StageOf(j) = "rejected"
    BY <1>2 DEF StageOf, Running, RunningPc, ConsumerPc, ServicePc
  <2>2. \E e \in {"malformed", "noKey", "clientEnded"} : Excuse(j, e)
    BY <1>2 DEF CauseInv, Excuse
  <2> QED
    BY <2>1, <2>2 DEF MayStand, ExcusesOf, Service!Rejecting
<1>3. CASE pc[j] = "done" /\ outcome[j] # "thrown"
  <2>1. StageOf(j) = "returned"
    BY <1>3 DEF StageOf, Running, RunningPc, ConsumerPc, ServicePc
  <2>2. \/ VerdictOn(j) # {}
        \/ \E e \in {"refused", "resentClaim"} : Excuse(j, e)
    BY <1>3 DEF StageInv, VerdictCounts, Excuse
  <2> QED
    BY <2>1, <2>2 DEF MayStand, ExcusesOf, Service!Silent
<1> QED
  BY <1>1, <1>2, <1>3

(* The calls map to what the service says of them, now and after a step.   *)
MappedTypes ==
  \A j \in Job : /\ StageOf(j) \in Service!Stage
                 /\ VerdictOn(j) \in Service!Verdict
                 /\ ExcusesOf(j) \subseteq Service!Silent \union Service!Rejecting

(* They do in every state of the right types.                              *)
LEMMA TypesMap == PipelineTypeOK /\ ReportInv => MappedTypes
<1>1. \A j \in Job : StageOf(j) \in Service!Stage
  BY DEF StageOf, Service!Stage
<1>2. \A j \in Job :
        ExcusesOf(j) \subseteq Service!Silent \union Service!Rejecting
  BY DEF ExcusesOf, Service!Silent, Service!Rejecting
<1>3. PipelineTypeOK /\ ReportInv =>
        \A j \in Job : VerdictOn(j) \in Service!Verdict
  BY VerdictByCounts, OneVerdictOn DEF AllCounted, ReportInv
<1> QED
  BY <1>1, <1>2, <1>3 DEF MappedTypes

(* What is the same in the pipeline is the same in the service.            *)
LEMMA OthersStayMapped ==
  ASSUME MappedTypes', NEW j \in Job,
         \A c \in Job \ {j} : /\ StageOf(c)' = StageOf(c)
                              /\ VerdictOn(c)' = VerdictOn(c)
  PROVE  Service!OthersStay(j)
BY DEF Service!OthersStay, MappedTypes

LEMMA ExcusesGrowMapped ==
  ASSUME MappedTypes',
         \A c \in Job : ExcusesOf(c) \subseteq ExcusesOf(c)'
  PROVE  Service!ExcusesGrow
BY DEF Service!ExcusesGrow, MappedTypes

LEMMA StandingMapped ==
  ASSUME NEW j \in Job, MayStand(j)'
  PROVE  Service!MayBe(j)'
BY DEF Service!MayBe, MayStand

(* A step of a call is work of the service.                                *)
LEMMA CallsWork ==
  ASSUME TypeInv, TypeInv', ReportInv, ReportInv', NEW j \in Job, JobStep(j)
  PROVE  Service!Work(j)
<1>1. PipelineInv /\ PipelineTypeOK /\ PipelineTypeOK'
  BY DEF TypeInv, PipelineInv
<1>2. /\ pc[j] \in RunningPc /\ pc'[j] \in RunningPc \union {"done"}
      /\ Grows(j) /\ message' = message
      /\ TouchesOnly(j)
  BY <1>1, ServiceRuns, ConsumerRuns, ServiceGrows, ConsumerGrows,
     ServiceTouches, ConsumerTouches DEF JobStep
<1>3. \A c \in Job : ClientEnded(c) => ClientEnded(c)'
  <2>1. pc[j] # "crashed"
    BY <1>2 DEF RunningPc, ConsumerPc, ServicePc
  <2> QED
    BY <1>2, <2>1, EndedStays
<1>4. VerdictCounts(j) /\ VerdictCounts(j)'
  <2>1. (PipelineTypeOK => AllCounted)'
    BY VerdictByCounts, PTL
  <2> QED
    BY <1>1, <2>1, VerdictByCounts DEF AllCounted
<1>5. \A c \in Job \ {j} : /\ StageOf(c)' = StageOf(c)
                            /\ VerdictOn(c)' = VerdictOn(c)
  BY <1>2 DEF TouchesOnly, StageOf, Running, VerdictOn, Told, Has
<1>6. MappedTypes'
  <2>1. (PipelineTypeOK /\ ReportInv => MappedTypes)'
    BY TypesMap, PTL
  <2> QED
    BY <1>1, <2>1
<1>7. VerdictOn(j) \in {{}, VerdictOn(j)'}
  BY <1>2, <1>4, <1>6, VerdictStays DEF MappedTypes
<1>8. \A c \in Job : ExcusesOf(c) \subseteq ExcusesOf(c)'
  <2> SUFFICES ASSUME NEW c \in Job
               PROVE  ExcusesOf(c) \subseteq ExcusesOf(c)'
    OBVIOUS
  <2>1. pc[c] = "done" => c # j
    BY <1>2 DEF RunningPc, ConsumerPc, ServicePc
  <2> QED
    BY <1>2, <1>3, <2>1, ExcusesStay DEF TouchesOnly
<1>9. MayStand(j)'
  <2>1. StageInv(j)' /\ CauseInv(j)' /\ VerdictCounts(j)'
    BY <1>4 DEF ReportInv
  <2>2. (VerdictCounts(j) /\ StageInv(j) /\ CauseInv(j)
          /\ pc[j] \in RunningPc \union {"done"} => MayStand(j))'
    BY ReportsSuffice, PTL
  <2> QED
    BY <1>2, <2>1, <2>2
<1>10. StageOf(j) = "working"
  BY <1>2 DEF StageOf, Running, RunningPc, ConsumerPc, ServicePc
<1>11. status' = status
  BY DEF JobStep, queueVars
<1>12. Service!OthersStay(j) /\ Service!ExcusesGrow /\ Service!MayBe(j)'
  BY <1>5, <1>6, <1>8, <1>9, OthersStayMapped, ExcusesGrowMapped,
     StandingMapped
<1> QED
  BY <1>2, <1>7, <1>10, <1>11, <1>12 DEF Service!Work

(* A delivery hands a message to a call that has said nothing yet.         *)
LEMMA DeliveriesHand ==
  ASSUME TypeInv, TypeInv', ReportInv, ReportInv', NEW m \in Message,
         NEW j \in Job, Deliver(m, j)
  PROVE  Service!Hand(m, j)
<1>1. PipelineTypeOK /\ PipelineTypeOK'
  BY DEF TypeInv
<1>2. /\ pc[j] = "idle" /\ pc'[j] \in RunningPc \union {"done"}
      /\ UNCHANGED <<responses, dlq, link, resends>>
      /\ message' = [message EXCEPT ![j] = m]
      /\ \A c \in Job \ {j} : pc'[c] = pc[c] /\ outcome'[c] = outcome[c]
      /\ status[m] = "waiting" /\ status' = [status EXCEPT ![m] = "active"]
  BY <1>1 DEF Deliver, Start, Goto, PipelineTypeOK, streamVars, linkVars,
              RunningPc, ConsumerPc
<1>3. /\ \A c \in Job \ {j} : message'[c] = message[c]
      /\ resends \in Nat
  BY <1>1, <1>2 DEF PipelineTypeOK
<1>4. \A c \in Job : VerdictOn(c)' = VerdictOn(c)
  BY <1>2 DEF VerdictOn, Told, Has
<1>5. \A c \in Job \ {j} : StageOf(c)' = StageOf(c)
  BY <1>2 DEF StageOf, Running
<1>6. \A c \in Job : ExcusesOf(c) \subseteq ExcusesOf(c)'
  <2> SUFFICES ASSUME NEW c \in Job
               PROVE  ExcusesOf(c) \subseteq ExcusesOf(c)'
    OBVIOUS
  <2>1. ClientEnded(c) => ClientEnded(c)'
    BY <1>2 DEF ClientEnded, Up
  <2> QED
    BY <1>2, <1>3, <2>1, ExcusesStay
<1>7. MappedTypes' /\ VerdictCounts(j)'
  <2>1. (PipelineTypeOK /\ ReportInv => MappedTypes)' /\ (PipelineTypeOK => AllCounted)'
    BY TypesMap, VerdictByCounts, PTL
  <2> QED
    BY <1>1, <2>1 DEF AllCounted
<1>8. MayStand(j)'
  <2>1. StageInv(j)' /\ CauseInv(j)'
    BY DEF ReportInv
  <2>2. (VerdictCounts(j) /\ StageInv(j) /\ CauseInv(j)
          /\ pc[j] \in RunningPc \union {"done"} => MayStand(j))'
    BY ReportsSuffice, PTL
  <2> QED
    BY <1>2, <1>7, <2>1, <2>2
<1>9. StageOf(j) = "none"
  BY <1>2 DEF StageOf, Running, RunningPc, ConsumerPc, ServicePc
<1>10. Service!OthersStay(j) /\ Service!ExcusesGrow /\ Service!MayBe(j)'
  BY <1>4, <1>5, <1>6, <1>7, <1>8, OthersStayMapped, ExcusesGrowMapped,
     StandingMapped
<1> QED
  BY <1>2, <1>4, <1>9, <1>10 DEF Service!Hand

(* A crash kills the calls of one process; a client that ends excuses its  *)
(* calls.                                                                  *)
LEMMA CrashesKill ==
  ASSUME TypeInv, TypeInv', ReportInv', NEW w \in Worker,
         Crash(w) \/ LinkEnds(w)
  PROVE  Service!Die
<1>1. PipelineTypeOK /\ PipelineTypeOK'
  BY DEF TypeInv
<1>2. UNCHANGED <<message, outcome, responses, dlq, resends, status>>
  BY DEF Crash, LinkEnds, localVars, streamVars, queueVars
<1>3. \A c \in Job : pc'[c] = pc[c] \/ (Running(c) /\ pc'[c] = "crashed")
  BY DEF Crash, LinkEnds, localVars
<1>4. \A c \in Job : ClientEnded(c) => ClientEnded(c)'
  <2>1. CASE Crash(w)
    BY <1>1, <2>1, CrashKeepsEnded
  <2>2. CASE LinkEnds(w)
    <3>1. pc' = pc /\ \A v \in Worker : link'[v] => link[v]
      BY <1>1, <2>2 DEF LinkEnds, localVars, PipelineTypeOK
    <3> QED
      BY <3>1 DEF ClientEnded, Up
  <2> QED
    BY <2>1, <2>2
<1>5. \A c \in Job : VerdictOn(c)' = VerdictOn(c)
  BY <1>2 DEF VerdictOn, Told, Has
<1>6. \A c \in Job : \/ StageOf(c)' = StageOf(c)
                     \/ StageOf(c) = "working" /\ StageOf(c)' = "dead"
  BY <1>2, <1>3 DEF StageOf, Running, RunningPc, ConsumerPc, ServicePc
<1>7. \A c \in Job : ExcusesOf(c) \subseteq ExcusesOf(c)'
  <2> SUFFICES ASSUME NEW c \in Job
               PROVE  ExcusesOf(c) \subseteq ExcusesOf(c)'
    OBVIOUS
  <2>1. pc[c] = "done" => pc'[c] = "done"
    BY <1>3 DEF Running, RunningPc, ConsumerPc, ServicePc
  <2>2. resends \in Nat
    BY <1>1 DEF PipelineTypeOK
  <2> QED
    BY <1>2, <1>4, <2>1, <2>2, ExcusesStay
<1>8. MappedTypes'
  <2>1. (PipelineTypeOK /\ ReportInv => MappedTypes)'
    BY TypesMap, PTL
  <2> QED
    BY <1>1, <2>1
<1>9. Service!ExcusesGrow
  BY <1>7, <1>8, ExcusesGrowMapped
<1> QED
  BY <1>2, <1>5, <1>6, <1>8, <1>9 DEF Service!Die, MappedTypes

(* Where the calls do nothing, the service sees at most a message settled. *)
CallsRest ==
  UNCHANGED <<message, [j \in Job |-> StageOf(j)], [j \in Job |-> VerdictOn(j)],
              [j \in Job |-> ExcusesOf(j)]>>

(* The service sees of a call only what it was given, has said and is at.  *)
LEMMA QuietCallsRest ==
  ASSUME UNCHANGED <<pc, message, outcome, responses, dlq, link, resends>>
  PROVE  CallsRest
<1>1. \A j \in Job : StageOf(j)' = StageOf(j)
  BY DEF StageOf, Running
<1>2. \A j \in Job : VerdictOn(j)' = VerdictOn(j)
  BY DEF VerdictOn, Told, Has
<1>3. \A j \in Job : ExcusesOf(j)' = ExcusesOf(j)
  BY DEF ExcusesOf, Excuse, ClientEnded, Up
<1> QED
  BY <1>1, <1>2, <1>3 DEF CallsRest

(* A settled message was active; the call that completes it has returned.  *)
LEMMA SettlingSettles ==
  ASSUME TypeInv, OwnerInv, NEW m \in Message, Settle(m) \/ Stall(m)
  PROVE  Service!Complete(m) \/ Service!GiveUp(m)
<1>1. CallsRest
  BY QuietCallsRest
     DEF Settle, Stall, pipelineVars, localVars, streamVars, linkVars
<1>2. status[m] = "active"
  BY DEF Settle, Stall
<1>3. \/ \E s \in {"waiting", "failed"} : status' = [status EXCEPT ![m] = s]
      \/ /\ status' = [status EXCEPT ![m] = "completed"]
         /\ pc[owner[m]] = "done" /\ outcome[owner[m]] # "thrown"
  BY DEF Settle, Stall
<1>4. CASE \E s \in {"waiting", "failed"} : status' = [status EXCEPT ![m] = s]
  BY <1>1, <1>2, <1>4 DEF Service!GiveUp, CallsRest
<1>5. CASE /\ status' = [status EXCEPT ![m] = "completed"]
           /\ pc[owner[m]] = "done" /\ outcome[owner[m]] # "thrown"
  <2>1. owner[m] \in Job /\ message[owner[m]] = m
    BY <1>2 DEF OwnerInv
  <2>2. StageOf(owner[m]) = "returned"
    BY <1>5 DEF StageOf, Running, RunningPc, ConsumerPc, ServicePc
  <2> QED
    BY <1>1, <1>2, <1>5, <2>1, <2>2 DEF Service!Complete, CallsRest
<1> QED
  BY <1>3, <1>4, <1>5

(* Every step of the pipeline is a step of the service, or stutters.       *)
LEMMA StepsServe ==
  ASSUME TypeInv, TypeInv', ReportInv, ReportInv', SettledInv, [Next]_vars
  PROVE  [Service!ServiceNext]_(Service!serviceVars)
<1>1. ASSUME NEW j \in Job, JobStep(j)
      PROVE  Service!ServiceNext
  BY <1>1, CallsWork DEF Service!ServiceNext
<1>2. ASSUME NEW m \in Message, NEW j \in Job, Deliver(m, j)
      PROVE  Service!ServiceNext
  BY <1>2, DeliveriesHand DEF Service!ServiceNext
<1>3. ASSUME NEW m \in Message, Settle(m) \/ Stall(m)
      PROVE  Service!ServiceNext
  BY <1>3, SettlingSettles DEF Service!ServiceNext, SettledInv
<1>4. ASSUME NEW w \in Worker, Crash(w) \/ LinkEnds(w)
      PROVE  Service!ServiceNext
  BY <1>4, CrashesKill DEF Service!ServiceNext
<1>5. ASSUME \/ \E k \in LockKey : ExpireLock(k)
             \/ \E k \in CacheKey : ExpireCache(k)
             \/ UNCHANGED vars
      PROVE  UNCHANGED Service!serviceVars
  <2>1. CallsRest /\ status' = status
    BY <1>5, QuietCallsRest
       DEF ExpireLock, ExpireCache, vars, pipelineVars, localVars, streamVars,
           linkVars, queueVars
  <2> QED
    BY <2>1 DEF CallsRest, Service!serviceVars
<1> QED
  BY <1>1, <1>2, <1>3, <1>4, <1>5 DEF Next, QueueStep, Environment

(* The pipeline begins as the service does.                                *)
LEMMA InitServes == Init => Service!ServiceInit
<1> SUFFICES ASSUME Init PROVE Service!ServiceInit
  OBVIOUS
<1>1. \A j \in Job : /\ pc[j] = "idle"
                     /\ responses[j] = <<>> /\ dlq[j] = <<>>
  BY DEF Init, PipelineInit
<1>2. \A j \in Job : StageOf(j) = "none" /\ VerdictOn(j) = {}
  BY <1>1 DEF StageOf, Running, RunningPc, ConsumerPc, ServicePc,
              VerdictOn, Told, Has
<1>3. \A j \in Job :
        ExcusesOf(j) \subseteq Service!Silent \union Service!Rejecting
  BY DEF ExcusesOf, Service!Silent, Service!Rejecting
<1> QED
  BY <1>2, <1>3 DEF Init, PipelineInit, Service!ServiceInit

(* Whatever fails, crashes, is resent or delivered again, a call gives one *)
(* verdict on its request, ends with it or with an excuse, and completes   *)
(* its message only so (redis-stream.consumer.ts process with all it       *)
(* calls).                                                                 *)
THEOREM PromisesAreKept == Spec => KeepsPromises
<1>1. TypeInv /\ TypeInv' /\ ReportInv /\ ReportInv' /\ SettledInv /\ [Next]_vars
        => [Service!ServiceNext]_(Service!serviceVars)
  BY StepsServe
<1> QED
  BY <1>1, InitServes, TypeInvariant, ReportInvariant, SettledInvariant, PTL
     DEF Spec, KeepsPromises, Service!ServiceSpec
=============================================================================
