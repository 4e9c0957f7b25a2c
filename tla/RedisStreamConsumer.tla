------------------------ MODULE RedisStreamConsumer ------------------------
(***************************************************************************)
(* RedisStreamConsumer.process, the BullMQ processor: claim the jobId,     *)
(* look for a recent failure of the query, lock the query, validate, hand  *)
(* the job to the API service, and turn every exception into a DLQ entry   *)
(* and an error answer.                                                    *)
(***************************************************************************)
EXTENDS DanbooruService

(* process() is called.  Reading the query's length and hash comes before  *)
(* the try block, so data without a query rejects at once.                 *)
Start(j, m) ==
  /\ pc[j] = "idle"
  /\ message' = [message EXCEPT ![j] = m]
  /\ IF m \in Malformed
     THEN /\ Goto(j, "done")
          /\ outcome' = [outcome EXCEPT ![j] = "thrown"]
     ELSE /\ Goto(j, "claim")
          /\ UNCHANGED outcome
  /\ UNCHANGED <<tries, post, held, lapsed, streamVars, keyVars, linkVars,
                 locks, cache>>

(* Job-level deduplication: SET processed:{jobId} NX.  A reply other than  *)
(* OK ends the call without an answer.                                     *)
ClaimJob(j) ==
  /\ pc[j] = "claim"
  /\ \E r \in Reply :
       LET fresh == j \notin processed /\ r # "resent"
       IN  /\ Command(j, r)
           /\ processed' = IF Executed(r) THEN processed \union {j} ELSE processed
           /\ IF Threw(r) THEN Goto(j, "catchDlq") /\ UNCHANGED outcome
              ELSE IF fresh THEN Goto(j, "dedup") /\ UNCHANGED outcome
              ELSE Return(j, "duplicateJob")
  /\ UNCHANGED <<message, tries, post, held, lapsed, streamVars, marker, locks,
                 cache>>

(* dedupCheck: EXISTS dedup:job:{jobId}, SETEX of the same key, and an     *)
(* XRANGE over the DLQ stream.  Only this job uses the key, so the three   *)
(* commands are one step at the XRANGE; what throws is read as "no".       *)
DlqHit(j) ==
  /\ FieldsAsPairs
  /\ \E other \in Job :
       /\ message[other] # None
       /\ query(other) = query(j)
       /\ \E i \in DOMAIN dlq[other] : dlq[other][i] = apiPrefix(j)

Duplicate(j, r) == ~Threw(r) /\ (j \in marker \/ DlqHit(j))

DedupCheck(j, r) ==
  /\ r # "resent"     \* EXISTS, SETEX and XRANGE may as well be repeated
  /\ Command(j, r)
  /\ marker' = IF Executed(r) THEN marker \union {j} ELSE marker

CheckDlqDuplicate(j) ==
  /\ pc[j] = "dedup"
  /\ \E r \in Reply :
       /\ DedupCheck(j, r)
       /\ Goto(j, IF Duplicate(j, r) THEN "dupAnswer" ELSE "lock")
  /\ UNCHANGED <<message, tries, post, outcome, held, lapsed, streamVars,
                 processed, locks, cache>>

(* An answer after which the call returns; what throws is caught below.    *)
AnswerAndReturn(j, at, how) ==
  /\ pc[j] = at
  /\ \E r \in Reply :
       /\ Command(j, r)
       /\ Respond(j, ErrorEntry(j, apiPrefix(j)), r)
       /\ IF Threw(r) THEN Goto(j, "catchDlq") /\ UNCHANGED outcome
                      ELSE Return(j, how)
  /\ UNCHANGED <<message, tries, post, held, lapsed, dlq, keyVars, locks, cache>>

AnswerDlqDuplicate(j) == AnswerAndReturn(j, "dupAnswer", "duplicateQuery")
AnswerLockFailed(j) == AnswerAndReturn(j, "busyAnswer", "lockFailed")

(* acquireLock: LockAttempts tries with a sleep after each.                *)
TriesLeftOffByOne(j) == tries[j] + 1 <= LockAttempts   \* mutant
TriesLeft(j) == tries[j] + 1 < LockAttempts

TryConsumerLock(j) ==
  /\ pc[j] = "lock"
  /\ \E r \in Reply :
       /\ Command(j, r)
       /\ AcquireLock(j, ConsumerKey(j), r)
       /\ tries' = IF Threw(r) \/ Granted(ConsumerKey(j), r)
                   THEN tries ELSE [tries EXCEPT ![j] = @ + 1]
       /\ Goto(j, CASE Threw(r) -> "catchDlq"
                    [] Granted(ConsumerKey(j), r) -> "validate"
                    [] OTHER -> IF TriesLeft(j) THEN "lock" ELSE "busyAnswer")
  /\ UNCHANGED <<message, post, outcome, streamVars, keyVars, cache>>

(* validateMessage: a validator that throws makes the message invalid.     *)
Verdict == {"valid", "invalid"}

(* processJob hands a message to the service its prefix names.             *)
ProcessJob(j) == IF apiPrefix(j) \in Supported THEN "svcLock" ELSE "catchDlq"

(* moduleRef.get may throw, the first time.                                *)
Validate(j) ==
  /\ pc[j] = "validate"
  /\ \E verdict \in Verdict \union {"unavailable"} :
       Goto(j, CASE verdict = "invalid" -> "invalidAnswer"
                 [] verdict = "valid" -> ProcessJob(j)
                 [] OTHER -> "catchDlq")
  /\ UNCHANGED <<message, tries, post, outcome, held, lapsed, streamVars,
                 keyVars, linkVars, locks, cache>>

(* A validator that throws is answered under our jobId, a message it       *)
(* refuses under the jobId the client sent, or 'unknown'.                  *)
AnswerInvalid(j) ==
  /\ pc[j] = "invalidAnswer"
  /\ \E r \in Reply, named \in {j, None} :
       /\ Command(j, r)
       /\ Respond(j, [ErrorEntry(j, apiPrefix(j)) EXCEPT !.jobId = named], r)
       /\ Goto(j, IF Threw(r) THEN "catchDlq" ELSE "recheck")
  /\ UNCHANGED <<message, tries, post, outcome, held, lapsed, dlq, keyVars,
                 locks, cache>>

(* The same dedupCheck once more, before the DLQ entry.                    *)
RecheckDlqDuplicate(j) ==
  /\ pc[j] = "recheck"
  /\ \E r \in Reply :
       /\ DedupCheck(j, r)
       /\ IF Duplicate(j, r) THEN Return(j, "invalid")
          ELSE Goto(j, "invalidDlq") /\ UNCHANGED outcome
  /\ UNCHANGED <<message, tries, post, held, lapsed, streamVars, processed,
                 locks, cache>>

InvalidToDLQ(j) ==
  /\ pc[j] = "invalidDlq"
  /\ \E failed \in BOOLEAN :
       /\ AddToDLQ(j, apiPrefix(j), failed)
       /\ IF failed THEN Goto(j, "catchDlq") /\ UNCHANGED outcome
                    ELSE Return(j, "invalid")
  /\ UNCHANGED <<message, tries, post, held, lapsed, responses, keyVars, locks,
                 cache>>

(* The catch block: DLQ entry first, then the answer.  What either throws  *)
(* rejects process().                                                      *)
CatchToDLQ(j) ==
  /\ pc[j] = "catchDlq"
  /\ \E failed \in BOOLEAN :
       /\ AddToDLQ(j, apiPrefix(j), failed)
       /\ IF failed THEN Return(j, "thrown")
                    ELSE Goto(j, "catchAnswer") /\ UNCHANGED outcome
  /\ UNCHANGED <<message, tries, post, held, lapsed, responses, keyVars, locks,
                 cache>>

(* Mutants: the catch block rethrows; it swallows a failed publication.    *)
CatchAnswerRethrowing(j) ==
  /\ pc[j] = "catchAnswer"
  /\ \E r \in Reply :
       Command(j, r) /\ Respond(j, ErrorEntry(j, apiPrefix(j)), r)
  /\ Return(j, "thrown")
  /\ UNCHANGED <<message, tries, post, held, lapsed, dlq, keyVars, locks, cache>>
CatchAnswerSwallowing(j) ==
  /\ pc[j] = "catchAnswer"
  /\ \E r \in Reply :
       Command(j, r) /\ Respond(j, ErrorEntry(j, apiPrefix(j)), r)
  /\ Return(j, "failed")
  /\ UNCHANGED <<message, tries, post, held, lapsed, dlq, keyVars, locks, cache>>

CatchAnswer(j) ==
  /\ pc[j] = "catchAnswer"
  /\ \E r \in Reply :
       /\ Command(j, r)
       /\ Respond(j, ErrorEntry(j, apiPrefix(j)), r)
       /\ Return(j, IF Threw(r) THEN "thrown" ELSE "failed")
  /\ UNCHANGED <<message, tries, post, held, lapsed, dlq, keyVars, locks, cache>>

(* The finally block of process().                                         *)
ReleaseConsumerLock(j) ==
  /\ pc[j] = "release"
  /\ \E r \in Reply : Command(j, r) /\ ReleaseLock(j, ConsumerKey(j), r)
  /\ Goto(j, "done")
  /\ UNCHANGED <<message, tries, post, outcome, streamVars, keyVars, cache>>

ConsumerStep(j) ==
  \/ ClaimJob(j)
  \/ CheckDlqDuplicate(j)
  \/ AnswerDlqDuplicate(j)
  \/ AnswerLockFailed(j)
  \/ TryConsumerLock(j)
  \/ Validate(j)
  \/ AnswerInvalid(j)
  \/ RecheckDlqDuplicate(j)
  \/ InvalidToDLQ(j)
  \/ CatchToDLQ(j)
  \/ CatchAnswer(j)
  \/ ReleaseConsumerLock(j)
============================================================================
