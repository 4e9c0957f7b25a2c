-------------------------- MODULE DeadLetterQueue --------------------------
(***************************************************************************)
(* What becomes of failed requests: the stream danbooru-dlq that addToDLQ  *)
(* fills, DlqConsumer that is to drain it into the dead queue, and         *)
(* retryFromDLQ that is to put a request back on danbooru:requests.        *)
(* Drainers are the DlqConsumers of the worker processes, retriers the     *)
(* callers of retryFromDLQ, which src/ exports and never calls.  Each      *)
(* awaited command is a step; any of them may fail, before or after it was *)
(* executed, and a process may die between two of them.                    *)
(***************************************************************************)
EXTENDS Naturals, FiniteSets

CONSTANTS
  Entry,          \* the entries addToDLQ will write: numbers in stream order
  QueryOf,        \* [Entry -> queries]; every entry is of a job of its own
  Drainer, Retrier,
  EntryFields,    \* the names of the fields an entry has
  FieldsAsPairs,  \* does XRANGE return pairs, as the code reads them?
  DrainReads,     \* does XREAD return entries?  As shipped it names the
                  \* stream danbooru:dlq and has arguments Redis refuses
  EncryptionKey,  \* is ENCRYPTION_KEY set?
  Window,         \* DLQ_DEDUP_WINDOW_SECONDS
  RangeCount,     \* the COUNT of XRANGE, 100
  ReadCount,      \* the COUNT of XREAD, 10
  None,
  MaxTime,        \* bound: the time that passes
  MaxFaults       \* bound: commands that fail and processes that die

ASSUME DLQAssumption ==
  /\ Entry \subseteq Nat
  /\ None \notin Nat
  /\ {FieldsAsPairs, DrainReads, EncryptionKey} \subseteq BOOLEAN
  /\ {Window, MaxTime, MaxFaults} \subseteq Nat
  /\ {RangeCount, ReadCount} \subseteq Nat \ {0}

VARIABLES
  now,
  dlq,         \* the entries in danbooru-dlq
  recordedAt,  \* [Entry -> time or None]: when the entry was written, its id
  marker,      \* [Entry -> time or None]: when dedup:job:{jobId} was last set
  dead,        \* the entries copied to danbooru-dead
  requested,   \* what was put on danbooru:requests, see Request
  batch,       \* [Drainer -> entries]: read and not yet processed
  drain,       \* [Drainer -> "poll", "entry" or "delete"]
  retry,       \* [Retrier -> Retry]
  faults

streamVars == <<dlq, recordedAt, marker, dead, requested>>
vars == <<now, streamVars, batch, drain, retry, faults>>

(* A call of retryFromDLQ: its step, its entry, the clock its dedupCheck   *)
(* read.  "addUnchecked" is "add" behind a dedupCheck that failed.         *)
Retry == [at : {"idle", "exists", "mark", "scan", "add", "addUnchecked",
                "delete"},
          entry : Entry \union {None}, since : Nat]
Idle == [at |-> "idle", entry |-> None, since |-> 0]

Request == [entry : Entry, by : Retrier, since : Nat, at : Nat,
            checked : BOOLEAN]

Init ==
  /\ now = 0
  /\ dlq = {} /\ dead = {} /\ requested = {}
  /\ recordedAt = [e \in Entry |-> None]
  /\ marker = [e \in Entry |-> None]
  /\ batch = [d \in Drainer |-> {}]
  /\ drain = [d \in Drainer |-> "poll"]
  /\ retry = [p \in Retrier |-> Idle]
  /\ faults = 0

(* A command is answered; or executed with its answer lost, or not         *)
(* executed, and throws in both cases.                                     *)
Outcome == {"answered", "unheard", "failed"}
Command(o) ==
  IF o = "answered" THEN UNCHANGED faults
  ELSE faults < MaxFaults /\ faults' = faults + 1
Executed(o) == o # "failed"
Threw(o) == o # "answered"

Readable(fields) == FieldsAsPairs /\ fields \subseteq EntryFields

Oldest(S) == CHOOSE e \in S : \A f \in S : e <= f
First(n, S) == {e \in S : Cardinality({f \in S : f < e}) < n}

----------------------------------------------------------------------------
(* The pipeline fails a job and adds an entry.  Its dedupCheck has set the *)
(* job's marker before, unless Redis failed it.                            *)
addToDLQ(e) ==
  /\ recordedAt[e] = None
  /\ \A f \in Entry : f < e => recordedAt[f] # None
  /\ recordedAt' = [recordedAt EXCEPT ![e] = now]
  /\ dlq' = dlq \union {e}
  /\ marker' \in {marker, [marker EXCEPT ![e] = now]}
  /\ UNCHANGED <<now, dead, requested, batch, drain, retry, faults>>

----------------------------------------------------------------------------
(* processDLQ reads up to ReadCount entries.  The loop of startProcessing  *)
(* polls for ever; a read that throws or finds nothing changes nothing.    *)
Read(d) ==
  /\ DrainReads
  /\ drain[d] = "poll"
  /\ dlq # {}
  /\ batch' = [batch EXCEPT ![d] = First(ReadCount, dlq)]
  /\ drain' = [drain EXCEPT ![d] = "entry"]
  /\ UNCHANGED <<now, streamVars, retry, faults>>

(* !jobId || !error || !queryHash, where queryHash is the field 'query'.   *)
Complete == Readable({"jobId", "error", "query"})

(* The catch of processDLQ drops the rest of the batch.                    *)
Abandon(d) ==
  /\ batch' = [batch EXCEPT ![d] = {}]
  /\ drain' = [drain EXCEPT ![d] = "poll"]

(* Both branches move a complete entry to the dead queue: a retry is       *)
(* skipped because the query is masked.                                    *)
MoveToDeadQueueRegardless(d) ==   \* mutant: its failure is swallowed
  /\ drain[d] = "entry" /\ Complete
  /\ \E o \in Outcome :
       /\ Command(o)
       /\ dead' = IF Executed(o) /\ EncryptionKey
                  THEN dead \union {Oldest(batch[d])} ELSE dead
       /\ drain' = [drain EXCEPT ![d] = "delete"]
  /\ UNCHANGED <<now, dlq, recordedAt, marker, requested, batch, retry>>
moveToDeadQueue(d) ==
  /\ drain[d] = "entry" /\ Complete
  /\ \E o \in Outcome :
       /\ Command(o)
       /\ dead' = IF Executed(o) /\ EncryptionKey
                  THEN dead \union {Oldest(batch[d])} ELSE dead
       /\ IF Threw(o) \/ ~EncryptionKey THEN Abandon(d)
          ELSE drain' = [drain EXCEPT ![d] = "delete"] /\ UNCHANGED batch
  /\ UNCHANGED <<now, dlq, recordedAt, marker, requested, retry>>

(* XDEL of an entry that was moved, or that is not complete.               *)
MayDelete(d) == drain[d] = "delete" \/ (drain[d] = "entry" /\ ~Complete)
Skip(d) ==   \* mutant: the entry stays in the stream
  /\ MayDelete(d)
  /\ Abandon(d)
  /\ UNCHANGED <<now, streamVars, retry, faults>>
DeleteDrained(d) ==
  /\ MayDelete(d)
  /\ \E o \in Outcome :
       LET e == Oldest(batch[d])
           rest == batch[d] \ {e}
       IN  /\ Command(o)
           /\ dlq' = IF Executed(o) THEN dlq \ {e} ELSE dlq
           /\ IF Threw(o) \/ rest = {} THEN Abandon(d)
              ELSE /\ batch' = [batch EXCEPT ![d] = rest]
                   /\ drain' = [drain EXCEPT ![d] = "entry"]
  /\ UNCHANGED <<now, recordedAt, marker, dead, requested, retry>>

----------------------------------------------------------------------------
At(p, step) == retry[p].at = step
Goto(p, step) == retry' = [retry EXCEPT ![p].at = step]
Stop(p) == retry' = [retry EXCEPT ![p] = Idle]

(* retryFromDLQ up to the clock of its dedupCheck: without a key or the    *)
(* entry, or with fields it cannot read, it returns and changes nothing.   *)
RetryFromDLQ(p, e) ==
  /\ At(p, "idle")
  /\ EncryptionKey
  /\ e \in dlq
  /\ Readable({"encryptedQuery", "queryHash"})
  /\ retry' = [retry EXCEPT ![p] =
                 [at |-> "exists", entry |-> e, since |-> now]]
  /\ UNCHANGED <<now, streamVars, batch, drain, faults>>

(* dedupCheck: EXISTS, SETEX and XRANGE, each awaited.  A failure of any   *)
(* lets the request pass.                                                  *)
Marked(e) == marker[e] # None /\ now < marker[e] + Window
CheckMarker(p) ==
  /\ At(p, "exists")
  /\ \E o \in Outcome :
       /\ Command(o)
       /\ IF ~Threw(o) /\ Marked(retry[p].entry) THEN Stop(p)
          ELSE Goto(p, IF Threw(o) THEN "addUnchecked" ELSE "mark")
  /\ UNCHANGED <<now, streamVars, batch, drain>>

SetNoMarker(p) ==   \* mutant
  /\ At(p, "mark")
  /\ Goto(p, "scan")
  /\ UNCHANGED <<now, streamVars, batch, drain, faults>>
SetMarker(p) ==
  /\ At(p, "mark")
  /\ \E o \in Outcome :
       /\ Command(o)
       /\ marker' = IF Executed(o)
                    THEN [marker EXCEPT ![retry[p].entry] = now] ELSE marker
       /\ Goto(p, IF Threw(o) THEN "addUnchecked" ELSE "scan")
  /\ UNCHANGED <<now, dlq, recordedAt, dead, requested, batch, drain>>

(* XRANGE from now - window - 1 to now returns the oldest RangeCount       *)
(* entries; one with the same query makes a duplicate.                     *)
DlqHitNewest(p) ==   \* mutant: the window is taken for milliseconds
  \E e \in dlq : recordedAt[e] >= retry[p].since
                 /\ QueryOf[e] = QueryOf[retry[p].entry]
DlqHit(p) ==
  LET inWindow == {e \in dlq :
                     /\ recordedAt[e] + Window + 1 >= retry[p].since
                     /\ recordedAt[e] <= retry[p].since}
  IN  \E e \in First(RangeCount, inWindow) :
        QueryOf[e] = QueryOf[retry[p].entry]
ScanDLQ(p) ==
  /\ At(p, "scan")
  /\ \E o \in Outcome :
       /\ Command(o)
       /\ IF ~Threw(o) /\ DlqHit(p) THEN Stop(p)
          ELSE Goto(p, IF Threw(o) THEN "addUnchecked" ELSE "add")
  /\ UNCHANGED <<now, streamVars, batch, drain>>

(* XADD to danbooru:requests.                                              *)
ThisRequest(p) ==
  [entry |-> retry[p].entry, by |-> p, since |-> retry[p].since, at |-> now,
   checked |-> At(p, "add")]
AddRequestRegardless(p) ==   \* mutant: its failure is swallowed
  /\ At(p, "add") \/ At(p, "addUnchecked")
  /\ \E o \in Outcome :
       /\ Command(o)
       /\ requested' = IF Executed(o) THEN requested \union {ThisRequest(p)}
                       ELSE requested
       /\ Goto(p, "delete")
  /\ UNCHANGED <<now, dlq, recordedAt, marker, dead, batch, drain>>
AddRequest(p) ==
  /\ At(p, "add") \/ At(p, "addUnchecked")
  /\ \E o \in Outcome :
       /\ Command(o)
       /\ requested' = IF Executed(o) THEN requested \union {ThisRequest(p)}
                       ELSE requested
       /\ IF Threw(o) THEN Stop(p) ELSE Goto(p, "delete")
  /\ UNCHANGED <<now, dlq, recordedAt, marker, dead, batch, drain>>

DeleteRetried(p) ==
  /\ At(p, "delete")
  /\ \E o \in Outcome :
       /\ Command(o)
       /\ dlq' = IF Executed(o) THEN dlq \ {retry[p].entry} ELSE dlq
  /\ Stop(p)
  /\ UNCHANGED <<now, recordedAt, marker, dead, requested, batch, drain>>

----------------------------------------------------------------------------
(* A process dies: what it was doing ends, and a new one starts over.      *)
CrashDrainer(d) ==
  /\ drain[d] # "poll"
  /\ faults < MaxFaults /\ faults' = faults + 1
  /\ Abandon(d)
  /\ UNCHANGED <<now, streamVars, retry>>
CrashRetrier(p) ==
  /\ ~At(p, "idle")
  /\ faults < MaxFaults /\ faults' = faults + 1
  /\ Stop(p)
  /\ UNCHANGED <<now, streamVars, batch, drain>>

Tick ==
  /\ now < MaxTime
  /\ now' = now + 1
  /\ UNCHANGED <<streamVars, batch, drain, retry, faults>>

Drain(d) == Read(d) \/ moveToDeadQueue(d) \/ DeleteDrained(d)
RetryStep(p) ==
  \/ \E e \in Entry : RetryFromDLQ(p, e)
  \/ CheckMarker(p) \/ SetMarker(p) \/ ScanDLQ(p)
  \/ AddRequest(p) \/ DeleteRetried(p)

Next ==
  \/ \E e \in Entry : addToDLQ(e)
  \/ \E d \in Drainer : Drain(d) \/ CrashDrainer(d)
  \/ \E p \in Retrier : RetryStep(p) \/ CrashRetrier(p)
  \/ Tick

Spec == Init /\ [][Next]_vars

(* The loop of startProcessing runs for ever: its awaits end, and it polls *)
(* again two seconds later.                                                *)
FairSpec == Spec /\ \A d \in Drainer : WF_vars(Drain(d))

----------------------------------------------------------------------------
(* The type invariant of the streams and of the loops that work on them: a *)
(* loop of processDLQ between two polls has an entry left, and a call of   *)
(* retryFromDLQ has its own.                                               *)
TypeOK ==
  /\ now \in Nat /\ faults \in Nat
  /\ dlq \subseteq Entry /\ dead \subseteq Entry /\ requested \subseteq Request
  /\ recordedAt \in [Entry -> Nat \union {None}]
  /\ marker \in [Entry -> Nat \union {None}]
  /\ batch \in [Drainer -> SUBSET Entry]
  /\ drain \in [Drainer -> {"poll", "entry", "delete"}]
  /\ \A d \in Drainer : drain[d] # "poll" => batch[d] # {}
  /\ retry \in [Retrier -> Retry]
  /\ \A p \in Retrier : retry[p].at # "idle" => retry[p].entry \in Entry

(* No failed request is lost: its entry is in the DLQ until it is in the   *)
(* dead queue or among the requests again (moveToDeadQueue and the XADD of *)
(* retryFromDLQ stand before the XDEL), whichever command fails and        *)
(* whoever dies or works on the same entry.                                *)
Requested == {r.entry : r \in requested}
NothingLost ==
  \A e \in Entry : recordedAt[e] # None => e \in dlq \union dead \union Requested

(* A failed query is not requested again within the dedup window of its    *)
(* failure (dedupCheck in retryFromDLQ), unless Redis failed the check.    *)
RetryWaitsForWindow ==
  \A r \in requested : r.checked => r.since > recordedAt[r.entry] + Window

(* Of two requests for one entry, the second comes a window after the      *)
(* first was begun: an entry that a crash left in the DLQ behind its XADD  *)
(* is held back by the marker.                                             *)
RequestsApart ==
  \A r, s \in requested :
    r # s /\ r.entry = s.entry /\ r.checked /\ s.checked =>
      r.at >= s.since + Window \/ s.at >= r.since + Window

(* What is recorded as failed is retried or moved to the dead queue in the *)
(* end (startProcessing, README: "DLQ Consumer: Retry or dead").           *)
Drained == \A e \in Entry : (e \in dlq) ~> (e \notin dlq)
============================================================================
