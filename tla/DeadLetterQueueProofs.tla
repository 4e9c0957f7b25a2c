----------------------- MODULE DeadLetterQueueProofs -----------------------
(***************************************************************************)
(* No failed request is lost, for any number of entries, drainers,         *)
(* retriers and faults, as long as a drain that reads entries finds the    *)
(* fields it looks for: the one that src/ ships reads none.  The           *)
(* strengthening says what a process knows that is about to delete an      *)
(* entry: the copy is there already, and copies stay.                      *)
(* With one caller of retryFromDLQ, requests of one entry are a window     *)
(* apart; if nobody drains the stream and COUNT covers it, no request      *)
(* comes within the window of its failure.                                 *)
(***************************************************************************)
EXTENDS DeadLetterQueue, FiniteSetTheorems, WellFoundedInduction, TLAPS

(* Who stands before an XDEL has a copy of the entry behind it.            *)
CopiedFirst ==
  /\ \A d \in Drainer : drain[d] = "delete" => Oldest(batch[d]) \in dead
  /\ \A p \in Retrier : retry[p].at = "delete" => retry[p].entry \in Requested

(* A drain whose XREAD returns nothing never gets to work on an entry.     *)
NoEntryNoWork == DrainReads \/ \A d \in Drainer : drain[d] = "poll"

(* What the drain needs: that it reads nothing, as shipped, or that the    *)
(* entries have the fields processDLQ asks for.                            *)
ReadsComplete == DrainReads => Complete

DLQInv == TypeOK /\ CopiedFirst /\ NothingLost

(* The oldest of a set of entries is one of them, and it is what XREAD and *)
(* XRANGE return first.                                                    *)
LEMMA OldestInside ==
  ASSUME NEW S \in SUBSET Entry, S # {}
  PROVE  Oldest(S) \in S /\ \A f \in S : Oldest(S) <= f
<1>1. PICK e \in S : \A f \in S : ~(<<f, e>> \in OpToRel(<, Nat))
  BY WFMin, NatLessThanWellFounded, DLQAssumption
<1>2. \A f \in S : e <= f
  <2> TAKE f \in S
  <2>1. e \in Nat /\ f \in Nat
    BY DLQAssumption
  <2>2. ~(f < e)
    BY <1>1, <2>1 DEF OpToRel
  <2>3. QED
    BY <2>1, <2>2
<1>3. QED
  BY <1>2 DEF Oldest

(* A read of a stream with entries returns some of them.                   *)
LEMMA FirstInside ==
  ASSUME NEW S \in SUBSET Entry, NEW n \in Nat \ {0}, S # {}
  PROVE  First(n, S) \subseteq Entry /\ First(n, S) # {}
<1>1. Oldest(S) \in S /\ {f \in S : f < Oldest(S)} = {}
  <2>1. Oldest(S) \in S /\ \A f \in S : Oldest(S) <= f
    BY OldestInside
  <2>2. \A f \in S : f \in Nat /\ Oldest(S) \in Nat
    BY <2>1, DLQAssumption
  <2>3. \A f \in S : ~(f < Oldest(S))
    BY <2>1, <2>2
  <2>4. QED
    BY <2>1, <2>3
<1>2. Oldest(S) \in First(n, S)
  BY <1>1, FS_EmptySet DEF First
<1>3. QED
  BY <1>2 DEF First

(* The streams start empty.                                                *)
LEMMA DLQInit == Init => DLQInv
  BY DLQAssumption DEF Init, DLQInv, TypeOK, CopiedFirst, NothingLost, Idle,
     Retry

(* addToDLQ keeps the invariant.                                           *)
LEMMA DLQAdd ==
  ASSUME DLQInv, NEW e \in Entry, addToDLQ(e)  PROVE DLQInv'
  BY DLQAssumption DEF addToDLQ, DLQInv, TypeOK, CopiedFirst, NothingLost,
     Requested

(* So does processDLQ, if it finds the fields it looks for.                *)
LEMMA DLQDrain ==
  ASSUME DLQInv, Complete, NEW d \in Drainer, Drain(d) \/ CrashDrainer(d)
  PROVE  DLQInv'
<1>1. CASE Read(d)
  <2>1. First(ReadCount, dlq) \subseteq Entry /\ First(ReadCount, dlq) # {}
    BY <1>1, FirstInside, DLQAssumption DEF Read, DLQInv, TypeOK
  <2>2. TypeOK'
    BY <1>1, <2>1 DEF Read, DLQInv, TypeOK, streamVars
  <2>3. CopiedFirst'
    <3>1. \A c \in Drainer : drain'[c] = "delete" =>
            c # d /\ drain[c] = "delete" /\ batch'[c] = batch[c]
      BY <1>1 DEF Read, DLQInv, TypeOK
    <3>2. QED
      BY <1>1, <3>1 DEF Read, DLQInv, CopiedFirst, Requested, streamVars
  <2>4. NothingLost'
    BY <1>1 DEF Read, DLQInv, NothingLost, Requested, streamVars
  <2>5. QED
    BY <2>2, <2>3, <2>4 DEF DLQInv
<1>2. CASE moveToDeadQueue(d)
  <2>1. PICK o \in Outcome :
          /\ dead' = IF Executed(o) /\ EncryptionKey
                     THEN dead \union {Oldest(batch[d])} ELSE dead
          /\ IF Threw(o) \/ ~EncryptionKey THEN Abandon(d)
             ELSE drain' = [drain EXCEPT ![d] = "delete"] /\ UNCHANGED batch
    BY <1>2 DEF moveToDeadQueue
  <2>2. TypeOK'
    <3>1. batch[d] \in SUBSET Entry /\ batch[d] # {}
      BY <1>2 DEF moveToDeadQueue, DLQInv, TypeOK
    <3>2. Oldest(batch[d]) \in Entry
      BY <3>1, OldestInside
    <3>3. dead' \subseteq Entry
      BY <2>1, <3>2 DEF DLQInv, TypeOK
    <3>4. /\ batch' \in [Drainer -> SUBSET Entry]
          /\ drain' \in [Drainer -> {"poll", "entry", "delete"}]
          /\ \A c \in Drainer : drain'[c] # "poll" => batch'[c] # {}
      BY <2>1, <3>1 DEF Abandon, DLQInv, TypeOK
    <3>5. faults' \in Nat
      BY <1>2, DLQAssumption DEF moveToDeadQueue, Command, DLQInv, TypeOK
    <3>6. QED
      BY <1>2, <3>3, <3>4, <3>5 DEF moveToDeadQueue, DLQInv, TypeOK
  <2>3. dead \subseteq dead'
    BY <2>1
  <2>4. CopiedFirst'
    <3>1. ASSUME NEW c \in Drainer, drain'[c] = "delete"
          PROVE  Oldest(batch'[c]) \in dead'
      <4>1. CASE c = d
        BY <2>1, <3>1, <4>1 DEF Abandon, Threw, Executed, DLQInv, TypeOK
      <4>2. CASE c # d
        BY <2>1, <2>3, <3>1, <4>2 DEF Abandon, DLQInv, TypeOK, CopiedFirst
      <4>3. QED
        BY <4>1, <4>2
    <3>2. QED
      BY <1>2, <3>1 DEF moveToDeadQueue, DLQInv, CopiedFirst, Requested
  <2>5. NothingLost'
    BY <1>2, <2>3 DEF moveToDeadQueue, DLQInv, NothingLost, Requested
  <2>6. QED
    BY <2>2, <2>4, <2>5 DEF DLQInv
<1>3. CASE DeleteDrained(d)
  <2>1. drain[d] = "delete"
    BY <1>3 DEF DeleteDrained, MayDelete
  <2>2. Oldest(batch[d]) \in dead
    BY <2>1 DEF DLQInv, CopiedFirst
  <2>3. PICK o \in Outcome :
          /\ Command(o)
          /\ dlq' = IF Executed(o) THEN dlq \ {Oldest(batch[d])} ELSE dlq
          /\ IF Threw(o) \/ batch[d] \ {Oldest(batch[d])} = {} THEN Abandon(d)
             ELSE /\ batch' = [batch EXCEPT ![d] =
                                batch[d] \ {Oldest(batch[d])}]
                  /\ drain' = [drain EXCEPT ![d] = "entry"]
    BY <1>3 DEF DeleteDrained
  <2>4. TypeOK'
    <3>1. faults' \in Nat
      BY <2>3, DLQAssumption DEF Command, DLQInv, TypeOK
    <3>2. /\ batch' \in [Drainer -> SUBSET Entry]
          /\ drain' \in [Drainer -> {"poll", "entry", "delete"}]
          /\ \A c \in Drainer : drain'[c] # "poll" => batch'[c] # {}
      BY <2>3 DEF Abandon, DLQInv, TypeOK
    <3>3. QED
      BY <1>3, <2>3, <3>1, <3>2 DEF DeleteDrained, DLQInv, TypeOK
  <2>5. CopiedFirst'
    <3>1. \A c \in Drainer : drain'[c] = "delete" =>
            drain[c] = "delete" /\ batch'[c] = batch[c]
      BY <2>3 DEF Abandon, DLQInv, TypeOK
    <3>2. QED
      BY <1>3, <3>1 DEF DeleteDrained, DLQInv, CopiedFirst, Requested
  <2>6. NothingLost'
    BY <1>3, <2>2, <2>3 DEF DeleteDrained, DLQInv, NothingLost, Requested
  <2>7. QED
    BY <2>4, <2>5, <2>6 DEF DLQInv
<1>4. CASE CrashDrainer(d)
  BY <1>4, DLQAssumption DEF CrashDrainer, Abandon, DLQInv, TypeOK, CopiedFirst,
     NothingLost, Requested, streamVars
<1>5. QED
  BY <1>1, <1>2, <1>3, <1>4 DEF Drain

(* What a step of retryFromDLQ does to the record of its call.             *)
LEMMA StepOrStop ==
  ASSUME TypeOK, NEW p \in Retrier, retry[p].at # "idle",
         \/ Stop(p)
         \/ \E s \in {"mark", "scan", "add", "addUnchecked", "delete"} :
              Goto(p, s)
  PROVE  /\ retry' \in [Retrier -> Retry]
         /\ \A q \in Retrier : retry'[q].at # "idle" =>
              retry'[q].entry \in Entry /\ retry'[q].entry = retry[q].entry
         /\ \A q \in Retrier : q # p => retry'[q] = retry[q]
<1>1. CASE Stop(p)
  BY <1>1 DEF Stop, Idle, Retry, TypeOK
<1>2. ASSUME NEW s \in {"mark", "scan", "add", "addUnchecked", "delete"},
             Goto(p, s)
      PROVE  /\ retry' \in [Retrier -> Retry]
             /\ \A q \in Retrier : retry'[q].at # "idle" =>
                  retry'[q].entry \in Entry /\ retry'[q].entry = retry[q].entry
             /\ \A q \in Retrier : q # p => retry'[q] = retry[q]
  <2>1. /\ retry'[p].entry = retry[p].entry
        /\ \A q \in Retrier : q # p => retry'[q] = retry[q]
        /\ retry'[p] \in Retry
        /\ retry' \in [Retrier -> Retry]
    BY <1>2 DEF Goto, Retry, TypeOK
  <2>2. QED
    BY <2>1 DEF TypeOK
<1>3. QED
  BY <1>1, <1>2

(* A step before the XADD changes no stream but the markers.               *)
LEMMA CheckKeeps ==
  ASSUME DLQInv, NEW p \in Retrier, retry[p].at # "idle",
         \/ Stop(p)
         \/ \E s \in {"mark", "scan", "add", "addUnchecked"} : Goto(p, s),
         marker' \in [Entry -> Nat \union {None}], faults' \in Nat,
         UNCHANGED <<now, dlq, recordedAt, dead, requested, batch, drain>>
  PROVE  DLQInv'
<1>1. /\ retry' \in [Retrier -> Retry]
      /\ \A q \in Retrier : retry'[q].at # "idle" =>
           retry'[q].entry \in Entry /\ retry'[q].entry = retry[q].entry
      /\ \A q \in Retrier : q # p => retry'[q] = retry[q]
  BY StepOrStop DEF DLQInv
<1>2. retry'[p].at # "delete"
  BY DEF Stop, Goto, Idle, Retry, DLQInv, TypeOK
<1>3. TypeOK'
  BY <1>1 DEF DLQInv, TypeOK
<1>4. CopiedFirst'
  BY <1>1, <1>2 DEF DLQInv, CopiedFirst, Requested
<1>5. NothingLost'
  BY DEF DLQInv, NothingLost, Requested
<1>6. QED
  BY <1>3, <1>4, <1>5 DEF DLQInv

(* So does retryFromDLQ, and its death at any point.                       *)
LEMMA DLQRetry ==
  ASSUME DLQInv, NEW p \in Retrier, RetryStep(p) \/ CrashRetrier(p)
  PROVE  DLQInv'
<1>1. \A o \in Outcome : Command(o) => faults' \in Nat
  BY DLQAssumption DEF Command, DLQInv, TypeOK
<1>2. ASSUME NEW e \in Entry, RetryFromDLQ(p, e)  PROVE DLQInv'
  <2>1. retry' = [retry EXCEPT ![p] =
                    [at |-> "exists", entry |-> e, since |-> now]]
    BY <1>2 DEF RetryFromDLQ
  <2>2. TypeOK'
    BY <1>2, <2>1 DEF RetryFromDLQ, DLQInv, TypeOK, Retry, streamVars
  <2>3. CopiedFirst' /\ NothingLost'
    BY <1>2, <2>1 DEF RetryFromDLQ, DLQInv, TypeOK, CopiedFirst, NothingLost,
       Requested, streamVars
  <2>4. QED
    BY <2>2, <2>3 DEF DLQInv
<1>3. CASE CheckMarker(p)
  BY <1>1, <1>3, CheckKeeps DEF CheckMarker, At, streamVars, DLQInv, TypeOK
<1>4. CASE SetMarker(p)
  <2>1. retry[p].entry \in Entry
    BY <1>4 DEF SetMarker, At, DLQInv, TypeOK
  <2>2. marker' \in [Entry -> Nat \union {None}]
    BY <1>4, <2>1 DEF SetMarker, DLQInv, TypeOK
  <2>3. QED
    BY <1>1, <1>4, <2>2, CheckKeeps DEF SetMarker, At
<1>5. CASE ScanDLQ(p)
  BY <1>1, <1>5, CheckKeeps DEF ScanDLQ, At, streamVars, DLQInv, TypeOK
<1>6. CASE AddRequest(p)
  <2>1. PICK o \in Outcome :
          /\ Command(o)
          /\ requested' = IF Executed(o) THEN requested \union {ThisRequest(p)}
                          ELSE requested
          /\ IF Threw(o) THEN Stop(p) ELSE Goto(p, "delete")
    BY <1>6 DEF AddRequest
  <2>2. /\ retry' \in [Retrier -> Retry]
        /\ \A q \in Retrier : retry'[q].at # "idle" =>
             retry'[q].entry \in Entry /\ retry'[q].entry = retry[q].entry
        /\ \A q \in Retrier : q # p => retry'[q] = retry[q]
    BY <1>6, <2>1, StepOrStop DEF AddRequest, At, DLQInv
  <2>3. requested \subseteq requested' /\ Requested \subseteq Requested'
    BY <2>1 DEF Requested
  <2>4. ThisRequest(p) \in Request /\ ThisRequest(p).entry = retry[p].entry
    <3>1. retry[p].entry \in Entry /\ retry[p].since \in Nat /\ now \in Nat
      BY <1>6 DEF AddRequest, At, DLQInv, TypeOK, Retry
    <3>2. QED
      BY <3>1 DEF ThisRequest, Request, At
  <2>5. ~Threw(o) => retry[p].entry \in Requested'
    BY <2>1, <2>4 DEF Threw, Executed, Requested
  <2>6. retry'[p].at = "delete" => ~Threw(o)
    BY <2>1 DEF Stop, Idle, DLQInv, TypeOK
  <2>7. TypeOK'
    BY <1>1, <1>6, <2>1, <2>2, <2>4 DEF AddRequest, DLQInv, TypeOK
  <2>8. CopiedFirst'
    <3>1. \A q \in Retrier :
            retry'[q].at = "delete" => retry'[q].entry \in Requested'
      BY <2>2, <2>3, <2>5, <2>6 DEF DLQInv, CopiedFirst
    <3>2. QED
      BY <1>6, <3>1 DEF AddRequest, DLQInv, CopiedFirst
  <2>9. NothingLost'
    BY <1>6, <2>3 DEF AddRequest, DLQInv, NothingLost
  <2>10. QED
    BY <2>7, <2>8, <2>9 DEF DLQInv
<1>7. CASE DeleteRetried(p)
  <2>1. /\ Stop(p) /\ retry[p].at = "delete" /\ faults' \in Nat
        /\ dlq' \in {dlq, dlq \ {retry[p].entry}}
    BY <1>1, <1>7 DEF DeleteRetried, At
  <2>2. /\ retry' \in [Retrier -> Retry]
        /\ \A q \in Retrier : retry'[q].at # "idle" =>
             retry'[q].entry \in Entry /\ retry'[q].entry = retry[q].entry
        /\ \A q \in Retrier : q # p => retry'[q] = retry[q]
    BY <2>1, StepOrStop DEF DLQInv
  <2>3. TypeOK'
    BY <1>7, <2>1, <2>2 DEF DeleteRetried, DLQInv, TypeOK
  <2>4. CopiedFirst'
    BY <1>7, <2>1, <2>2 DEF DeleteRetried, Stop, Idle, DLQInv, TypeOK,
       CopiedFirst, Requested
  <2>5. NothingLost'
    BY <1>7, <2>1 DEF DeleteRetried, DLQInv, CopiedFirst, NothingLost, Requested
  <2>6. QED
    BY <2>3, <2>4, <2>5 DEF DLQInv
<1>8. CASE CrashRetrier(p)
  BY <1>8, CheckKeeps, DLQAssumption DEF CrashRetrier, At, streamVars, DLQInv,
     TypeOK
<1>9. QED
  BY <1>2, <1>3, <1>4, <1>5, <1>6, <1>7, <1>8 DEF RetryStep

(* So do the clock and a step of nobody.                                   *)
LEMMA DLQRest ==
  ASSUME DLQInv, Tick \/ UNCHANGED vars  PROVE DLQInv'
  BY DEF DLQInv, TypeOK, CopiedFirst, NothingLost, Requested, Tick, vars,
     streamVars

(* A drain that reads nothing stays at its poll.                           *)
LEMMA NextNoEntryNoWork == NoEntryNoWork /\ [Next]_vars => NoEntryNoWork'
<1> SUFFICES ASSUME NoEntryNoWork, [Next]_vars, ~DrainReads
             PROVE  drain' = drain
  BY DEF NoEntryNoWork
<1>1. \A d \in Drainer : drain[d] = "poll"
  BY DEF NoEntryNoWork
<1>2. \A d \in Drainer : ~Drain(d) /\ ~CrashDrainer(d)
  BY <1>1 DEF Drain, Read, moveToDeadQueue, DeleteDrained, MayDelete,
     CrashDrainer
<1>3. CASE \E e \in Entry : addToDLQ(e)
  BY <1>3 DEF addToDLQ
<1>4. CASE \E p \in Retrier : RetryStep(p) \/ CrashRetrier(p)
  BY <1>4 DEF RetryStep, RetryFromDLQ, CheckMarker, SetMarker, ScanDLQ,
     AddRequest, DeleteRetried, CrashRetrier
<1>5. CASE Tick \/ UNCHANGED vars
  BY <1>5 DEF Tick, vars
<1> QED
  BY <1>2, <1>3, <1>4, <1>5 DEF Next

(* The invariant is inductive.                                             *)
DrainInv == DLQInv /\ NoEntryNoWork

LEMMA InitDrainInv == Init => DrainInv
BY DLQInit DEF DrainInv, NoEntryNoWork, Init

LEMMA NextDrainInv ==
  ASSUME ReadsComplete  PROVE DrainInv /\ [Next]_vars => DrainInv'
<1> SUFFICES ASSUME DrainInv, [Next]_vars
             PROVE  DrainInv'
  OBVIOUS
<1>1. DLQInv /\ NoEntryNoWork
  BY DEF DrainInv
<1>2. ASSUME NEW d \in Drainer, Drain(d) \/ CrashDrainer(d)
      PROVE  DLQInv'
  <2>1. DrainReads
    BY <1>1, <1>2 DEF NoEntryNoWork, Drain, Read, moveToDeadQueue,
       DeleteDrained, MayDelete, CrashDrainer
  <2> QED
    BY <1>1, <1>2, <2>1, DLQDrain DEF ReadsComplete
<1>3. DLQInv'
  BY <1>1, <1>2, DLQAdd, DLQRetry, DLQRest DEF Next
<1> QED
  BY <1>1, <1>3, NextNoEntryNoWork DEF DrainInv

(* The types hold; a drain between two polls always has an entry left.     *)
THEOREM DLQTypes == ASSUME ReadsComplete  PROVE Spec => []TypeOK
<1>1. DrainInv => TypeOK
  BY DEF DrainInv, DLQInv
<1>2. QED
  BY <1>1, InitDrainInv, NextDrainInv, PTL DEF Spec

(* Whatever fails or dies, and whoever works on the same entry: what was   *)
(* recorded as failed is in the DLQ, in the dead queue or requested again  *)
(* (moveToDeadQueue and the XADD of retryFromDLQ come before the XDEL).    *)
(* Without the assumption the drain deletes what it takes for invalid.     *)
THEOREM NothingIsLost == ASSUME ReadsComplete  PROVE Spec => []NothingLost
<1>1. DrainInv => NothingLost
  BY DEF DrainInv, DLQInv
<1>2. QED
  BY <1>1, InitDrainInv, NextDrainInv, PTL DEF Spec

----------------------------------------------------------------------------
(* One caller of retryFromDLQ at a time.                                   *)

Alone == \A p, q \in Retrier : p = q

(* Where a call of retryFromDLQ goes, and what it keeps.                   *)
LEMMA RetrySteps ==
  ASSUME retry \in [Retrier -> Retry], NEW p \in Retrier
  PROVE  /\ \A s \in {"mark", "scan", "add", "addUnchecked", "delete"} :
              Goto(p, s) => /\ retry' \in [Retrier -> Retry]
                            /\ retry'[p].at = s
                            /\ retry'[p].entry = retry[p].entry
                            /\ retry'[p].since = retry[p].since
         /\ Stop(p) => retry' \in [Retrier -> Retry] /\ retry'[p].at = "idle"
BY DEF Goto, Stop, Idle, Retry

(* The marker of an entry was set at t or later.                           *)
MarkedSince(e, t) == marker[e] \in Nat /\ t <= marker[e]
(* Every checked request for e was begun a window ago.                     *)
WindowOver(e) ==
  \A r \in requested : r.entry = e /\ r.checked => r.since + Window <= now

ApartInv ==
  /\ now \in Nat
  /\ requested \subseteq Request
  /\ marker \in [Entry -> Nat \union {None}]
  /\ retry \in [Retrier -> Retry]
  /\ \A p \in Retrier :
       /\ retry[p].at # "idle" => retry[p].entry \in Entry /\ retry[p].since <= now
       /\ retry[p].at \in {"scan", "add"} =>
            MarkedSince(retry[p].entry, retry[p].since)
       /\ retry[p].at \in {"mark", "scan", "add"} => WindowOver(retry[p].entry)
  /\ \A r \in requested : /\ r.since <= now
                          /\ r.checked => MarkedSince(r.entry, r.since)
  /\ RequestsApart

(* A step of the only caller that requests nothing and sets no marker.     *)
LEMMA QuietKeepsApart ==
  ASSUME ApartInv, Alone, NEW p \in Retrier,
         UNCHANGED <<now, requested, marker>>,
         retry' \in [Retrier -> Retry],
         retry'[p].at # "idle" =>
           /\ retry'[p].entry \in Entry /\ retry'[p].since <= now
           /\ retry'[p].at \in {"scan", "add"} =>
                MarkedSince(retry'[p].entry, retry'[p].since)
           /\ retry'[p].at \in {"mark", "scan", "add"} => WindowOver(retry'[p].entry)
  PROVE  ApartInv'
BY DEF ApartInv, Alone, MarkedSince, WindowOver, RequestsApart

(* The request of the only caller comes a window after the checked ones    *)
(* before it.                                                              *)
LEMMA RequestKeepsApart ==
  ASSUME ApartInv, NEW p \in Retrier, At(p, "add") \/ At(p, "addUnchecked")
  PROVE  /\ ThisRequest(p) \in Request
         /\ ThisRequest(p).since <= now /\ ThisRequest(p).at = now
         /\ ThisRequest(p).checked =>
              /\ MarkedSince(ThisRequest(p).entry, ThisRequest(p).since)
              /\ WindowOver(ThisRequest(p).entry)
BY DEF ApartInv, ThisRequest, At, Request, Retry

LEMMA RetryKeepsApart ==
  ASSUME ApartInv, Alone, NEW p \in Retrier, RetryStep(p) \/ CrashRetrier(p)
  PROVE  ApartInv'
<1>1. retry \in [Retrier -> Retry] /\ now \in Nat /\ retry[p].since \in Nat
  BY DEF ApartInv, Retry
<1>2. ASSUME NEW e \in Entry, RetryFromDLQ(p, e)
      PROVE  ApartInv'
  <2>1. retry'[p] = [at |-> "exists", entry |-> e, since |-> now]
    BY <1>1, <1>2 DEF RetryFromDLQ
  <2>2. retry' \in [Retrier -> Retry]
    BY <1>1, <1>2 DEF RetryFromDLQ, Retry
  <2> QED
    BY <1>1, <1>2, <2>1, <2>2, QuietKeepsApart DEF RetryFromDLQ, streamVars
<1>3. CASE CheckMarker(p)
  <2>1. retry[p].entry \in Entry /\ retry[p].since <= now
    BY <1>3 DEF CheckMarker, At, ApartInv
  <2>2. ~Marked(retry[p].entry) => WindowOver(retry[p].entry)
    BY <1>1, <2>1, DLQAssumption DEF ApartInv, Marked, WindowOver, MarkedSince, Request
  <2>3. /\ retry' \in [Retrier -> Retry]
        /\ \/ retry'[p].at \in {"idle", "addUnchecked"}
           \/ retry'[p].at = "mark" /\ ~Marked(retry[p].entry)
        /\ retry'[p].at # "idle" => /\ retry'[p].entry = retry[p].entry
                                    /\ retry'[p].since = retry[p].since
    BY <1>1, <1>3, RetrySteps DEF CheckMarker
  <2> QED
    BY <1>3, <2>1, <2>2, <2>3, QuietKeepsApart DEF CheckMarker, streamVars
<1>4. CASE SetMarker(p)
  <2>1. /\ retry[p].entry \in Entry /\ retry[p].since <= now
        /\ WindowOver(retry[p].entry)
    BY <1>4 DEF SetMarker, At, ApartInv
  <2>2. /\ retry' \in [Retrier -> Retry]
        /\ retry'[p].at \in {"addUnchecked", "scan"}
        /\ retry'[p].entry = retry[p].entry /\ retry'[p].since = retry[p].since
        /\ retry'[p].at = "scan" => marker'[retry[p].entry] = now
    BY <1>1, <1>4, <2>1, RetrySteps DEF SetMarker, Threw, Executed, Outcome, ApartInv
  <2>3. /\ marker' \in [Entry -> Nat \union {None}]
        /\ \A e \in Entry : marker'[e] = marker[e] \/ marker'[e] = now
    BY <1>1, <1>4 DEF SetMarker, ApartInv
  <2>4. \A r \in requested : r.entry \in Entry /\ r.since \in Nat
    BY DEF ApartInv, Request
  <2>5. UNCHANGED <<now, requested>>
    BY <1>4 DEF SetMarker
  <2> QED
    BY <1>1, <2>1, <2>2, <2>3, <2>4, <2>5
       DEF ApartInv, Alone, MarkedSince, WindowOver, RequestsApart
<1>5. CASE ScanDLQ(p)
  <2>1. /\ retry[p].entry \in Entry /\ retry[p].since <= now
        /\ MarkedSince(retry[p].entry, retry[p].since)
        /\ WindowOver(retry[p].entry)
    BY <1>5 DEF ScanDLQ, At, ApartInv
  <2>2. /\ retry' \in [Retrier -> Retry]
        /\ retry'[p].at # "idle" => /\ retry'[p].entry = retry[p].entry
                                    /\ retry'[p].since = retry[p].since
    BY <1>1, <1>5, RetrySteps DEF ScanDLQ
  <2> QED
    BY <1>5, <2>1, <2>2, QuietKeepsApart DEF ScanDLQ, streamVars
<1>6. CASE AddRequest(p)
  <2>1. /\ retry[p].entry \in Entry /\ retry[p].since <= now
        /\ UNCHANGED <<now, marker>>
        /\ requested' \in {requested, requested \union {ThisRequest(p)}}
    BY <1>6 DEF AddRequest, At, ApartInv
  <2>2. /\ retry' \in [Retrier -> Retry]
        /\ retry'[p].at \in {"idle", "delete"}
        /\ retry'[p].at # "idle" => /\ retry'[p].entry = retry[p].entry
                                    /\ retry'[p].since = retry[p].since
    BY <1>1, <1>6, RetrySteps DEF AddRequest
  <2>3. /\ ThisRequest(p) \in Request
        /\ ThisRequest(p).since <= now /\ ThisRequest(p).at = now
        /\ ThisRequest(p).checked =>
             /\ MarkedSince(ThisRequest(p).entry, ThisRequest(p).since)
             /\ WindowOver(ThisRequest(p).entry)
    BY <1>6, RequestKeepsApart DEF AddRequest
  <2> DEFINE this == ThisRequest(p)
  <2> HIDE DEF this
  <2>4. RequestsApart'
    <3> SUFFICES ASSUME NEW r \in requested', NEW s \in requested', r # s,
                        r.entry = s.entry, r.checked, s.checked
                 PROVE  r.at >= s.since + Window \/ s.at >= r.since + Window
      BY DEF RequestsApart
    <3>1. CASE r \in requested /\ s \in requested
      BY <3>1 DEF ApartInv, RequestsApart
    <3>2. CASE r = ThisRequest(p) /\ s \in requested
      BY <2>3, <3>2, DLQAssumption DEF WindowOver, ApartInv, Request
    <3>3. CASE s = ThisRequest(p) /\ r \in requested
      BY <2>3, <3>3, DLQAssumption DEF WindowOver, ApartInv, Request
    <3> QED
      BY <2>1, <3>1, <3>2, <3>3
  <2>5. \A q \in Retrier : q = p
    BY DEF Alone
  <2>6. /\ requested' \subseteq Request
        /\ \A r \in requested' : /\ r.since <= now
                                 /\ r.checked => MarkedSince(r.entry, r.since)
    BY <2>1, <2>3 DEF ApartInv
  <2> QED
    BY <1>1, <2>1, <2>2, <2>4, <2>5, <2>6 DEF ApartInv, MarkedSince
<1>7. CASE DeleteRetried(p)
  BY <1>1, <1>7, RetrySteps, QuietKeepsApart DEF DeleteRetried
<1>8. CASE CrashRetrier(p)
  BY <1>1, <1>8, RetrySteps, QuietKeepsApart DEF CrashRetrier, streamVars
<1> QED
  BY <1>2, <1>3, <1>4, <1>5, <1>6, <1>7, <1>8 DEF RetryStep

(* The rest sets markers to now, or lets time pass.                        *)
LEMMA RestKeepsApart ==
  ASSUME ApartInv, UNCHANGED <<requested, retry>>,
         now' \in Nat, now <= now',
         marker' \in [Entry -> Nat \union {None}],
         \A e \in Entry : marker'[e] = marker[e] \/ marker'[e] = now
  PROVE  ApartInv'
<1>1. /\ \A r \in requested : r.entry \in Entry /\ r.since \in Nat
      /\ \A p \in Retrier : retry[p].since \in Nat
      /\ now \in Nat /\ Window \in Nat
  BY DLQAssumption DEF ApartInv, Request, Retry
<1>2. ASSUME NEW e \in Entry, NEW t \in Nat, t <= now, MarkedSince(e, t)
      PROVE  MarkedSince(e, t)'
  BY <1>1, <1>2 DEF MarkedSince
<1>3. ASSUME NEW e, WindowOver(e)
      PROVE  WindowOver(e)'
  BY <1>1, <1>3 DEF WindowOver
<1> QED
  BY <1>1, <1>2, <1>3 DEF ApartInv, RequestsApart

(* Two checked requests for one entry are a window apart, with one caller  *)
(* of retryFromDLQ: with two, both may pass EXISTS before either SETEX.    *)
THEOREM OneRetrierKeepsApart == ASSUME Alone  PROVE Spec => []RequestsApart
<1>1. Init => ApartInv
  BY DLQAssumption DEF Init, ApartInv, RequestsApart, Idle, Retry
<1>2. ApartInv /\ [Next]_vars => ApartInv'
  <2> SUFFICES ASSUME ApartInv, [Next]_vars
               PROVE  ApartInv'
    OBVIOUS
  <2>1. ASSUME NEW e \in Entry, addToDLQ(e)
        PROVE  ApartInv'
    BY <2>1, RestKeepsApart DEF addToDLQ, ApartInv
  <2>2. ASSUME NEW d \in Drainer, Drain(d) \/ CrashDrainer(d)
        PROVE  ApartInv'
    BY <2>2, RestKeepsApart
       DEF Drain, Read, moveToDeadQueue, DeleteDrained, CrashDrainer, streamVars,
           ApartInv
  <2>3. CASE Tick \/ UNCHANGED vars
    BY <2>3, RestKeepsApart DEF Tick, vars, streamVars, ApartInv
  <2> QED
    BY <2>1, <2>2, <2>3, RetryKeepsApart DEF Next
<1>3. ApartInv => RequestsApart
  BY DEF ApartInv
<1> QED
  BY <1>1, <1>2, <1>3, PTL DEF Spec

(* Without a drain that reads, and with a COUNT that covers the stream,    *)
(* the entry a call works on is in what XRANGE returns.                    *)
Undisturbed ==
  /\ Alone
  /\ ~DrainReads
  /\ IsFiniteSet(Entry) /\ Cardinality(Entry) <= RangeCount

LEMMA FirstIsAll ==
  ASSUME Undisturbed, NEW S \in SUBSET Entry, NEW e \in S
  PROVE  e \in First(RangeCount, S)
<1> DEFINE before == {f \in S : f < e}
<1>1. before \subseteq Entry \ {e} /\ IsFiniteSet(Entry \ {e})
  <2>1. \A f \in S : f \in Nat
    BY DLQAssumption
  <2>2. \A f \in before : f # e
    BY <2>1
  <2> QED
    BY <2>2, FS_RemoveElement DEF Undisturbed
<1>2. Cardinality(Entry \ {e}) = Cardinality(Entry) - 1
      /\ Cardinality(Entry) \in Nat
  BY FS_RemoveElement, FS_CardinalityType DEF Undisturbed
<1>3. Cardinality(before) <= Cardinality(Entry \ {e}) /\ Cardinality(before) \in Nat
  BY <1>1, FS_Subset, FS_CardinalityType
<1> HIDE DEF before
<1>4. Cardinality(before) < RangeCount
  BY <1>2, <1>3, DLQAssumption DEF Undisturbed
<1> QED
  BY <1>4 DEF First, before

WaitInv ==
  /\ now \in Nat /\ dlq \subseteq Entry
  /\ requested \subseteq Request
  /\ recordedAt \in [Entry -> Nat \union {None}]
  /\ retry \in [Retrier -> Retry]
  /\ \A d \in Drainer : drain[d] = "poll"
  /\ \A e \in dlq : recordedAt[e] \in Nat /\ recordedAt[e] <= now
  /\ \A p \in Retrier : retry[p].at # "idle" =>
       /\ retry[p].entry \in Entry
       /\ recordedAt[retry[p].entry] \in Nat
       /\ recordedAt[retry[p].entry] <= retry[p].since
       /\ retry[p].at # "delete" => retry[p].entry \in dlq
       /\ retry[p].at = "add" =>
            retry[p].since > recordedAt[retry[p].entry] + Window
  /\ \A r \in requested : recordedAt[r.entry] \in Nat
  /\ RetryWaitsForWindow

(* The only caller checks, requests and deletes.                           *)
LEMMA RetryKeepsWait ==
  ASSUME WaitInv, Undisturbed, NEW p \in Retrier, RetryStep(p) \/ CrashRetrier(p)
  PROVE  WaitInv'
<1>1. /\ retry \in [Retrier -> Retry] /\ now \in Nat /\ retry[p].since \in Nat
      /\ \A q \in Retrier : q = p
  BY DEF WaitInv, Retry, Undisturbed, Alone
<1>2. ASSUME NEW e \in Entry, RetryFromDLQ(p, e)
      PROVE  WaitInv'
  <2>1. retry'[p] = [at |-> "exists", entry |-> e, since |-> now]
    BY <1>1, <1>2 DEF RetryFromDLQ
  <2>2. retry' \in [Retrier -> Retry]
    BY <1>1, <1>2 DEF RetryFromDLQ, Retry
  <2> QED
    BY <1>1, <1>2, <2>1, <2>2
       DEF RetryFromDLQ, streamVars, WaitInv, RetryWaitsForWindow
<1>3. ASSUME UNCHANGED <<now, dlq, requested, recordedAt, drain>>,
             retry' \in [Retrier -> Retry],
             retry'[p].at # "idle" =>
               /\ retry[p].at \notin {"idle", "delete"}
               /\ retry'[p].entry = retry[p].entry
               /\ retry'[p].since = retry[p].since
               /\ retry'[p].at = "add" =>
                    retry[p].since > recordedAt[retry[p].entry] + Window
      PROVE  WaitInv'
  BY <1>1, <1>3 DEF WaitInv, RetryWaitsForWindow
<1>4. CASE CheckMarker(p) \/ SetMarker(p)
  <2>1. /\ retry' \in [Retrier -> Retry] /\ retry'[p].at # "add"
        /\ retry[p].at \notin {"idle", "delete"}
        /\ retry'[p].at # "idle" => /\ retry'[p].entry = retry[p].entry
                                    /\ retry'[p].since = retry[p].since
    BY <1>1, <1>4, RetrySteps DEF CheckMarker, SetMarker, At
  <2> QED
    BY <1>3, <1>4, <2>1 DEF CheckMarker, SetMarker, streamVars
<1>5. CASE ScanDLQ(p)
  <2> DEFINE e == retry[p].entry
             inWindow == {f \in dlq :
                            /\ recordedAt[f] + Window + 1 >= retry[p].since
                            /\ recordedAt[f] <= retry[p].since}
  <2>1. /\ e \in dlq /\ recordedAt[e] \in Nat /\ recordedAt[e] <= retry[p].since
        /\ dlq \subseteq Entry
    BY <1>5 DEF ScanDLQ, At, WaitInv
  <2>2. ~DlqHit(p) => retry[p].since > recordedAt[e] + Window
    <3> SUFFICES ASSUME ~(retry[p].since > recordedAt[e] + Window)
                 PROVE  DlqHit(p)
      OBVIOUS
    <3> DEFINE begun == retry[p].since
               written == recordedAt[e]
    <3>a. /\ begun \in Nat /\ written \in Nat /\ Window \in Nat
          /\ ~(begun > written + Window) /\ written <= begun
      BY <1>1, <2>1, DLQAssumption
    <3>b. written + Window + 1 >= begun
      <4> HIDE DEF begun, written
      <4> QED
        BY <3>a
    <3>c. inWindow \in SUBSET Entry
      BY <2>1
    <3>1. e \in inWindow
      BY <2>1, <3>a, <3>b
    <3>2. e \in First(RangeCount, inWindow)
      <4> HIDE DEF inWindow, e
      <4> QED
        BY <3>1, <3>c, FirstIsAll
    <3> QED
      BY <3>2 DEF DlqHit
  <2>3. /\ retry' \in [Retrier -> Retry]
        /\ retry[p].at \notin {"idle", "delete"}
        /\ retry'[p].at # "idle" => /\ retry'[p].entry = retry[p].entry
                                    /\ retry'[p].since = retry[p].since
        /\ retry'[p].at = "add" => ~DlqHit(p)
    BY <1>1, <1>5, RetrySteps DEF ScanDLQ, At
  <2> QED
    BY <1>3, <1>5, <2>2, <2>3 DEF ScanDLQ, streamVars
<1>6. CASE AddRequest(p)
  <2>1. /\ retry[p].entry \in Entry /\ recordedAt[retry[p].entry] \in Nat
        /\ retry[p].at = "add" =>
             retry[p].since > recordedAt[retry[p].entry] + Window
        /\ UNCHANGED <<now, dlq, recordedAt, drain>>
        /\ requested' \in {requested, requested \union {ThisRequest(p)}}
    BY <1>6 DEF AddRequest, At, WaitInv
  <2>2. /\ retry' \in [Retrier -> Retry]
        /\ retry'[p].at \in {"idle", "delete"}
        /\ retry'[p].at # "idle" => /\ retry'[p].entry = retry[p].entry
                                    /\ retry'[p].since = retry[p].since
    BY <1>1, <1>6, RetrySteps DEF AddRequest
  <2>3. /\ ThisRequest(p) \in Request
        /\ ThisRequest(p).entry = retry[p].entry
        /\ ThisRequest(p).since = retry[p].since
        /\ ThisRequest(p).checked => retry[p].at = "add"
    <3>1. (retry[p].at = "add") \in BOOLEAN
      OBVIOUS
    <3> QED
      BY <1>1, <2>1, <3>1 DEF ThisRequest, Request, At
  <2>4. RetryWaitsForWindow' /\ \A r \in requested' : recordedAt[r.entry] \in Nat
    <3>1. ASSUME NEW r \in requested'
          PROVE  /\ recordedAt[r.entry] \in Nat
                 /\ r.checked => r.since > recordedAt[r.entry] + Window
      <4>1. CASE r \in requested
        BY <4>1 DEF WaitInv, RetryWaitsForWindow
      <4>2. CASE r = ThisRequest(p)
        BY <2>1, <2>3, <4>2
      <4> QED
        BY <2>1, <4>1, <4>2
    <3> QED
      BY <2>1, <3>1 DEF RetryWaitsForWindow
  <2>5. requested' \subseteq Request
    BY <2>1, <2>3 DEF WaitInv
  <2>6. \A q \in Retrier : retry'[q].at # "idle" =>
          /\ retry'[q].entry = retry[p].entry /\ retry'[q].since = retry[p].since
          /\ retry'[q].at = "delete" /\ retry[p].at # "idle"
    BY <1>1, <1>6, <2>2 DEF AddRequest, At
  <2> QED
    BY <1>1, <2>1, <2>2, <2>4, <2>5, <2>6 DEF WaitInv
<1>7. CASE DeleteRetried(p)
  <2>1. /\ retry' \in [Retrier -> Retry] /\ retry'[p].at = "idle"
        /\ dlq' \subseteq dlq
        /\ UNCHANGED <<now, requested, recordedAt, drain>>
    BY <1>1, <1>7, RetrySteps DEF DeleteRetried
  <2> QED
    BY <1>1, <2>1 DEF WaitInv, RetryWaitsForWindow
<1>8. CASE CrashRetrier(p)
  BY <1>1, <1>3, <1>8, RetrySteps DEF CrashRetrier, streamVars
<1> QED
  BY <1>2, <1>4, <1>5, <1>6, <1>7, <1>8 DEF RetryStep

(* A checked request comes after the dedup window of its failure, for one  *)
(* caller on a stream nobody drains and COUNT does not cut off.            *)
THEOREM UndisturbedRetryWaits ==
  ASSUME Undisturbed  PROVE Spec => []RetryWaitsForWindow
<1>1. Init => WaitInv
  BY DEF Init, WaitInv, RetryWaitsForWindow, Idle, Retry
<1>2. WaitInv /\ [Next]_vars => WaitInv'
  <2> SUFFICES ASSUME WaitInv, [Next]_vars
               PROVE  WaitInv'
    OBVIOUS
  <2>1. ASSUME NEW e \in Entry, addToDLQ(e)
        PROVE  WaitInv'
    <3>1. /\ recordedAt[e] = None /\ None \notin Nat
          /\ recordedAt' = [recordedAt EXCEPT ![e] = now]
          /\ dlq' = dlq \union {e}
          /\ UNCHANGED <<now, requested, retry, drain>>
      BY <2>1, DLQAssumption DEF addToDLQ
    <3>2. /\ recordedAt' \in [Entry -> Nat \union {None}]
          /\ recordedAt'[e] = now /\ now \in Nat
          /\ \A f \in Entry : recordedAt[f] \in Nat => recordedAt'[f] = recordedAt[f]
      BY <3>1 DEF WaitInv
    <3>3. \A r \in requested : r.entry \in Entry
      BY DEF WaitInv, Request
    <3> QED
      BY <3>1, <3>2, <3>3 DEF WaitInv, RetryWaitsForWindow
  <2>2. ASSUME NEW d \in Drainer, Drain(d) \/ CrashDrainer(d)
        PROVE  WaitInv'
    BY <2>2 DEF Undisturbed, Drain, Read, moveToDeadQueue, DeleteDrained,
                MayDelete, CrashDrainer, WaitInv
  <2>3. CASE Tick
    <3>1. now \in Nat /\ now' = now + 1
      BY <2>3 DEF Tick, WaitInv
    <3>2. UNCHANGED <<dlq, requested, recordedAt, retry, drain>>
      BY <2>3 DEF Tick, streamVars
    <3> QED
      BY <3>1, <3>2 DEF WaitInv, RetryWaitsForWindow
  <2>4. CASE UNCHANGED vars
    BY <2>4 DEF vars, streamVars, WaitInv, RetryWaitsForWindow
  <2> QED
    BY <2>1, <2>2, <2>3, <2>4, RetryKeepsWait DEF Next
<1>3. WaitInv => RetryWaitsForWindow
  BY DEF WaitInv
<1> QED
  BY <1>1, <1>2, <1>3, PTL DEF Spec
============================================================================
