----------------------------- MODULE QueryLock -----------------------------
(***************************************************************************)
(* One lock key in time: LockUtil's two ways to hold it.  A caller of      *)
(* withLock has a heartbeat that extends the key while its operation runs; *)
(* processRequest takes the key for its TTL and does its work, an API call *)
(* with retries among it, without looking at it again.  Clocks are timers  *)
(* that count down, all in one unit; time passes in Tick, which waits for  *)
(* what is due.                                                            *)
(***************************************************************************)
EXTENDS Integers

CONSTANTS
  Caller,
  Beating,       \* the callers of withLock; the others are processRequests
  TTL,           \* of the key: QUERY_LOCK_TIMEOUT_SECONDS, 30 s
  Heartbeat,     \* heartbeatIntervalMs, 10 s
  Timeout,       \* API_TIMEOUT_MS, 10 s
  Retries,       \* retryAttempts: 3
  Delay,         \* assumed: a Redis command and its reply take at most this
  BodyTime,      \* assumed: an answer of the API arrives within this
  MaxMissed,     \* bound: beats missed in a row that are counted
  None           \* no caller, no command

ASSUME LockAssumption ==
  /\ Beating \subseteq Caller
  /\ None \notin Caller /\ None \notin Nat
  /\ {TTL, Heartbeat, Timeout} \subseteq Nat \ {0}
  /\ {Retries, Delay, BodyTime, MaxMissed} \subseteq Nat
  /\ Delay < Heartbeat

VARIABLES
  \* The key in Redis
  owner,     \* the caller whose value it stores
  ttl,       \* its time to live, 0 without a key
  \* Each caller
  pc,
  timer,     \* how long its present step may last, or must
  budget,    \* what is left of the API call's timeout after a pause
  retries,   \* retries made
  \* The heartbeat of each caller
  beat,      \* time to the next beat
  pending,   \* time within which the extension it sent is executed
  \* History
  missed,    \* beats without effect since the last one with effect
  lapsed     \* callers whose key expired under them

keyVars == <<owner, ttl>>
beatVars == <<beat, pending, missed>>
vars == <<keyVars, pc, timer, budget, retries, beatVars, lapsed>>

FetchPc == {"ask", "pause", "body"}
HoldingPc == {"granted", "work", "before", "after", "release"} \union FetchPc
PC == {"idle", "set", "done"} \union HoldingPc
\* The steps that end in time; an operation and what follows the fetch need not
TimedPc == {"set", "granted", "before", "release"} \union FetchPc

CommandsBefore == 2 * Delay    \* the rate check and the cache's GET
MaxTimer == CommandsBefore + Delay + Timeout + BodyTime

TypeOK ==
  /\ owner \in Caller \union {None}
  /\ ttl \in 0..TTL
  /\ owner = None <=> ttl = 0
  /\ pc \in [Caller -> PC]
  /\ timer \in [Caller -> 0..MaxTimer]
  /\ budget \in [Caller -> 0..Timeout]
  /\ retries \in [Caller -> 0..Retries]
  /\ beat \in [Caller -> 0..Heartbeat]
  /\ pending \in [Caller -> 0..Delay \union {None}]
  /\ missed \in [Caller -> 0..MaxMissed]
  /\ lapsed \subseteq Caller

Init ==
  /\ owner = None
  /\ ttl = 0
  /\ pc = [c \in Caller |-> "idle"]
  /\ timer = [c \in Caller |-> 0]
  /\ budget = [c \in Caller |-> 0]
  /\ retries = [c \in Caller |-> 0]
  /\ beat = [c \in Caller |-> Heartbeat]
  /\ pending = [c \in Caller |-> None]
  /\ missed = [c \in Caller |-> 0]
  /\ lapsed = {}

(* c enters a step that lasts at most, or exactly, d.                      *)
Goto(c, label, d) ==
  /\ pc' = [pc EXCEPT ![c] = label]
  /\ timer' = [timer EXCEPT ![c] = d]

----------------------------------------------------------------------------
(* Time.                                                                   *)

BeatsOn(c) == c \in Beating /\ pc[c] \in {"work", "release", "done"}  \* mutant
Beats(c) == c \in Beating /\ pc[c] = "work"

Due(c) ==
  \/ pc[c] \in TimedPc /\ timer[c] = 0
  \/ Beats(c) /\ beat[c] = 0
  \/ pending[c] = 0

(* A unit of time passes; the key goes with the last one of its TTL.       *)
Tick ==
  /\ \A c \in Caller : ~Due(c)
  /\ timer' = [c \in Caller |-> IF pc[c] \in TimedPc THEN timer[c] - 1 ELSE timer[c]]
  /\ beat' = [c \in Caller |-> IF Beats(c) THEN beat[c] - 1 ELSE beat[c]]
  /\ pending' = [c \in Caller |-> IF pending[c] = None THEN None ELSE pending[c] - 1]
  /\ ttl' = IF ttl = 0 THEN 0 ELSE ttl - 1
  /\ owner' = IF ttl' = 0 THEN None ELSE owner
  /\ lapsed' = IF owner # owner' /\ pc[owner] \in HoldingPc
               THEN lapsed \union {owner} ELSE lapsed
  /\ UNCHANGED <<pc, budget, retries, missed>>

----------------------------------------------------------------------------
(* acquireLock and releaseLock.                                            *)

Acquire(c) ==
  /\ pc[c] = "idle"
  /\ Goto(c, "set", Delay)
  /\ UNCHANGED <<keyVars, budget, retries, beatVars, lapsed>>

(* SET NX EX is executed, and its reply arrives or does not; or it fails.  *)
(* Without the lock withLock returns null, processRequest answers that it  *)
(* is busy, and what acquireLock throws leaves both.                       *)
Set(c) ==
  /\ pc[c] = "set"
  /\ \E reply \in {"ok", "unheard", "failed"} :
       LET granted == owner = None /\ reply # "failed"
       IN  /\ owner' = IF granted THEN c ELSE owner
           /\ ttl' = IF granted THEN TTL ELSE ttl
           /\ IF granted /\ reply = "ok"
              THEN pc' = [pc EXCEPT ![c] = "granted"] /\ UNCHANGED timer
              ELSE Goto(c, "done", 0)
  /\ UNCHANGED <<budget, retries, beatVars, lapsed>>

(* withLock starts its heartbeat and the operation.                        *)
Granted(c) ==
  /\ pc[c] = "granted"
  /\ IF c \in Beating THEN Goto(c, "work", 0)
                      ELSE Goto(c, "before", CommandsBefore)
  /\ UNCHANGED <<keyVars, budget, retries, beatVars, lapsed>>

(* Mutant: DEL without the comparison.                                     *)
ReleaseAnyway(c, executed) == executed

(* The finally block: compare and delete.  An error is swallowed.  An      *)
(* extension sent before is executed before.                               *)
Releases(c, executed) == executed /\ owner = c
Release(c) ==
  /\ pc[c] = "release"
  /\ pending[c] = None
  /\ \E executed \in BOOLEAN :
       /\ owner' = IF Releases(c, executed) THEN None ELSE owner
       /\ ttl' = IF Releases(c, executed) THEN 0 ELSE ttl
  /\ Goto(c, "done", 0)
  /\ lapsed' = lapsed \ {c}
  /\ UNCHANGED <<budget, retries, beatVars>>

----------------------------------------------------------------------------
(* withLock: the operation, as long as it likes, and the heartbeat.        *)

(* It returns or throws, and the interval is cleared.                      *)
EndWork(c) ==
  /\ pc[c] \in {"work", "after"}
  /\ Goto(c, "release", Delay)
  /\ UNCHANGED <<keyVars, budget, retries, beatVars, lapsed>>

Missed(c) == [missed EXCEPT ![c] = IF @ < MaxMissed THEN @ + 1 ELSE @]

(* The interval fires: extendLock sends its script, or fails.              *)
Beat(c) ==
  /\ Beats(c)
  /\ beat[c] = 0
  /\ beat' = [beat EXCEPT ![c] = Heartbeat]
  /\ \/ pending' = [pending EXCEPT ![c] = Delay] /\ UNCHANGED missed
     \/ missed' = Missed(c) /\ UNCHANGED pending
  /\ UNCHANGED <<keyVars, pc, timer, budget, retries, lapsed>>

UnrenewedTTL == ttl    \* mutant: the script only reads
Renewed == TTL

(* The script runs: EXPIRE if the key has the caller's value.              *)
Extend(c) ==
  /\ pending[c] # None
  /\ pending' = [pending EXCEPT ![c] = None]
  /\ IF owner = c THEN ttl' = Renewed /\ missed' = [missed EXCEPT ![c] = 0]
                  ELSE missed' = Missed(c) /\ UNCHANGED ttl
  /\ UNCHANGED <<owner, pc, timer, budget, retries, beat, lapsed>>

----------------------------------------------------------------------------
(* processRequest: two commands, the API call, the rest.                   *)

CallApi(c) ==
  /\ pc[c] = "before"
  /\ \/ Goto(c, "ask", Timeout)     \* nothing in the cache
     \/ Goto(c, "after", 0)         \* refused, found or thrown
  /\ UNCHANGED <<keyVars, budget, retries, beatVars, lapsed>>

(* Mutant: the timeout starts again with every attempt.                    *)
BudgetAfterReset(c, pause) == Timeout
BudgetAfter(c, pause) == timer[c] - pause

(* An attempt fails with a timeout, 429 or 5xx and is tried again after a  *)
(* pause, its Retry-After or an exponential delay.  axios-retry takes the  *)
(* time of the attempt and of the pause from the timeout of the next one,  *)
(* and gives up where nothing is left.                                     *)
Retry(c) ==
  /\ pc[c] = "ask"
  /\ retries[c] < Retries
  /\ \E pause \in 0..Timeout :
       /\ BudgetAfter(c, pause) > 0
       /\ budget' = [budget EXCEPT ![c] = BudgetAfter(c, pause)]
       /\ Goto(c, "pause", pause)
  /\ retries' = [retries EXCEPT ![c] = @ + 1]
  /\ UNCHANGED <<keyVars, beatVars, lapsed>>

AskAgain(c) ==
  /\ pc[c] = "pause"
  /\ timer[c] = 0
  /\ Goto(c, "ask", budget[c])
  /\ UNCHANGED <<keyVars, budget, retries, beatVars, lapsed>>

(* The call fails for good, or an answer begins.                           *)
Answered(c) ==
  /\ pc[c] = "ask"
  /\ Goto(c, "after", 0) \/ Goto(c, "body", BodyTime)
  /\ UNCHANGED <<keyVars, budget, retries, beatVars, lapsed>>

Read(c) ==
  /\ pc[c] = "body"
  /\ Goto(c, "after", 0)
  /\ UNCHANGED <<keyVars, budget, retries, beatVars, lapsed>>

----------------------------------------------------------------------------
(* What ends in time, and what a caller does when it likes.                *)
Prompt(c) ==
  \/ Set(c) \/ Granted(c) \/ Release(c) \/ Beat(c) \/ Extend(c)
  \/ CallApi(c) \/ Retry(c) \/ AskAgain(c) \/ Answered(c) \/ Read(c)
Free(c) == Acquire(c) \/ EndWork(c)

Next == Tick \/ \E c \in Caller : Prompt(c) \/ Free(c)

Spec == Init /\ [][Next]_vars

(* Time passes, and Redis, the timers and the API meet their deadlines.  No *)
(* operation is required to end.                                           *)
FairSpec == Spec /\ WF_vars(Tick) /\ \A c \in Caller : WF_vars(Prompt(c))

----------------------------------------------------------------------------
(* The heartbeat keeps the key as long as the beats missed in a row leave  *)
(* time for one more: with 30 and 10 seconds one may fail, if a command    *)
(* takes less than 5 (lock.util.ts startHeartbeat).                        *)
HeldWhileBeating ==
  \A c \in Caller :
    Beats(c) /\ (missed[c] + 1) * Heartbeat + 2 * Delay < TTL => owner = c

(* A processRequest still has its key when the API call ends, whatever the *)
(* API answers and however often it is asked, provided that Redis answers  *)
(* and the body arrives in time: what is left of 30 seconds without a      *)
(* heartbeat (danbooru.service.ts acquireQueryLock).                       *)
InTime == CommandsBefore + Delay + Timeout + BodyTime < TTL
KeptThroughFetch ==
  InTime => \A c \in Caller : pc[c] \in FetchPc => owner = c

(* The key is a lease: time, heartbeats and late releases included.        *)
KeyLease == INSTANCE Lease WITH
  Client <- Caller, holder <- owner,
  inside <- {c \in Caller : pc[c] \in HoldingPc}
ImplementsLease == KeyLease!LeaseSpec

(* A key that nobody works behind any more comes free, although a release  *)
(* may fail and a grant may never be heard of: nothing extends it.         *)
KeyComesFree == \A c \in Caller : pc[c] = "done" /\ owner = c ~> owner # c
============================================================================
