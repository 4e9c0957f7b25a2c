---------------------------- MODULE RateLimiter ----------------------------
(***************************************************************************)
(* The rate limiter of one API: RateLimitManagerService (what              *)
(* DanbooruService asks before it works on a query) on RateLimiterService  *)
(* (counters in Redis).  A counter is a key with a TTL: a Lua script       *)
(* increments it, sets its TTL when it creates it, and compares it with    *)
(* the limit.  The script runs in Redis without interruption, so an        *)
(* execution is one action; the calls of any number of processes           *)
(* interleave between executions.                                          *)
(***************************************************************************)
EXTENDS Integers, Sequences, FiniteSets

CONSTANTS
  Identifier,     \* client ids, with 'global' for a request that has none
  Window,         \* window types: 'minute', 'hour', 'day'
  Seconds,        \* [Window -> Nat]: getWindowSeconds
  Limit,          \* [Window -> Nat]: the configured limit, 60 by default
  Composite,      \* calls of checkCompositeRateLimit
  IdentifiersOf,  \* [Composite -> Seq(Identifier)]: their identifiers
  WindowOf,       \* [Composite -> Window]: their limit and windowSeconds
  None,           \* no refusal
  MaxTime,        \* bound: the time that passes
  MaxCount,       \* bound: executions one counter sees
  MaxUnheard      \* bound: executions of one counter whose reply is lost

ASSUME LimiterAssumption ==
  /\ Window # {}
  /\ Seconds \in [Window -> Nat \ {0}]
  /\ Limit \in [Window -> Nat \ {0}]
  /\ IdentifiersOf \in [Composite -> Seq(Identifier)]
  /\ WindowOf \in [Composite -> Window]
  /\ None \notin [limit : Nat, until : Nat]
  /\ {MaxTime, MaxCount, MaxUnheard} \subseteq Nat

(* `rate:${apiPrefix}:${key}`.  The manager puts the prefix into the key   *)
(* before the service does, so that the counters of its checks lie under   *)
(* `rate:danbooru:danbooru:${clientId}`, apart from those the service      *)
(* names by itself.                                                        *)
Counter == [by : {"manager", "service"}, id : Identifier]
ManagerKey(id) == [by |-> "manager", id |-> id]
ServiceKey(id) == [by |-> "service", id |-> id]

VARIABLES
  now,       \* seconds passed
  count,     \* the value of each counter, 0 when its key does not exist
  expiry,    \* when its key expires
  todo,      \* per composite call, the identifiers still to be checked
  passed,    \* per composite call, were all results 1 so far?
  \* History
  admitted,  \* executions that allowed a request, since the counter exists
  unheard,   \* executions whose reply was lost, since the counter exists
  refusal,   \* the limit and the retryAfter of its first refusal
  admissions \* when each of its requests was admitted, since the last reset

counterVars == <<count, expiry>>
historyVars == <<admitted, unheard, refusal, admissions>>
vars == <<now, counterVars, todo, passed, historyVars>>

Refusal == [limit : Nat, until : Nat]

(* The type invariant of the counters in Redis, of the composite calls and *)
(* of the history that the invariants below read.                          *)
TypeOK ==
  /\ now \in Nat
  /\ count \in [Counter -> Nat]
  /\ expiry \in [Counter -> Nat]
  /\ todo \in [Composite -> Seq(Identifier)]
  /\ passed \in [Composite -> BOOLEAN]
  /\ admitted \in [Counter -> Nat]
  /\ unheard \in [Counter -> Nat]
  /\ refusal \in [Counter -> Refusal \union {None}]
  /\ admissions \in [Counter -> Seq(Nat)]

Init ==
  /\ now = 0
  /\ count = [k \in Counter |-> 0]
  /\ expiry = [k \in Counter |-> 0]
  /\ todo = IdentifiersOf
  /\ passed = [c \in Composite |-> TRUE]
  /\ admitted = [k \in Counter |-> 0]
  /\ unheard = [k \in Counter |-> 0]
  /\ refusal = [k \in Counter |-> None]
  /\ admissions = [k \in Counter |-> <<>>]

----------------------------------------------------------------------------
(* The script.                                                             *)

(* Mutant: the TTL is set by every execution.                              *)
TimeToLiveRenewed(k, w) == now + Seconds[w]

(* Mutant: the window is given in minutes.                                 *)
TimeToLiveInMinutes(k, w) == IF count[k] = 0 THEN now + 1 ELSE expiry[k]

(* The execution that creates a counter gives it its TTL.                  *)
TimeToLive(k, w) ==
  IF count[k] = 0 THEN now + Seconds[w] ELSE expiry[k]

(* INCR and EXPIRE.                                                        *)
Execute(k, w) ==
  /\ count[k] < MaxCount
  /\ count' = [count EXCEPT ![k] = @ + 1]
  /\ expiry' = [expiry EXCEPT ![k] = TimeToLive(k, w)]

(* Mutant: the limit itself is refused.                                    *)
AllowsBelow(k, w) == count[k] + 1 < Limit[w]

(* Mutant: the count before the increment is compared.                     *)
AllowsOneMore(k, w) == count[k] <= Limit[w]

(* The script compares the incremented count.                              *)
Allows(k, w) == count[k] + 1 <= Limit[w]

(* The caller gets the result.  A refusal tells it to retry after a whole  *)
(* window of the type it asked for.                                        *)
Answer(k, w) ==
  /\ IF Allows(k, w)
     THEN /\ admitted' = [admitted EXCEPT ![k] = @ + 1]
          /\ admissions' = [admissions EXCEPT ![k] = Append(@, now)]
          /\ UNCHANGED refusal
     ELSE /\ refusal' = [refusal EXCEPT ![k] =
                           IF @ = None
                           THEN [limit |-> Limit[w], until |-> now + Seconds[w]]
                           ELSE @]
          /\ UNCHANGED <<admitted, admissions>>
  /\ UNCHANGED unheard

(* Executed, but the connection drops before the reply.  ioredis resends   *)
(* the command, which is then another execution, or the caller fails.      *)
Unheard(k, w) ==
  /\ unheard[k] < MaxUnheard
  /\ Execute(k, w)
  /\ unheard' = [unheard EXCEPT ![k] = @ + 1]
  /\ UNCHANGED <<now, todo, passed, admitted, refusal, admissions>>

----------------------------------------------------------------------------
(* The operations.                                                         *)

(* RateLimitManagerService.checkRateLimit                                  *)
checkRateLimit(id, w) ==
  /\ Execute(ManagerKey(id), w)
  /\ Answer(ManagerKey(id), w)
  /\ UNCHANGED <<now, todo, passed>>

(* RateLimiterService.checkSlidingWindow                                   *)
checkSlidingWindow(id, w) ==
  /\ Execute(ServiceKey(id), w)
  /\ Answer(ServiceKey(id), w)
  /\ UNCHANGED <<now, todo, passed>>

(* checkCompositeRateLimit sends one script per identifier in a pipeline,  *)
(* which other clients' commands may enter.  Every identifier is counted,  *)
(* also those behind one that refuses; all must pass.                      *)
checkCompositeRateLimit(c) ==
  /\ todo[c] # <<>>
  /\ LET k == ServiceKey(Head(todo[c]))
     IN  /\ Execute(k, WindowOf[c])
         /\ Answer(k, WindowOf[c])
         /\ passed' = [passed EXCEPT ![c] = @ /\ Allows(k, WindowOf[c])]
  /\ todo' = [todo EXCEPT ![c] = Tail(@)]
  /\ UNCHANGED now

(* One of the pipeline's scripts fails without effect: its result counts   *)
(* as a refusal, whatever the counters hold.  One that was executed before *)
(* its reply was lost is an Unheard and this.                              *)
CompositeCommandFails(c) ==
  /\ todo[c] # <<>>
  /\ passed' = [passed EXCEPT ![c] = FALSE]
  /\ todo' = [todo EXCEPT ![c] = Tail(@)]
  /\ UNCHANGED <<now, counterVars, historyVars>>

(* What is known of the counters that are deleted.                         *)
Forget(keys) ==
  /\ count' = [k \in Counter |-> IF k \in keys THEN 0 ELSE count[k]]
  /\ admitted' = [k \in Counter |-> IF k \in keys THEN 0 ELSE admitted[k]]
  /\ unheard' = [k \in Counter |-> IF k \in keys THEN 0 ELSE unheard[k]]
  /\ refusal' = [k \in Counter |-> IF k \in keys THEN None ELSE refusal[k]]

(* resetRateLimit deletes the counter the service names.                   *)
resetRateLimit(id) ==
  /\ Forget({ServiceKey(id)})
  /\ admissions' = [admissions EXCEPT ![ServiceKey(id)] = <<>>]
  /\ UNCHANGED <<now, expiry, todo, passed>>

(* A second passes, and Redis drops the counters that are due.             *)
Tick ==
  /\ now < MaxTime
  /\ now' = now + 1
  /\ Forget({k \in Counter : expiry[k] <= now + 1})
  /\ UNCHANGED <<expiry, todo, passed, admissions>>

Next ==
  \/ \E id \in Identifier, w \in Window :
       checkRateLimit(id, w) \/ checkSlidingWindow(id, w)
  \/ \E c \in Composite : checkCompositeRateLimit(c) \/ CompositeCommandFails(c)
  \/ \E k \in Counter, w \in Window : Unheard(k, w)
  \/ \E id \in Identifier : resetRateLimit(id)
  \/ Tick

Spec == Init /\ [][Next]_vars

----------------------------------------------------------------------------
(* A counter admits at most the limit of one of the windows it was checked *)
(* with, however many processes check it, whatever is resent and although  *)
(* composite checks run in pieces (the INCR, EXPIRE and comparison of the  *)
(* Lua script).                                                            *)
WindowBound ==
  \A k \in Counter : \E w \in Window : admitted[k] <= Limit[w]

(* A script executed in this step told its caller 0.                       *)
Refused(k) ==
  count'[k] > count[k] /\ admitted'[k] = admitted[k] /\ unheard'[k] = unheard[k]

(* A script refuses only when its window is used up, by requests that were *)
(* admitted or whose reply was lost: the limit itself is admitted          *)
(* (`current > limit`).  (The limit is that of the counter's first         *)
(* refusal: refused attempts count too, against every later one.)  A       *)
(* composite check is refused because one of its scripts was, or because a *)
(* command of its pipeline failed, which it takes for a refusal with the   *)
(* window unused (rate-limiter.service.ts:133-145): the one refusal        *)
(* without that cause.                                                     *)
RefusedForCause ==
  [][/\ \A k \in Counter :
          Refused(k) => admitted[k] + unheard[k] >= refusal'[k].limit
     /\ \A c \in Composite : passed[c] /\ ~passed'[c] =>
          Refused(ServiceKey(Head(todo[c]))) \/ CompositeCommandFails(c)]_vars

(* A counter that refused is gone when the retryAfter of its first refusal *)
(* is over (retryAfter: windowSeconds): refused attempts do not prolong    *)
(* the refusal.                                                            *)
RetryAfterSuffices ==
  \A k \in Counter : refusal[k] # None => now < refusal[k].until

(* The windows are fixed, so that a span as long as one can see the end of *)
(* one and the begin of the next: any two admissions of a counter with     *)
(* twice the limit of every window between them are at least a window      *)
(* apart, the second at a whole window's distance at the earliest.         *)
BurstBound ==
  \A k \in Counter : \A i, j \in DOMAIN admissions[k] :
    (\A w \in Window : j - i >= 2 * Limit[w])
      => \E w \in Window : admissions[k][j] - admissions[k][i] >= Seconds[w]
============================================================================
