-------------------------- MODULE QueryLockProofs --------------------------
(***************************************************************************)
(* Proofs about QueryLock, for any callers, times to live, intervals,      *)
(* timeouts and numbers of retries.                                        *)
(***************************************************************************)
EXTENDS QueryLock, TLAPS

(* The constants that are numbers.                                         *)
LEMMA Numbers ==
  /\ TTL \in Nat /\ TTL > 0
  /\ Heartbeat \in Nat /\ Heartbeat > Delay
  /\ Timeout \in Nat /\ Timeout > 0
  /\ Retries \in Nat /\ Delay \in Nat /\ BodyTime \in Nat /\ MaxMissed \in Nat
  /\ CommandsBefore = 2 * Delay
  /\ MaxTimer = 3 * Delay + Timeout + BodyTime
BY LockAssumption DEF CommandsBefore, MaxTimer

(* How long a step may last.                                               *)
TimerInv ==
  \A c \in Caller :
    /\ pc[c] \in {"set", "granted", "release"} => timer[c] <= Delay
    /\ pc[c] = "before" => timer[c] <= CommandsBefore
    /\ pc[c] = "ask" => timer[c] <= Timeout
    /\ pc[c] = "pause" => timer[c] + budget[c] <= Timeout
    /\ pc[c] = "body" => timer[c] <= BodyTime

TimedInv == TypeOK /\ TimerInv

LEMMA InitTimedInv == Init => TimedInv
<1> SUFFICES ASSUME Init PROVE TimedInv
  OBVIOUS
<1>1. TimerInv
  BY DEF Init, TimerInv
<1>2. TypeOK
  BY LockAssumption, Numbers DEF Init, TypeOK, PC
<1> QED
  BY <1>1, <1>2 DEF TimedInv

(* A caller enters a step with the time it has.                            *)
LEMMA GotoKeepsTimers ==
  ASSUME TimedInv, NEW c \in Caller, NEW label \in PC, NEW d \in Nat,
         Goto(c, label, d), d <= MaxTimer,
         budget' \in [Caller -> 0..Timeout],
         \A x \in Caller \ {c} : budget'[x] = budget[x],
         label \in {"set", "granted", "release"} => d <= Delay,
         label = "before" => d <= CommandsBefore,
         label = "ask" => d <= Timeout,
         label = "pause" => d + budget'[c] <= Timeout,
         label = "body" => d <= BodyTime
  PROVE  /\ pc' \in [Caller -> PC]
         /\ timer' \in [Caller -> 0..MaxTimer]
         /\ TimerInv'
<1>1. /\ pc' \in [Caller -> PC]
      /\ timer' \in [Caller -> 0..MaxTimer]
      /\ pc'[c] = label /\ timer'[c] = d
      /\ \A x \in Caller \ {c} : pc'[x] = pc[x] /\ timer'[x] = timer[x]
  BY Numbers DEF Goto, TimedInv, TypeOK
<1>2. TimerInv'
  BY <1>1 DEF TimedInv, TimerInv
<1> QED
  BY <1>1, <1>2

(* Time takes one from whatever may take it.                               *)
LEMMA TickKeepsTimed == TimedInv /\ Tick => TimedInv'
<1> SUFFICES ASSUME TimedInv, Tick PROVE TimedInv'
  OBVIOUS
<1> USE Numbers, LockAssumption
<1>1. ASSUME NEW c \in Caller
      PROVE  /\ timer[c] \in 0..MaxTimer /\ budget[c] \in 0..Timeout
             /\ timer'[c] = IF pc[c] \in TimedPc THEN timer[c] - 1 ELSE timer[c]
             /\ pc[c] \in TimedPc => timer[c] # 0
             /\ UNCHANGED <<pc, budget>>
  BY DEF TimedInv, TypeOK, Tick, Due
<1>2. \A c \in Caller : timer'[c] \in 0..MaxTimer /\ timer'[c] <= timer[c]
  BY <1>1
<1>3. timer' \in [Caller -> 0..MaxTimer]
  BY <1>2 DEF Tick
<1>4. TimerInv'
  BY <1>1, <1>2 DEF TimedInv, TimerInv
<1>5. beat' \in [Caller -> 0..Heartbeat]
  BY DEF TimedInv, TypeOK, Tick, Due
<1>6. pending' \in [Caller -> 0..Delay \union {None}]
  <2> SUFFICES ASSUME NEW c \in Caller, pending[c] # None
               PROVE  pending[c] - 1 \in 0..Delay
    BY DEF TimedInv, TypeOK, Tick
  <2>1. pending[c] \in 0..Delay /\ pending[c] # 0
    BY DEF TimedInv, TypeOK, Tick, Due
  <2> QED
    BY <2>1
<1>7. ttl' \in 0..TTL /\ owner' \in Caller \union {None} /\ (owner' = None <=> ttl' = 0)
  BY DEF TimedInv, TypeOK, Tick
<1>8. lapsed' \subseteq Caller
  BY DEF TimedInv, TypeOK, Tick
<1> QED
  BY <1>3, <1>4, <1>5, <1>6, <1>7, <1>8 DEF TimedInv, TypeOK, Tick

(* The key changes hands.                                                  *)
LEMMA KeyStepsKeepTimed ==
  ASSUME TimedInv, NEW c \in Caller, Set(c) \/ Release(c)
  PROVE  TimedInv'
<1> USE Numbers, LockAssumption
<1>1. budget \in [Caller -> 0..Timeout] /\ budget' = budget
  BY DEF TimedInv, TypeOK, Set, Release
<1>2. CASE Set(c)
  <2>1. /\ ttl' \in 0..TTL /\ owner' \in Caller \union {None}
        /\ owner' = None <=> ttl' = 0
    BY <1>2 DEF Set, TimedInv, TypeOK
  <2>2. \/ Goto(c, "granted", timer[c]) /\ timer[c] <= Delay /\ timer[c] \in Nat
        \/ Goto(c, "done", 0)
    <3>1. timer = [timer EXCEPT ![c] = timer[c]] /\ timer[c] \in Nat
      BY DEF TimedInv, TypeOK
    <3>2. timer[c] <= Delay
      BY <1>2 DEF Set, TimedInv, TimerInv
    <3> QED
      BY <1>2, <3>1, <3>2 DEF Set, Goto
  <2>3. pc' \in [Caller -> PC] /\ timer' \in [Caller -> 0..MaxTimer] /\ TimerInv'
    BY <1>1, <2>2, GotoKeepsTimers DEF PC, HoldingPc
  <2> QED
    BY <1>2, <2>1, <2>3 DEF Set, TimedInv, TypeOK, beatVars
<1>3. CASE Release(c)
  <2>1. /\ ttl' \in 0..TTL /\ owner' \in Caller \union {None}
        /\ owner' = None <=> ttl' = 0
    BY <1>3 DEF Release, TimedInv, TypeOK
  <2>2. pc' \in [Caller -> PC] /\ timer' \in [Caller -> 0..MaxTimer] /\ TimerInv'
    BY <1>1, <1>3, GotoKeepsTimers DEF Release, PC
  <2> QED
    BY <1>3, <2>1, <2>2 DEF Release, TimedInv, TypeOK, beatVars
<1> QED
  BY <1>2, <1>3

(* The caller goes on.                                                     *)
LEMMA CallerStepsKeepTimed ==
  ASSUME TimedInv, NEW c \in Caller,
         \/ Acquire(c) \/ Granted(c) \/ EndWork(c)
         \/ CallApi(c) \/ Answered(c) \/ Read(c)
  PROVE  TimedInv'
<1> USE Numbers
<1>1. UNCHANGED <<keyVars, budget, retries, beatVars, lapsed>>
  BY DEF Acquire, Granted, EndWork, CallApi, Answered, Read
<1>2. budget' \in [Caller -> 0..Timeout]
  BY <1>1 DEF TimedInv, TypeOK
<1>3. \/ Goto(c, "set", Delay) \/ Goto(c, "work", 0)
      \/ Goto(c, "before", CommandsBefore) \/ Goto(c, "release", Delay)
      \/ Goto(c, "ask", Timeout) \/ Goto(c, "after", 0) \/ Goto(c, "body", BodyTime)
  BY DEF Acquire, Granted, EndWork, CallApi, Answered, Read
<1>4. pc' \in [Caller -> PC] /\ timer' \in [Caller -> 0..MaxTimer] /\ TimerInv'
  BY <1>1, <1>2, <1>3, GotoKeepsTimers DEF PC, HoldingPc, FetchPc
<1> QED
  BY <1>1, <1>4 DEF TimedInv, TypeOK, keyVars, beatVars

(* Attempts and pauses share one timeout.                                  *)
LEMMA RetriesKeepTimed ==
  ASSUME TimedInv, NEW c \in Caller, Retry(c) \/ AskAgain(c)
  PROVE  TimedInv'
<1> USE Numbers
<1>1. UNCHANGED <<keyVars, beatVars, lapsed>>
  BY DEF Retry, AskAgain
<1>2. timer[c] \in Nat /\ budget[c] \in Nat /\ budget[c] <= Timeout
  BY DEF TimedInv, TypeOK
<1>3. CASE Retry(c)
  <2>1. PICK pause \in 0..Timeout :
          /\ timer[c] - pause > 0
          /\ budget' = [budget EXCEPT ![c] = timer[c] - pause]
          /\ Goto(c, "pause", pause)
    BY <1>3 DEF Retry, BudgetAfter
  <2>2. timer[c] <= Timeout
    BY <1>3 DEF Retry, TimedInv, TimerInv
  <2>3. timer[c] - pause \in 0..Timeout
    BY <1>2, <2>1, <2>2
  <2>4. /\ budget' \in [Caller -> 0..Timeout]
        /\ budget'[c] = timer[c] - pause
        /\ \A x \in Caller \ {c} : budget'[x] = budget[x]
    BY <2>1, <2>3 DEF TimedInv, TypeOK
  <2>5. pc' \in [Caller -> PC] /\ timer' \in [Caller -> 0..MaxTimer] /\ TimerInv'
    BY <1>2, <2>1, <2>2, <2>4, GotoKeepsTimers DEF PC, HoldingPc, FetchPc
  <2>6. retries' \in [Caller -> 0..Retries]
    BY <1>3 DEF Retry, TimedInv, TypeOK
  <2> QED
    BY <1>1, <2>4, <2>5, <2>6 DEF TimedInv, TypeOK, keyVars, beatVars
<1>4. CASE AskAgain(c)
  <2>1. Goto(c, "ask", budget[c]) /\ budget' = budget /\ retries' = retries
    BY <1>4 DEF AskAgain
  <2>2. pc' \in [Caller -> PC] /\ timer' \in [Caller -> 0..MaxTimer] /\ TimerInv'
    BY <1>2, <2>1, GotoKeepsTimers DEF PC, HoldingPc, FetchPc, TimedInv, TypeOK
  <2> QED
    BY <1>1, <2>1, <2>2 DEF TimedInv, TypeOK, keyVars, beatVars
<1> QED
  BY <1>3, <1>4

(* The heartbeat.                                                          *)
LEMMA BeatsKeepTimed ==
  ASSUME TimedInv, NEW c \in Caller, Beat(c) \/ Extend(c)
  PROVE  TimedInv'
<1> USE Numbers, LockAssumption
<1>1. UNCHANGED <<owner, pc, timer, budget, retries, lapsed>>
  BY DEF Beat, Extend, keyVars
<1>2. beat' \in [Caller -> 0..Heartbeat]
  BY DEF Beat, Extend, TimedInv, TypeOK
<1>3. pending' \in [Caller -> 0..Delay \union {None}]
  BY DEF Beat, Extend, TimedInv, TypeOK
<1>4. missed' \in [Caller -> 0..MaxMissed]
  <2>1. Missed(c) \in [Caller -> 0..MaxMissed]
    BY DEF Missed, TimedInv, TypeOK
  <2>2. [missed EXCEPT ![c] = 0] \in [Caller -> 0..MaxMissed]
    BY DEF TimedInv, TypeOK
  <2> QED
    BY <2>1, <2>2 DEF Beat, Extend, TimedInv, TypeOK
<1>5. ttl' \in 0..TTL /\ (owner = None <=> ttl' = 0)
  <2>1. owner = None <=> ttl = 0
    BY DEF TimedInv, TypeOK
  <2>2. ttl' = ttl \/ (owner = c /\ ttl' = TTL)
    BY DEF Beat, Extend, Renewed, keyVars
  <2> QED
    BY <2>1, <2>2 DEF TimedInv, TypeOK
<1>6. TimerInv'
  BY <1>1 DEF TimedInv, TimerInv
<1> QED
  BY <1>1, <1>2, <1>3, <1>4, <1>5, <1>6 DEF TimedInv, TypeOK

LEMMA NextTimedInv == TimedInv /\ [Next]_vars => TimedInv'
<1> SUFFICES ASSUME TimedInv, [Next]_vars PROVE TimedInv'
  OBVIOUS
<1>1. CASE UNCHANGED vars
  BY <1>1 DEF vars, keyVars, beatVars, TimedInv, TypeOK, TimerInv
<1> QED
  BY <1>1, TickKeepsTimed, KeyStepsKeepTimed, CallerStepsKeepTimed,
     RetriesKeepTimed, BeatsKeepTimed DEF Next, Prompt, Free

(* The types hold, and with them that no step lasts longer than it may.    *)
THEOREM LockTypes == Spec => []TypeOK
<1>1. TimedInv => TypeOK
  BY DEF TimedInv
<1> QED
  BY <1>1, InitTimedInv, NextTimedInv, PTL DEF Spec

----------------------------------------------------------------------------
(* What others do to a caller, and to the key it holds.                    *)
LEMMA OthersLeaveCaller ==
  ASSUME TimedInv, NEW c \in Caller, NEW d \in Caller \ {c}, Prompt(d) \/ Free(d)
  PROVE  /\ UNCHANGED <<pc[c], timer[c], budget[c], beat[c], pending[c], missed[c]>>
         /\ owner = c => UNCHANGED keyVars
<1> USE LockAssumption
<1>1. CASE Set(d) \/ Release(d)
  BY <1>1 DEF Set, Release, Releases, Goto, keyVars, beatVars, TimedInv, TypeOK
<1>2. CASE Beat(d) \/ Extend(d)
  BY <1>2 DEF Beat, Extend, Missed, keyVars, TimedInv, TypeOK
<1>3. CASE Granted(d) \/ CallApi(d) \/ Answered(d) \/ Read(d)
  BY <1>3 DEF Granted, CallApi, Answered, Read, Goto, beatVars, TimedInv, TypeOK
<1>4. CASE Retry(d) \/ AskAgain(d)
  BY <1>4 DEF Retry, AskAgain, Goto, beatVars, TimedInv, TypeOK
<1>5. CASE Acquire(d) \/ EndWork(d)
  BY <1>5 DEF Acquire, EndWork, Goto, beatVars, TimedInv, TypeOK
<1> QED
  BY <1>1, <1>2, <1>3, <1>4, <1>5 DEF Prompt, Free

(* The key's age and what a step may still last add up to what has been    *)
(* allowed so far; what is left of the API's timeout is not used up.       *)
Deadline(c) ==
  /\ pc[c] = "granted" => TTL - ttl + timer[c] <= Delay
  /\ pc[c] = "before" => TTL - ttl + timer[c] <= Delay + CommandsBefore
  /\ pc[c] = "ask" =>
       TTL - ttl + timer[c] <= Delay + CommandsBefore + Timeout
  /\ pc[c] = "pause" =>
       TTL - ttl + timer[c] + budget[c] <= Delay + CommandsBefore + Timeout
  /\ pc[c] = "body" =>
       TTL - ttl + timer[c] <= Delay + CommandsBefore + Timeout + BodyTime

KeptPc == {"granted", "before"} \union FetchPc
KeptInv == \A c \in Caller : pc[c] \in KeptPc => owner = c /\ Deadline(c)

LEMMA TickKeepsKept == InTime /\ TimedInv /\ KeptInv /\ Tick => KeptInv'
<1> SUFFICES ASSUME InTime, TimedInv, KeptInv, Tick, NEW c \in Caller,
                    pc'[c] \in KeptPc
             PROVE  owner' = c /\ Deadline(c)'
  BY DEF KeptInv
<1> USE Numbers, LockAssumption
<1>1. /\ pc' = pc /\ pc[c] \in KeptPc /\ owner = c /\ Deadline(c)
      /\ budget' = budget
  BY DEF KeptInv, Tick
<1>2. /\ timer[c] \in Nat /\ timer[c] # 0 /\ timer'[c] = timer[c] - 1
      /\ budget[c] \in Nat
  BY <1>1 DEF Tick, Due, KeptPc, FetchPc, TimedPc, TimedInv, TypeOK
<1>3. ttl \in Nat /\ ttl # 0 /\ ttl' = ttl - 1
  BY <1>1 DEF Tick, TimedInv, TypeOK
<1>4. TTL - ttl + timer[c] < TTL
  BY <1>1, <1>2, <1>3 DEF Deadline, InTime, KeptPc, FetchPc
<1>5. ttl' # 0
  BY <1>2, <1>3, <1>4
<1>6. owner' = c
  BY <1>1, <1>5 DEF Tick
<1>7. TTL - ttl' + timer'[c] = TTL - ttl + timer[c]
  BY <1>2, <1>3
<1> QED
  BY <1>1, <1>6, <1>7 DEF Deadline

(* A caller's own steps.                                                   *)
LEMMA OwnStepsKeepKept ==
  ASSUME TimedInv, NEW c \in Caller, pc[c] \in KeptPc => owner = c /\ Deadline(c),
         Prompt(c) \/ Free(c), pc'[c] \in KeptPc
  PROVE  owner' = c /\ Deadline(c)'
<1> USE Numbers, LockAssumption
<1>1. /\ ttl \in Nat /\ ttl <= TTL
      /\ pc \in [Caller -> PC] /\ timer \in [Caller -> 0..MaxTimer]
      /\ budget \in [Caller -> 0..Timeout]
      /\ timer[c] \in Nat /\ budget[c] \in Nat
  BY DEF TimedInv, TypeOK
<1>2. CASE Set(c)
  <2>1. owner' = c /\ ttl' = TTL /\ pc'[c] = "granted" /\ timer' = timer
    BY <1>1, <1>2 DEF Set, Goto, KeptPc, FetchPc
  <2>2. timer[c] <= Delay
    BY <1>2 DEF Set, TimedInv, TimerInv
  <2> QED
    BY <1>1, <2>1, <2>2 DEF Deadline
<1>3. CASE Granted(c)
  <2>1. /\ pc[c] = "granted" /\ pc'[c] = "before" /\ timer'[c] = CommandsBefore
        /\ UNCHANGED <<owner, ttl>>
    BY <1>1, <1>3 DEF Granted, Goto, keyVars, KeptPc, FetchPc
  <2> QED
    BY <1>1, <2>1 DEF Deadline, KeptPc
<1>4. CASE CallApi(c)
  <2>1. /\ pc[c] = "before" /\ pc'[c] = "ask" /\ timer'[c] = Timeout
        /\ UNCHANGED <<owner, ttl>>
    BY <1>1, <1>4 DEF CallApi, Goto, keyVars, KeptPc, FetchPc
  <2> QED
    BY <1>1, <2>1 DEF Deadline, KeptPc
<1>5. CASE Retry(c)
  <2>1. PICK pause \in 0..Timeout :
          /\ timer[c] - pause > 0
          /\ budget' = [budget EXCEPT ![c] = timer[c] - pause]
          /\ Goto(c, "pause", pause)
    BY <1>5 DEF Retry, BudgetAfter
  <2>2. /\ pc[c] = "ask" /\ pc'[c] = "pause"
        /\ timer'[c] + budget'[c] = timer[c] /\ timer'[c] \in Nat /\ budget'[c] \in Nat
        /\ UNCHANGED <<owner, ttl>>
    BY <1>1, <1>5, <2>1 DEF Retry, Goto, keyVars
  <2> QED
    BY <1>1, <2>2 DEF Deadline, KeptPc, FetchPc
<1>6. CASE AskAgain(c)
  <2>1. /\ pc[c] = "pause" /\ pc'[c] = "ask" /\ timer[c] = 0 /\ timer'[c] = budget[c]
        /\ UNCHANGED <<owner, ttl>>
    BY <1>1, <1>6 DEF AskAgain, Goto, keyVars
  <2> QED
    BY <1>1, <2>1 DEF Deadline, KeptPc, FetchPc
<1>7. CASE Answered(c)
  <2>1. /\ pc[c] = "ask" /\ pc'[c] = "body" /\ timer'[c] = BodyTime
        /\ UNCHANGED <<owner, ttl>>
    BY <1>1, <1>7 DEF Answered, Goto, keyVars, KeptPc, FetchPc
  <2> QED
    BY <1>1, <2>1 DEF Deadline, KeptPc, FetchPc
<1>8. CASE Beat(c) \/ Extend(c)
  <2>1. /\ UNCHANGED <<owner, pc, timer, budget>>
        /\ ttl' \in {ttl, TTL}
    BY <1>8 DEF Beat, Extend, Renewed, keyVars
  <2> QED
    BY <1>1, <2>1 DEF Deadline, KeptPc
<1>9. CASE Release(c) \/ Read(c) \/ Acquire(c) \/ EndWork(c)
  BY <1>1, <1>9 DEF Release, Read, Acquire, EndWork, Goto, KeptPc, FetchPc
<1> QED
  BY <1>2, <1>3, <1>4, <1>5, <1>6, <1>7, <1>8, <1>9 DEF Prompt, Free

LEMMA NextKeptInv == InTime /\ TimedInv /\ KeptInv /\ [Next]_vars => KeptInv'
<1> SUFFICES ASSUME InTime, TimedInv, KeptInv, [Next]_vars PROVE KeptInv'
  OBVIOUS
<1>1. CASE Tick
  BY <1>1, TickKeepsKept
<1>2. ASSUME NEW d \in Caller, Prompt(d) \/ Free(d), NEW c \in Caller,
             pc'[c] \in KeptPc
      PROVE  owner' = c /\ Deadline(c)'
  <2>1. CASE c = d
    BY <1>2, <2>1, OwnStepsKeepKept DEF KeptInv
  <2>2. CASE c # d
    <3>1. /\ UNCHANGED <<pc[c], timer[c], budget[c]>>
          /\ owner = c => UNCHANGED keyVars
      BY <1>2, <2>2, OthersLeaveCaller
    <3>2. owner = c /\ Deadline(c)
      BY <1>2, <3>1 DEF KeptInv
    <3> QED
      BY <3>1, <3>2 DEF Deadline, keyVars
  <2> QED
    BY <2>1, <2>2
<1>3. CASE UNCHANGED vars
  BY <1>3 DEF vars, keyVars, KeptInv, Deadline
<1> QED
  BY <1>1, <1>2, <1>3 DEF Next, KeptInv

(* A processRequest still holds its key when its API call ends, for every  *)
(* number of retries and every length of pauses, if Redis and the API's    *)
(* body are in time: axios-retry lets all attempts share one timeout       *)
(* (danbooru.service.ts acquireQueryLock, base-api.service.ts axiosRetry). *)
THEOREM FetchKeepsKey == Spec => []KeptThroughFetch
<1>1. CASE InTime
  <2>1. Init => TimedInv /\ KeptInv
    BY InitTimedInv DEF Init, KeptInv, KeptPc, FetchPc
  <2>2. TimedInv /\ KeptInv /\ [Next]_vars => (TimedInv /\ KeptInv)'
    BY <1>1, NextTimedInv, NextKeptInv
  <2>3. KeptInv => KeptThroughFetch
    BY DEF KeptInv, KeptThroughFetch, KeptPc
  <2> QED
    BY <2>1, <2>2, <2>3, PTL DEF Spec
<1>2. CASE ~InTime
  <2>1. KeptThroughFetch
    BY <1>2 DEF KeptThroughFetch
  <2> QED
    BY <2>1, PTL
<1> QED
  BY <1>1, <1>2

----------------------------------------------------------------------------
(* A heartbeat that has yet to miss a beat too many.  The key's age is     *)
(* that of the last extension, which itself came up to Delay after its     *)
(* beat: one Heartbeat for every beat missed since, one for the present.   *)
CanMiss(m) == (m + 1) * Heartbeat + 2 * Delay < TTL

(* A beat under way is the present one, sent Delay - pending ago.          *)
BeatAge(c) ==
  /\ pending[c] = None =>
       TTL - ttl + beat[c] <= Delay + missed[c] * Heartbeat + Heartbeat
  /\ pending[c] # None =>
       /\ TTL - ttl + pending[c] <= 2 * Delay + missed[c] * Heartbeat + Heartbeat
       /\ Delay - pending[c] = Heartbeat - beat[c]

(* Before the operation the heartbeat has not begun.                       *)
NotBegun(c) == pending[c] = None /\ beat[c] = Heartbeat /\ missed[c] = 0

HeldInv ==
  \A c \in Beating :
    /\ pc[c] \in {"idle", "set", "granted"} => NotBegun(c)
    /\ pc[c] = "granted" => owner = c /\ TTL - ttl + timer[c] <= Delay
    /\ pc[c] = "work" /\ CanMiss(missed[c]) => owner = c /\ BeatAge(c)

(* TTL exceeds a command's delay; missed beats are counted far enough.     *)
Counted == Delay < TTL /\ ~CanMiss(MaxMissed)

LEMMA TickKeepsHeld ==
  ASSUME Delay < TTL, TimedInv, HeldInv, Tick
  PROVE  HeldInv'
<1> USE Numbers, LockAssumption
<1> SUFFICES ASSUME NEW c \in Beating
             PROVE  /\ pc[c] \in {"idle", "set", "granted"} => NotBegun(c)'
                    /\ pc[c] = "granted" =>
                         owner' = c /\ TTL - ttl' + timer'[c] <= Delay
                    /\ pc[c] = "work" /\ CanMiss(missed[c]) => owner' = c /\ BeatAge(c)'
  BY DEF HeldInv, Tick, CanMiss
<1>1. /\ c \in Caller /\ missed' = missed /\ pc' = pc
      /\ timer[c] \in Nat /\ ttl \in Nat /\ beat[c] \in Nat /\ missed[c] \in Nat
      /\ pending[c] \in Nat \union {None} /\ beat[c] <= Heartbeat
      /\ missed[c] * Heartbeat \in Nat
  BY DEF TimedInv, TypeOK, Tick
<1>2. owner = c => ttl # 0 /\ ttl' = ttl - 1 /\ (ttl' # 0 => owner' = c)
  BY <1>1 DEF TimedInv, TypeOK, Tick
<1>3. ASSUME pc[c] \in {"idle", "set", "granted"} PROVE NotBegun(c)'
  BY <1>1, <1>3 DEF HeldInv, NotBegun, Tick, Beats
<1>4. ASSUME pc[c] = "granted"
      PROVE  owner' = c /\ TTL - ttl' + timer'[c] <= Delay
  <2>1. owner = c /\ TTL - ttl + timer[c] <= Delay
    BY <1>4 DEF HeldInv
  <2>2. timer[c] # 0 /\ timer'[c] = timer[c] - 1
    BY <1>1, <1>4 DEF Tick, Due, TimedPc
  <2> QED
    BY <1>1, <1>2, <2>1, <2>2
<1>5. ASSUME pc[c] = "work", CanMiss(missed[c])
      PROVE  owner' = c /\ BeatAge(c)'
  <2>1. owner = c /\ BeatAge(c)
    BY <1>5 DEF HeldInv
  <2>2. beat[c] # 0 /\ beat'[c] = beat[c] - 1
    BY <1>1, <1>5 DEF Tick, Due, Beats
  <2>3. /\ pending[c] # 0
        /\ pending'[c] = IF pending[c] = None THEN None ELSE pending[c] - 1
    BY <1>1 DEF Tick, Due
  <2>4. missed[c] * Heartbeat + Heartbeat + 2 * Delay < TTL
    BY <1>1, <1>5 DEF CanMiss
  <2>5. CASE pending[c] = None
    <3>1. TTL - ttl + beat[c] <= Delay + missed[c] * Heartbeat + Heartbeat
      BY <2>1, <2>5 DEF BeatAge
    <3>2. TTL - ttl' + beat'[c] <= Delay + missed[c] * Heartbeat + Heartbeat
      BY <1>1, <1>2, <2>1, <2>2, <3>1
    <3>3. ttl' # 0
      <4> DEFINE m == missed[c] * Heartbeat
      <4>1. m \in Nat /\ m + Heartbeat + 2 * Delay < TTL
        BY <1>1, <2>4
      <4>2. TTL - ttl + beat[c] <= Delay + m + Heartbeat
        BY <3>1
      <4>3. beat[c] \in Nat /\ beat[c] > 0
        BY <1>1, <2>2
      <4> HIDE DEF m
      <4>4. ttl # 1
        BY <4>1, <4>2, <4>3
      <4> QED
        BY <1>1, <1>2, <2>1, <4>4
    <3> QED
      BY <1>1, <1>2, <2>1, <2>3, <2>5, <3>2, <3>3 DEF BeatAge
  <2>6. CASE pending[c] # None
    <3>1. /\ TTL - ttl + pending[c] <= 2 * Delay + missed[c] * Heartbeat + Heartbeat
          /\ Delay - pending[c] = Heartbeat - beat[c]
          /\ pending[c] \in Nat /\ pending'[c] = pending[c] - 1 /\ pending'[c] \in Nat
      BY <1>1, <2>1, <2>3, <2>6 DEF BeatAge
    <3>2. /\ TTL - ttl' + pending'[c] <= 2 * Delay + missed[c] * Heartbeat + Heartbeat
          /\ Delay - pending'[c] = Heartbeat - beat'[c]
      BY <1>1, <1>2, <2>1, <2>2, <3>1
    <3>3. ttl' # 0
      BY <1>1, <1>2, <2>1, <2>4, <3>1
    <3> QED
      BY <1>1, <1>2, <2>1, <3>1, <3>2, <3>3 DEF BeatAge
  <2> QED
    BY <2>5, <2>6
<1> QED
  BY <1>3, <1>4, <1>5

(* One beat more, or a heartbeat that has missed as many as are counted.   *)
LEMMA OneMore ==
  ASSUME Counted, TimedInv, NEW c \in Caller, CanMiss(Missed(c)[c])
  PROVE  /\ CanMiss(missed[c]) /\ Missed(c)[c] = missed[c] + 1
         /\ Missed(c)[c] * Heartbeat = missed[c] * Heartbeat + Heartbeat
<1> USE Numbers
<1>1. missed[c] \in Nat /\ missed[c] <= MaxMissed
  BY DEF TimedInv, TypeOK
<1>2. Missed(c)[c] = IF missed[c] < MaxMissed THEN missed[c] + 1 ELSE missed[c]
  BY DEF Missed, TimedInv, TypeOK
<1>3. missed[c] < MaxMissed
  BY <1>1, <1>2 DEF Counted
<1>4. CanMiss(missed[c] + 1)
  BY <1>2, <1>3
<1>5. CanMiss(missed[c])
  BY <1>1, <1>4 DEF CanMiss
<1> QED
  BY <1>1, <1>2, <1>3, <1>5

LEMMA BeatKeepsHeld ==
  ASSUME Counted, TimedInv, NEW c \in Caller, Beat(c), BeatAge(c), owner = c,
         CanMiss(missed'[c])
  PROVE  owner' = c /\ BeatAge(c)'
<1> USE Numbers, LockAssumption
<1>1. /\ beat[c] = 0 /\ beat'[c] = Heartbeat /\ UNCHANGED <<owner, ttl>>
      /\ ttl \in Nat /\ missed[c] \in Nat /\ missed[c] * Heartbeat \in Nat
  BY DEF Beat, keyVars, TimedInv, TypeOK
<1>2. pending[c] = None
  BY <1>1 DEF BeatAge, TimedInv, TypeOK
<1>3. TTL - ttl <= Delay + missed[c] * Heartbeat + Heartbeat
  BY <1>1, <1>2 DEF BeatAge
<1>4. CASE pending' = [pending EXCEPT ![c] = Delay] /\ UNCHANGED missed
  <2>1. pending'[c] = Delay /\ Delay # None
    BY <1>4 DEF TimedInv, TypeOK
  <2> QED
    BY <1>1, <1>3, <1>4, <2>1 DEF BeatAge
<1>5. CASE missed' = Missed(c) /\ UNCHANGED pending
  <2>1. missed'[c] * Heartbeat = missed[c] * Heartbeat + Heartbeat
    BY <1>5, OneMore
  <2> QED
    BY <1>1, <1>2, <1>3, <1>5, <2>1 DEF BeatAge
<1> QED
  BY <1>4, <1>5 DEF Beat

LEMMA ExtendKeepsHeld ==
  ASSUME Counted, TimedInv, NEW c \in Caller, Extend(c),
         CanMiss(missed[c]) => owner = c, CanMiss(missed'[c])
  PROVE  owner' = c /\ BeatAge(c)'
<1> USE Numbers, LockAssumption
<1>1. CASE owner = c
  <2>1. ttl' = TTL /\ missed'[c] = 0 /\ pending'[c] = None /\ owner' = owner
        /\ beat' = beat /\ beat[c] \in Nat /\ beat[c] <= Heartbeat
    BY <1>1 DEF Extend, Renewed, TimedInv, TypeOK
  <2>2. missed'[c] * Heartbeat = 0
    BY <2>1
  <2> QED
    BY <1>1, <2>1, <2>2 DEF BeatAge
<1>2. CASE owner # c
  <2>1. missed' = Missed(c)
    BY <1>2 DEF Extend
  <2> QED
    BY <1>2, <2>1, OneMore
<1> QED
  BY <1>1, <1>2

(* A caller's own steps.                                                   *)
LEMMA OwnStepsKeepHeld ==
  ASSUME Counted, TimedInv, HeldInv, NEW c \in Beating, Prompt(c) \/ Free(c)
  PROVE  /\ pc'[c] \in {"idle", "set", "granted"} => NotBegun(c)'
         /\ pc'[c] = "granted" => owner' = c /\ TTL - ttl' + timer'[c] <= Delay
         /\ pc'[c] = "work" /\ CanMiss(missed'[c]) => owner' = c /\ BeatAge(c)'
<1> USE Numbers, LockAssumption
<1>1. c \in Caller /\ pc \in [Caller -> PC] /\ timer \in [Caller -> 0..MaxTimer]
  BY DEF TimedInv, TypeOK
<1>2. CASE Acquire(c)
  BY <1>1, <1>2 DEF Acquire, Goto, HeldInv, NotBegun, beatVars
<1>3. CASE Set(c)
  <2>1. /\ pc[c] = "set" /\ pc'[c] \in {"granted", "done"} /\ UNCHANGED beatVars
        /\ pc'[c] = "granted" => owner' = c /\ ttl' = TTL /\ timer' = timer
    BY <1>1, <1>3 DEF Set, Goto
  <2>2. timer[c] <= Delay /\ timer[c] \in Nat
    BY <1>1, <2>1 DEF TimedInv, TimerInv
  <2> QED
    BY <2>1, <2>2 DEF HeldInv, NotBegun, beatVars
<1>4. CASE Granted(c)
  <2>1. /\ pc[c] = "granted" /\ pc'[c] = "work"
        /\ UNCHANGED <<owner, ttl, beat, pending, missed>>
    BY <1>1, <1>4 DEF Granted, Goto, keyVars, beatVars
  <2>2. /\ NotBegun(c) /\ owner = c /\ TTL - ttl + timer[c] <= Delay
        /\ timer[c] \in Nat /\ ttl \in Nat
    BY <1>1, <2>1 DEF HeldInv, TimedInv, TypeOK
  <2>3. missed[c] = 0 /\ missed[c] * Heartbeat = 0
    BY <2>2 DEF NotBegun
  <2> QED
    BY <2>1, <2>2, <2>3 DEF NotBegun, BeatAge
<1>5. CASE Beat(c)
  <2>1. pc[c] = "work" /\ pc' = pc
    BY <1>5 DEF Beat, Beats
  <2>2. CanMiss(missed'[c]) => CanMiss(missed[c])
    BY <1>1, <1>5, OneMore DEF Beat
  <2> QED
    BY <1>1, <1>5, <2>1, <2>2, BeatKeepsHeld DEF HeldInv
<1>6. CASE Extend(c)
  <2>1. pending[c] # None /\ pc' = pc
    BY <1>6 DEF Extend
  <2>2. pc[c] \notin {"idle", "set", "granted"}
    BY <2>1 DEF HeldInv, NotBegun
  <2>3. pc[c] = "work" /\ CanMiss(missed'[c]) => owner' = c /\ BeatAge(c)'
    BY <1>1, <1>6, ExtendKeepsHeld DEF HeldInv
  <2> QED
    BY <2>1, <2>2, <2>3
<1>7. CASE \/ Release(c) \/ CallApi(c) \/ Retry(c) \/ AskAgain(c)
           \/ Answered(c) \/ Read(c) \/ EndWork(c)
  <2>1. pc'[c] \in {"done", "ask", "after", "pause", "body", "release"}
    BY <1>1, <1>7 DEF Release, CallApi, Retry, AskAgain, Answered, Read, EndWork, Goto
  <2> QED
    BY <2>1
<1> QED
  BY <1>2, <1>3, <1>4, <1>5, <1>6, <1>7 DEF Prompt, Free

LEMMA NextHeldInv == Counted /\ TimedInv /\ HeldInv /\ [Next]_vars => HeldInv'
<1> SUFFICES ASSUME Counted, TimedInv, HeldInv, [Next]_vars PROVE HeldInv'
  OBVIOUS
<1>1. CASE Tick
  BY <1>1, TickKeepsHeld DEF Counted
<1>2. ASSUME NEW d \in Caller, Prompt(d) \/ Free(d) PROVE HeldInv'
  <2> SUFFICES ASSUME NEW c \in Beating
               PROVE  /\ pc'[c] \in {"idle", "set", "granted"} => NotBegun(c)'
                      /\ pc'[c] = "granted" =>
                           owner' = c /\ TTL - ttl' + timer'[c] <= Delay
                      /\ pc'[c] = "work" /\ CanMiss(missed'[c]) =>
                           owner' = c /\ BeatAge(c)'
    BY DEF HeldInv, CanMiss
  <2>1. CASE c = d
    BY <1>2, <2>1, OwnStepsKeepHeld
  <2>2. CASE c # d
    <3>1. /\ UNCHANGED <<pc[c], timer[c], beat[c], pending[c], missed[c]>>
          /\ owner = c => UNCHANGED keyVars
      BY <1>2, <2>2, OthersLeaveCaller, LockAssumption
    <3> QED
      BY <3>1 DEF HeldInv, NotBegun, BeatAge, keyVars
  <2> QED
    BY <2>1, <2>2
<1>3. CASE UNCHANGED vars
  BY <1>3 DEF vars, keyVars, beatVars, HeldInv, NotBegun, BeatAge, CanMiss
<1> QED
  BY <1>1, <1>2, <1>3 DEF Next

(* A heartbeat keeps its key as long as its misses leave time for one more *)
(* beat, for every TTL, interval and delay (lock.util.ts startHeartbeat).  *)
THEOREM HeartbeatKeepsKey ==
  ASSUME Counted
  PROVE  Spec => []HeldWhileBeating
<1>1. Init => TimedInv /\ HeldInv
  BY InitTimedInv, LockAssumption DEF Init, HeldInv, NotBegun
<1>2. TimedInv /\ HeldInv /\ [Next]_vars => (TimedInv /\ HeldInv)'
  BY NextTimedInv, NextHeldInv
<1>3. HeldInv => HeldWhileBeating
  BY DEF HeldInv, HeldWhileBeating, Beats, CanMiss
<1> QED
  BY <1>1, <1>2, <1>3, PTL DEF Spec

----------------------------------------------------------------------------
(* The key is a lease.                                                     *)
LEMMA StepsLease ==
  ASSUME TimedInv, [Next]_vars
  PROVE  [KeyLease!LeaseNext]_(KeyLease!leaseVars)
<1> USE LockAssumption DEF KeyLease!leaseVars
<1> DEFINE inside == {c \in Caller : pc[c] \in HoldingPc}
<1>1. pc \in [Caller -> PC] /\ owner \in Caller \union {None} /\ lapsed \subseteq Caller
      /\ (owner = None <=> ttl = 0)
  BY DEF TimedInv, TypeOK
<1>2. CASE Tick
  <2>1. pc' = pc
    BY <1>2 DEF Tick
  <2>2. CASE owner' = owner
    BY <1>2, <2>1, <2>2 DEF Tick
  <2>3. CASE owner' # owner
    <3>1. owner # None /\ owner' = None
      BY <1>1, <1>2, <2>3 DEF Tick
    <3>2. lapsed' = lapsed \union (inside \intersect {owner})
      BY <1>1, <1>2, <2>3, <3>1 DEF Tick
    <3>3. KeyLease!Expire
      BY <2>1, <3>1, <3>2 DEF KeyLease!Expire
    <3> QED
      BY <3>3 DEF KeyLease!LeaseNext
  <2> QED
    BY <2>2, <2>3
<1>3. ASSUME NEW c \in Caller, Set(c) PROVE KeyLease!LeaseNext \/ UNCHANGED KeyLease!leaseVars
  <2>1. pc[c] = "set" /\ lapsed' = lapsed
    BY <1>3 DEF Set
  <2>2. CASE owner = None /\ owner' = c /\ pc' = [pc EXCEPT ![c] = "granted"]
    <3>1. inside' = inside \union {c}
      BY <1>1, <2>2 DEF HoldingPc
    <3>2. KeyLease!Grant(c)
      BY <2>1, <2>2, <3>1 DEF KeyLease!Grant
    <3> QED
      BY <3>2 DEF KeyLease!LeaseNext
  <2>3. CASE owner = None /\ owner' = c /\ pc' = [pc EXCEPT ![c] = "done"]
    <3>1. inside' = inside
      BY <1>1, <2>1, <2>3 DEF HoldingPc, FetchPc
    <3>2. KeyLease!GrantUnheard(c)
      BY <2>1, <2>3, <3>1 DEF KeyLease!GrantUnheard
    <3> QED
      BY <3>2 DEF KeyLease!LeaseNext
  <2>4. CASE owner' = owner /\ pc' = [pc EXCEPT ![c] = "done"]
    <3>1. inside' = inside
      BY <1>1, <2>1, <2>4 DEF HoldingPc, FetchPc
    <3> QED
      BY <2>1, <2>4, <3>1
  <2> QED
    BY <1>3, <2>2, <2>3, <2>4 DEF Set, Goto
<1>4. ASSUME NEW c \in Caller, Release(c) PROVE KeyLease!LeaseNext
  <2>1. /\ pc[c] = "release" /\ pc' = [pc EXCEPT ![c] = "done"]
        /\ lapsed' = lapsed \ {c}
        /\ owner' = owner \/ (owner' = None /\ owner = c)
    BY <1>4 DEF Release, Releases, Goto
  <2>2. inside' = inside \ {c} /\ {c} \in SUBSET inside
    BY <1>1, <2>1 DEF HoldingPc, FetchPc
  <2>3. KeyLease!Leave({c})
    BY <2>1, <2>2 DEF KeyLease!Leave
  <2> QED
    BY <2>2, <2>3 DEF KeyLease!LeaseNext
<1>5. ASSUME NEW c \in Caller, Beat(c) \/ Extend(c) PROVE UNCHANGED KeyLease!leaseVars
  BY <1>5 DEF Beat, Extend, keyVars
<1>6. ASSUME NEW c \in Caller,
             \/ Acquire(c) \/ EndWork(c) \/ Granted(c) \/ CallApi(c) \/ Retry(c)
             \/ AskAgain(c) \/ Answered(c) \/ Read(c)
      PROVE  UNCHANGED KeyLease!leaseVars
  <2>1. UNCHANGED <<owner, lapsed>>
    BY <1>6 DEF Acquire, EndWork, Granted, CallApi, Retry, AskAgain, Answered, Read,
       keyVars
  <2>2. PICK label : pc' = [pc EXCEPT ![c] = label] /\ (label \in HoldingPc <=> pc[c] \in HoldingPc)
    BY <1>6 DEF Acquire, EndWork, Granted, CallApi, Retry, AskAgain, Answered, Read,
       Goto, HoldingPc, FetchPc
  <2> QED
    BY <1>1, <2>1, <2>2
<1>7. CASE UNCHANGED vars
  BY <1>7 DEF vars, keyVars
<1> QED
  BY <1>2, <1>3, <1>4, <1>5, <1>6, <1>7 DEF Next, Prompt, Free

(* Time, heartbeats, late releases and unheard grants included, the key is *)
(* granted only while free, and freed only by its holder or its TTL.       *)
THEOREM KeyImplementsLease == Spec => ImplementsLease
<1>1. Init => KeyLease!LeaseInit
  BY DEF Init, KeyLease!LeaseInit, HoldingPc, FetchPc
<1>2. TimedInv /\ [Next]_vars => [KeyLease!LeaseNext]_(KeyLease!leaseVars)
  BY StepsLease
<1> QED
  BY <1>1, <1>2, InitTimedInv, NextTimedInv, PTL
  DEF Spec, ImplementsLease, KeyLease!LeaseSpec
============================================================================
