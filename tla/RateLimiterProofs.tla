------------------------- MODULE RateLimiterProofs -------------------------
(***************************************************************************)
(* Proofs about RateLimiter, for any clients, windows, limits, composite   *)
(* checks and bounds.                                                      *)
(***************************************************************************)
EXTENDS RateLimiter, TLAPS

(* What the invariants need of the types.                                  *)
CounterTypes ==
  /\ now \in Nat
  /\ count \in [Counter -> Nat]
  /\ expiry \in [Counter -> Nat]
  /\ admitted \in [Counter -> Nat]
  /\ unheard \in [Counter -> Nat]
  /\ refusal \in [Counter -> Refusal \union {None}]
  /\ admissions \in [Counter -> Seq(Nat)]

(* Every execution was admitted, unheard or refused; until the first       *)
(* refusal there are no others.                                            *)
Accounted ==
  \A k \in Counter :
    /\ admitted[k] + unheard[k] <= count[k]
    /\ refusal[k] = None => count[k] = admitted[k] + unheard[k]

(* A counter that refused was used up when it first did.                   *)
UsedUp ==
  \A k \in Counter :
    refusal[k] # None => admitted[k] + unheard[k] >= refusal[k].limit

CounterInv == CounterTypes /\ Accounted /\ WindowBound /\ UsedUp

(* The admitted executions are among those counted.                        *)
LEMMA AdmittedIsCounted ==
  ASSUME CounterTypes, Accounted, NEW k \in Counter
  PROVE  admitted[k] <= count[k]
<1>1. /\ admitted[k] \in Nat /\ unheard[k] \in Nat /\ count[k] \in Nat
      /\ admitted[k] + unheard[k] <= count[k]
  BY DEF CounterTypes, Accounted
<1> QED
  BY <1>1

(* The operations use what belongs to the sets of constants.               *)
LEMMA CompositeTyped ==
  ASSUME NEW c \in Composite, todo \in [Composite -> Seq(Identifier)],
         todo[c] # <<>>
  PROVE  /\ ServiceKey(Head(todo[c])) \in Counter
         /\ WindowOf[c] \in Window
         /\ Tail(todo[c]) \in Seq(Identifier)
<1>1. todo[c] \in Seq(Identifier)
  OBVIOUS
<1>2. Head(todo[c]) \in Identifier /\ Tail(todo[c]) \in Seq(Identifier)
  BY <1>1
<1> QED
  BY <1>2, LimiterAssumption DEF ServiceKey, Counter

(* No counter exists at first.                                             *)
LEMMA InitCounterInv == Init => CounterInv
<1> SUFFICES ASSUME Init PROVE CounterInv
  OBVIOUS
<1> USE LimiterAssumption DEF Init
<1>1. CounterTypes
  BY DEF CounterTypes, Refusal
<1>2. Accounted
  BY DEF Accounted
<1>3. WindowBound
  BY DEF WindowBound
<1>4. UsedUp
  BY DEF UsedUp
<1> QED
  BY <1>1, <1>2, <1>3, <1>4 DEF CounterInv

(* An execution whose result reaches its caller.                           *)
LEMMA AnswerKeepsCounterInv ==
  ASSUME CounterInv, NEW k \in Counter, NEW w \in Window,
         Execute(k, w), Answer(k, w), UNCHANGED now
  PROVE  CounterInv'
<1> USE LimiterAssumption DEF CounterInv
<1>1. Limit[w] \in Nat \ {0} /\ Seconds[w] \in Nat \ {0}
  OBVIOUS
<1>2. TimeToLive(k, w) \in Nat
  BY <1>1 DEF TimeToLive, CounterTypes
<1>3. /\ count' = [count EXCEPT ![k] = count[k] + 1]
      /\ expiry' = [expiry EXCEPT ![k] = TimeToLive(k, w)]
      /\ unheard' = unheard
      /\ now' = now
  BY DEF Execute, Answer
<1>4. [limit |-> Limit[w], until |-> now + Seconds[w]] \in Refusal
  BY <1>1 DEF Refusal, CounterTypes
<1>5. [limit |-> Limit[w], until |-> now + Seconds[w]] # None
  BY <1>4 DEF Refusal
<1>6. CASE Allows(k, w)
  <2>1. /\ admitted' = [admitted EXCEPT ![k] = admitted[k] + 1]
        /\ refusal' = refusal
        /\ admissions' = [admissions EXCEPT ![k] = Append(admissions[k], now)]
    BY <1>6 DEF Answer
  <2>2. count[k] + 1 <= Limit[w]
    BY <1>6 DEF Allows
  <2>3. CounterTypes'
    <3>1. Append(admissions[k], now) \in Seq(Nat)
      BY DEF CounterTypes
    <3>2. admissions' \in [Counter -> Seq(Nat)]
      BY <2>1, <3>1 DEF CounterTypes
    <3>3. /\ now' \in Nat /\ count' \in [Counter -> Nat]
          /\ expiry' \in [Counter -> Nat]
      BY <1>2, <1>3 DEF CounterTypes
    <3>4. admitted' \in [Counter -> Nat]
      BY <2>1 DEF CounterTypes
    <3>5. /\ unheard' \in [Counter -> Nat]
          /\ refusal' \in [Counter -> Refusal \union {None}]
      BY <1>3, <2>1 DEF CounterTypes
    <3> QED
      BY <3>2, <3>3, <3>4, <3>5 DEF CounterTypes
  <2>4. Accounted'
    <3> SUFFICES ASSUME NEW x \in Counter
                 PROVE  /\ admitted'[x] + unheard'[x] <= count'[x]
                        /\ refusal'[x] = None => count'[x] = admitted'[x] + unheard'[x]
      BY DEF Accounted
    <3>1. /\ admitted[x] + unheard[x] <= count[x]
          /\ refusal[x] = None => count[x] = admitted[x] + unheard[x]
      BY DEF Accounted
    <3>2. /\ count'[x] = IF x = k THEN count[x] + 1 ELSE count[x]
          /\ admitted'[x] = IF x = k THEN admitted[x] + 1 ELSE admitted[x]
      BY <1>3, <2>1 DEF CounterTypes
    <3>3. count[x] \in Nat /\ admitted[x] \in Nat /\ unheard[x] \in Nat
      BY DEF CounterTypes
    <3> QED
      BY <1>3, <2>1, <3>1, <3>2, <3>3
  <2>5. WindowBound'
    <3> SUFFICES ASSUME NEW x \in Counter
                 PROVE  \E v \in Window : admitted'[x] <= Limit[v]
      BY DEF WindowBound
    <3>1. CASE x = k
      <4>1. admitted'[k] = admitted[k] + 1 /\ admitted[k] <= count[k]
        BY <2>1, AdmittedIsCounted DEF CounterTypes
      <4> QED
        BY <3>1, <4>1, <2>2, <1>1 DEF CounterTypes
    <3>2. CASE x # k
      BY <3>2, <2>1 DEF CounterTypes, WindowBound
    <3> QED
      BY <3>1, <3>2
  <2>6. UsedUp'
    <3> SUFFICES ASSUME NEW x \in Counter, refusal'[x] # None
                 PROVE  admitted'[x] + unheard'[x] >= refusal'[x].limit
      BY DEF UsedUp
    <3>1. admitted[x] + unheard[x] >= refusal[x].limit
      BY <2>1 DEF UsedUp
    <3>2. admitted'[x] = admitted[x] \/ admitted'[x] = admitted[x] + 1
      BY <2>1 DEF CounterTypes
    <3>3. admitted[x] \in Nat /\ unheard[x] \in Nat /\ refusal[x].limit \in Nat
      BY <2>1 DEF CounterTypes, Refusal
    <3> QED
      BY <1>3, <2>1, <3>1, <3>2, <3>3
  <2> QED
    BY <2>3, <2>4, <2>5, <2>6
<1>7. CASE ~Allows(k, w)
  <2>1. /\ refusal' = [refusal EXCEPT ![k] =
                         IF refusal[k] = None
                         THEN [limit |-> Limit[w], until |-> now + Seconds[w]]
                         ELSE refusal[k]]
        /\ admitted' = admitted
        /\ admissions' = admissions
    BY <1>7 DEF Answer
  <2>2. count[k] >= Limit[w]
    BY <1>1, <1>7 DEF Allows, CounterTypes
  <2>3. CounterTypes'
    <3>1. refusal' \in [Counter -> Refusal \union {None}]
      BY <1>4, <2>1 DEF CounterTypes
    <3>2. /\ now' \in Nat /\ count' \in [Counter -> Nat]
          /\ expiry' \in [Counter -> Nat]
      BY <1>2, <1>3 DEF CounterTypes
    <3>3. /\ admitted' \in [Counter -> Nat] /\ unheard' \in [Counter -> Nat]
          /\ admissions' \in [Counter -> Seq(Nat)]
      BY <1>3, <2>1 DEF CounterTypes
    <3> QED
      BY <3>1, <3>2, <3>3 DEF CounterTypes
  <2>4. Accounted'
    <3> SUFFICES ASSUME NEW x \in Counter
                 PROVE  /\ admitted'[x] + unheard'[x] <= count'[x]
                        /\ refusal'[x] = None => count'[x] = admitted'[x] + unheard'[x]
      BY DEF Accounted
    <3>1. /\ admitted[x] + unheard[x] <= count[x]
          /\ admitted[x] \in Nat /\ unheard[x] \in Nat /\ count[x] \in Nat
      BY DEF Accounted, CounterTypes
    <3>2. CASE x = k
      <4>1. refusal'[k] # None
        BY <1>5, <2>1 DEF CounterTypes
      <4>2. count'[k] = count[k] + 1 /\ unheard'[k] = unheard[k]
        BY <1>3 DEF CounterTypes
      <4> QED
        BY <3>1, <3>2, <4>1, <4>2, <2>1
    <3>3. CASE x # k
      <4>1. refusal'[x] = refusal[x] /\ count'[x] = count[x]
        BY <3>3, <1>3, <2>1 DEF CounterTypes
      <4> QED
        BY <4>1, <1>3, <2>1 DEF Accounted
    <3> QED
      BY <3>2, <3>3
  <2>5. WindowBound'
    BY <2>1 DEF WindowBound
  <2>6. UsedUp'
    <3> SUFFICES ASSUME NEW x \in Counter, refusal'[x] # None
                 PROVE  admitted'[x] + unheard'[x] >= refusal'[x].limit
      BY DEF UsedUp
    <3>1. CASE x = k /\ refusal[k] = None
      <4>1. refusal'[x].limit = Limit[w]
        BY <3>1, <2>1 DEF CounterTypes
      <4> QED
        BY <3>1, <4>1, <2>1, <2>2, <1>3 DEF Accounted, CounterTypes
    <3>2. CASE x # k \/ refusal[k] # None
      <4>1. refusal'[x] = refusal[x]
        BY <3>2, <2>1 DEF CounterTypes
      <4> QED
        BY <4>1, <2>1, <1>3 DEF UsedUp
    <3> QED
      BY <3>1, <3>2
  <2> QED
    BY <2>3, <2>4, <2>5, <2>6
<1> QED
  BY <1>6, <1>7

(* Deleting counters keeps it.                                             *)
LEMMA ForgetKeepsCounterInv ==
  ASSUME CounterInv, NEW keys \in SUBSET Counter, Forget(keys),
         UNCHANGED expiry, now' \in Nat, admissions' \in [Counter -> Seq(Nat)]
  PROVE  CounterInv'
<1> USE LimiterAssumption DEF CounterInv, Forget
<1>1. CounterTypes'
  BY DEF CounterTypes
<1>2. Accounted'
  BY DEF Accounted, CounterTypes
<1>3. WindowBound'
  <2> SUFFICES ASSUME NEW k \in Counter
               PROVE  \E w \in Window : admitted'[k] <= Limit[w]
    BY DEF WindowBound
  <2>1. PICK w \in Window : admitted[k] <= Limit[w]
    BY DEF WindowBound
  <2>2. admitted'[k] <= Limit[w]
    BY <2>1 DEF CounterTypes
  <2> QED
    BY <2>2
<1>4. UsedUp'
  BY DEF UsedUp, CounterTypes
<1> QED
  BY <1>1, <1>2, <1>3, <1>4

(* An execution that nobody hears of is counted as such.                   *)
LEMMA UnheardKeepsCounterInv ==
  ASSUME CounterInv, NEW k \in Counter, NEW w \in Window, Unheard(k, w)
  PROVE  CounterInv'
<1> USE LimiterAssumption DEF CounterInv
<1>1. TimeToLive(k, w) \in Nat
  BY DEF TimeToLive, CounterTypes
<1>2. /\ count' = [count EXCEPT ![k] = count[k] + 1]
      /\ expiry' = [expiry EXCEPT ![k] = TimeToLive(k, w)]
      /\ unheard' = [unheard EXCEPT ![k] = unheard[k] + 1]
      /\ UNCHANGED <<now, admitted, refusal, admissions>>
  BY DEF Execute, Unheard
<1>3. CounterTypes'
  <2>1. /\ now' \in Nat /\ count' \in [Counter -> Nat]
        /\ expiry' \in [Counter -> Nat] /\ unheard' \in [Counter -> Nat]
    BY <1>1, <1>2 DEF CounterTypes
  <2>2. /\ admitted' \in [Counter -> Nat]
        /\ refusal' \in [Counter -> Refusal \union {None}]
        /\ admissions' \in [Counter -> Seq(Nat)]
    BY <1>2 DEF CounterTypes
  <2> QED
    BY <2>1, <2>2 DEF CounterTypes
<1>4. Accounted'
  <2> SUFFICES ASSUME NEW x \in Counter
               PROVE  /\ admitted[x] + unheard'[x] <= count'[x]
                      /\ refusal[x] = None => count'[x] = admitted[x] + unheard'[x]
    BY <1>2 DEF Accounted
  <2>1. /\ count'[x] = IF x = k THEN count[x] + 1 ELSE count[x]
        /\ unheard'[x] = IF x = k THEN unheard[x] + 1 ELSE unheard[x]
    BY <1>2 DEF CounterTypes
  <2>2. count[x] \in Nat /\ admitted[x] \in Nat /\ unheard[x] \in Nat
    BY DEF CounterTypes
  <2>3. /\ admitted[x] + unheard[x] <= count[x]
        /\ refusal[x] = None => count[x] = admitted[x] + unheard[x]
    BY DEF Accounted
  <2> QED
    BY <2>1, <2>2, <2>3
<1>5. WindowBound'
  BY <1>2 DEF WindowBound
<1>6. UsedUp'
  <2> SUFFICES ASSUME NEW x \in Counter, refusal[x] # None
               PROVE  admitted[x] + unheard'[x] >= refusal[x].limit
    BY <1>2 DEF UsedUp
  <2>1. admitted[x] + unheard[x] >= refusal[x].limit
    BY DEF UsedUp
  <2>2. /\ admitted[x] \in Nat /\ unheard[x] \in Nat
        /\ refusal[x].limit \in Nat
    BY DEF CounterTypes, Refusal
  <2>3. unheard'[x] \in {unheard[x], unheard[x] + 1}
    BY <1>2 DEF CounterTypes
  <2> QED
    BY <2>1, <2>2, <2>3
<1> QED
  BY <1>3, <1>4, <1>5, <1>6

----------------------------------------------------------------------------
(* The inductive invariant of the specification.                           *)
LimiterInv ==
  /\ CounterInv
  /\ todo \in [Composite -> Seq(Identifier)]
  /\ passed \in [Composite -> BOOLEAN]

LEMMA InitLimiterInv == Init => LimiterInv
BY InitCounterInv, LimiterAssumption DEF LimiterInv, Init

(* Every step keeps it.                                                    *)
LEMMA NextLimiterInv == LimiterInv /\ [Next]_vars => LimiterInv'
<1> SUFFICES ASSUME LimiterInv, [Next]_vars PROVE LimiterInv'
  OBVIOUS
<1>1. /\ CounterInv
      /\ todo \in [Composite -> Seq(Identifier)]
      /\ passed \in [Composite -> BOOLEAN]
  BY DEF LimiterInv
<1>2. ASSUME NEW id \in Identifier, NEW w \in Window, checkRateLimit(id, w)
      PROVE  LimiterInv'
  <2>1. ManagerKey(id) \in Counter
    BY DEF ManagerKey, Counter
  <2>2. CounterInv'
    BY <1>1, <1>2, <2>1, AnswerKeepsCounterInv DEF checkRateLimit
  <2> QED
    BY <1>1, <1>2, <2>2 DEF LimiterInv, checkRateLimit
<1>3. ASSUME NEW id \in Identifier, NEW w \in Window, checkSlidingWindow(id, w)
      PROVE  LimiterInv'
  <2>1. ServiceKey(id) \in Counter
    BY DEF ServiceKey, Counter
  <2>2. CounterInv'
    BY <1>1, <1>3, <2>1, AnswerKeepsCounterInv DEF checkSlidingWindow
  <2> QED
    BY <1>1, <1>3, <2>2 DEF LimiterInv, checkSlidingWindow
<1>4. ASSUME NEW c \in Composite, checkCompositeRateLimit(c)
      PROVE  LimiterInv'
  <2>1. /\ todo[c] # <<>>
        /\ Execute(ServiceKey(Head(todo[c])), WindowOf[c])
        /\ Answer(ServiceKey(Head(todo[c])), WindowOf[c])
        /\ todo' = [todo EXCEPT ![c] = Tail(todo[c])]
        /\ \E allows \in BOOLEAN :
             passed' = [passed EXCEPT ![c] = passed[c] /\ allows]
        /\ UNCHANGED now
    <3>1. Allows(ServiceKey(Head(todo[c])), WindowOf[c]) \in BOOLEAN
      BY DEF Allows
    <3> QED
      BY <1>4, <3>1 DEF checkCompositeRateLimit
  <2>2. /\ ServiceKey(Head(todo[c])) \in Counter
        /\ WindowOf[c] \in Window
        /\ Tail(todo[c]) \in Seq(Identifier)
    BY <1>1, <2>1, CompositeTyped
  <2>3. CounterInv'
    BY <1>1, <2>1, <2>2, AnswerKeepsCounterInv
  <2> QED
    BY <1>1, <2>1, <2>2, <2>3 DEF LimiterInv
<1>5. ASSUME NEW k \in Counter, NEW w \in Window, Unheard(k, w)
      PROVE  LimiterInv'
  <2>1. CounterInv'
    BY <1>1, <1>5, UnheardKeepsCounterInv
  <2> QED
    BY <1>1, <1>5, <2>1 DEF LimiterInv, Unheard
<1>6. ASSUME NEW id \in Identifier, resetRateLimit(id)
      PROVE  LimiterInv'
  <2>1. /\ {ServiceKey(id)} \in SUBSET Counter
        /\ Forget({ServiceKey(id)})
        /\ UNCHANGED <<now, expiry, todo, passed>>
    BY <1>6 DEF resetRateLimit, ServiceKey, Counter
  <2>2. now' \in Nat /\ admissions' \in [Counter -> Seq(Nat)]
    BY <1>1, <1>6, <2>1 DEF resetRateLimit, CounterInv, CounterTypes
  <2>3. CounterInv'
    BY <1>1, <2>1, <2>2, ForgetKeepsCounterInv
  <2> QED
    BY <1>1, <2>1, <2>3 DEF LimiterInv
<1>7. ASSUME Tick
      PROVE  LimiterInv'
  <2> DEFINE due == {k \in Counter : expiry[k] <= now + 1}
  <2>1. due \in SUBSET Counter /\ Forget(due) /\ UNCHANGED <<expiry, todo, passed>>
    BY <1>7 DEF Tick
  <2>2. now' \in Nat /\ admissions' \in [Counter -> Seq(Nat)]
    BY <1>1, <1>7 DEF Tick, CounterInv, CounterTypes
  <2>3. CounterInv'
    BY <1>1, <2>1, <2>2, ForgetKeepsCounterInv
  <2> QED
    BY <1>1, <2>1, <2>3 DEF LimiterInv
<1>8. CASE UNCHANGED vars
  BY <1>1, <1>8 DEF LimiterInv, vars, counterVars, historyVars, CounterInv,
     CounterTypes, Accounted, WindowBound, UsedUp
<1>9. ASSUME NEW c \in Composite, CompositeCommandFails(c)
      PROVE  LimiterInv'
  <2>1. /\ todo[c] # <<>>
        /\ todo' = [todo EXCEPT ![c] = Tail(todo[c])]
        /\ passed' = [passed EXCEPT ![c] = FALSE]
        /\ UNCHANGED <<now, counterVars, historyVars>>
    BY <1>9 DEF CompositeCommandFails
  <2>2. Tail(todo[c]) \in Seq(Identifier)
    BY <1>1, <2>1, CompositeTyped
  <2>3. CounterInv'
    BY <1>1, <2>1 DEF counterVars, historyVars, CounterInv, CounterTypes,
       Accounted, WindowBound, UsedUp
  <2> QED
    BY <1>1, <2>1, <2>2, <2>3 DEF LimiterInv
<1> QED
  BY <1>2, <1>3, <1>4, <1>5, <1>6, <1>7, <1>8, <1>9 DEF Next

(* The types of the counters hold, whoever checks and resets them.         *)
THEOREM LimiterTypes == Spec => []TypeOK
<1>1. LimiterInv => TypeOK
  BY DEF LimiterInv, CounterInv, CounterTypes, TypeOK
<1>2. QED
  BY <1>1, InitLimiterInv, NextLimiterInv, PTL DEF Spec

(* A counter admits no more than its limit, however calls of any number of *)
(* processes interleave and commands are resent.                           *)
THEOREM LimitHolds == Spec => []WindowBound
<1>1. Init => LimiterInv
  BY InitLimiterInv
<1>2. LimiterInv /\ [Next]_vars => LimiterInv'
  BY NextLimiterInv
<1>3. LimiterInv => WindowBound
  BY DEF LimiterInv, CounterInv
<1> QED
  BY <1>1, <1>2, <1>3, PTL DEF Spec

(* A step that refuses finds the window used up: what is admitted and      *)
(* unheard is the same before and after it, and UsedUp holds after it.     *)
LEMMA RefusalFindsItUsedUp ==
  ASSUME LimiterInv, LimiterInv', [Next]_vars,
         NEW k \in Counter, Refused(k)
  PROVE  admitted[k] + unheard[k] >= refusal'[k].limit
<1> USE LimiterAssumption
<1>1. count[k] \in Nat /\ count'[k] > count[k]
      /\ admitted'[k] = admitted[k] /\ unheard'[k] = unheard[k]
      /\ admitted[k] \in Nat /\ unheard[k] \in Nat
  BY DEF Refused, LimiterInv, CounterInv, CounterTypes
<1>2. refusal'[k] # None
  <2>1. /\ refusal'[k] = None => count'[k] = admitted'[k] + unheard'[k]
        /\ admitted[k] + unheard[k] <= count[k]
    BY DEF LimiterInv, CounterInv, Accounted
  <2> QED
    BY <2>1, <1>1
<1> QED
  BY <1>1, <1>2 DEF LimiterInv, CounterInv, UsedUp

(* A composite check that is refused learns it from one of its scripts, or *)
(* because a command failed.                                               *)
LEMMA PassedLostForCause ==
  ASSUME LimiterInv, [Next]_vars,
         NEW c \in Composite, passed[c], ~passed'[c]
  PROVE  Refused(ServiceKey(Head(todo[c]))) \/ CompositeCommandFails(c)
<1> USE LimiterAssumption
<1>1. PICK d \in Composite : checkCompositeRateLimit(d) \/ CompositeCommandFails(d)
  BY DEF Next, checkRateLimit, checkSlidingWindow, Unheard, resetRateLimit,
     Tick, vars
<1>2. d = c
  BY <1>1 DEF checkCompositeRateLimit, CompositeCommandFails, LimiterInv
<1>3. CASE checkCompositeRateLimit(c)
  <2> DEFINE k == ServiceKey(Head(todo[c]))
             w == WindowOf[c]
  <2>1. /\ Execute(k, w) /\ Answer(k, w) /\ todo[c] # <<>>
        /\ passed' = [passed EXCEPT ![c] = passed[c] /\ Allows(k, w)]
    BY <1>3 DEF checkCompositeRateLimit
  <2>2. k \in Counter
    BY <2>1, CompositeTyped DEF LimiterInv
  <2> HIDE DEF k, w
  <2>3. ~Allows(k, w)
    BY <2>1 DEF LimiterInv
  <2>4. count'[k] = count[k] + 1 /\ count[k] \in Nat
    BY <2>1, <2>2 DEF Execute, LimiterInv, CounterInv, CounterTypes
  <2>5. admitted' = admitted /\ unheard' = unheard
    BY <2>1, <2>3 DEF Answer
  <2>6. Refused(k)
    BY <2>4, <2>5 DEF Refused
  <2> QED
    BY <2>6 DEF k
<1> QED
  BY <1>1, <1>2, <1>3

(* Every refusal of a script finds its window used up, and a composite     *)
(* check is refused by one of its scripts or for a failed command, which   *)
(* alone needs no used-up window.                                          *)
THEOREM RefusalsHaveCause == Spec => RefusedForCause
<1>1. Init => LimiterInv
  BY InitLimiterInv
<1>2. LimiterInv /\ [Next]_vars => LimiterInv'
  BY NextLimiterInv
<1>3. LimiterInv /\ LimiterInv' /\ [Next]_vars =>
        [/\ \A k \in Counter :
              Refused(k) => admitted[k] + unheard[k] >= refusal'[k].limit
         /\ \A c \in Composite : passed[c] /\ ~passed'[c] =>
              Refused(ServiceKey(Head(todo[c]))) \/ CompositeCommandFails(c)]_vars
  BY RefusalFindsItUsedUp, PassedLostForCause
<1> QED
  BY <1>1, <1>2, <1>3, PTL DEF Spec, RefusedForCause

----------------------------------------------------------------------------
(* Where all windows are equally long, a refusal never outlasts its        *)
(* retryAfter: the counter's expiry, set when it was created, comes first. *)
SameLength == \A v, w \in Window : Seconds[v] = Seconds[w]

RetryInv ==
  \A k \in Counter :
    /\ count[k] > 0 =>
         now < expiry[k] /\ \A w \in Window : expiry[k] <= now + Seconds[w]
    /\ refusal[k] # None => count[k] > 0 /\ expiry[k] <= refusal[k].until

(* An execution keeps it, whether its caller hears of it or not; the one   *)
(* that creates the counter is never refused.                              *)
LEMMA ExecuteKeepsRetryInv ==
  ASSUME SameLength, CounterTypes, RetryInv, NEW k \in Counter, NEW w \in Window,
         Execute(k, w), now' = now, Answer(k, w) \/ refusal' = refusal
  PROVE  RetryInv'
<1> USE LimiterAssumption
<1>1. /\ Limit[w] \in Nat \ {0} /\ Seconds[w] \in Nat \ {0}
      /\ \A v \in Window : Seconds[v] = Seconds[w]
  BY DEF SameLength
<1>2. /\ now \in Nat /\ count[k] \in Nat /\ expiry[k] \in Nat
      /\ count'[k] = count[k] + 1
      /\ expiry'[k] = IF count[k] = 0 THEN now + Seconds[w] ELSE expiry[k]
  BY DEF Execute, TimeToLive, CounterTypes
<1>3. now < expiry'[k] /\ \A v \in Window : expiry'[k] <= now + Seconds[v]
  BY <1>1, <1>2 DEF RetryInv
<1>4. refusal'[k] # None => expiry'[k] <= refusal'[k].until
  <2> SUFFICES ASSUME refusal'[k] # None
               PROVE  expiry'[k] <= refusal'[k].until
    OBVIOUS
  <2>1. CASE refusal[k] # None
    <3>1. refusal'[k] = refusal[k]
      BY <2>1 DEF Answer, CounterTypes
    <3> QED
      BY <2>1, <3>1, <1>2 DEF RetryInv
  <2>2. CASE refusal[k] = None
    <3>1. Answer(k, w) /\ ~Allows(k, w)
      BY <2>2 DEF Answer
    <3>2. refusal'[k] = [limit |-> Limit[w], until |-> now + Seconds[w]]
      BY <2>2, <3>1 DEF Answer, CounterTypes
    <3> QED
      BY <3>2, <1>3
  <2> QED
    BY <2>1, <2>2
<1>5. \A x \in Counter \ {k} :
        count'[x] = count[x] /\ expiry'[x] = expiry[x] /\ refusal'[x] = refusal[x]
  BY DEF Execute, Answer, CounterTypes
<1> SUFFICES ASSUME NEW x \in Counter
             PROVE  /\ count'[x] > 0 =>
                         /\ now < expiry'[x]
                         /\ \A v \in Window : expiry'[x] <= now + Seconds[v]
                    /\ refusal'[x] # None =>
                         count'[x] > 0 /\ expiry'[x] <= refusal'[x].until
  BY DEF RetryInv
<1>6. CASE x = k
  BY <1>2, <1>3, <1>4, <1>6
<1>7. CASE x # k
  BY <1>5, <1>7 DEF RetryInv
<1> QED
  BY <1>6, <1>7

(* Time and resets keep it: what is due is deleted.                        *)
LEMMA ForgetKeepsRetryInv ==
  ASSUME CounterTypes, RetryInv, NEW keys \in SUBSET Counter, Forget(keys),
         UNCHANGED expiry, now' \in {now, now + 1},
         now' = now + 1 => {k \in Counter : expiry[k] <= now + 1} \subseteq keys
  PROVE  RetryInv'
<1> SUFFICES ASSUME NEW k \in Counter
             PROVE  /\ count'[k] > 0 =>
                         /\ now' < expiry'[k]
                         /\ \A v \in Window : expiry'[k] <= now' + Seconds[v]
                    /\ refusal'[k] # None =>
                         count'[k] > 0 /\ expiry'[k] <= refusal'[k].until
  BY DEF RetryInv
<1>1. CASE k \in keys
  BY <1>1 DEF Forget
<1>2. CASE k \notin keys
  <2>1. count'[k] = count[k] /\ refusal'[k] = refusal[k] /\ expiry'[k] = expiry[k]
    BY <1>2 DEF Forget
  <2>2. now' = now + 1 => now + 1 < expiry[k]
    BY <1>2 DEF CounterTypes
  <2>3. now \in Nat /\ expiry[k] \in Nat /\ \A v \in Window : Seconds[v] \in Nat
    BY LimiterAssumption DEF CounterTypes
  <2> QED
    BY <2>1, <2>2, <2>3 DEF RetryInv
<1> QED
  BY <1>1, <1>2

(* Every step keeps it.                                                    *)
LEMMA NextRetryInv ==
  ASSUME SameLength, LimiterInv, RetryInv, [Next]_vars
  PROVE  RetryInv'
<1>1. CounterTypes /\ todo \in [Composite -> Seq(Identifier)]
  BY DEF LimiterInv, CounterInv
<1>2. ASSUME NEW id \in Identifier, NEW w \in Window,
             checkRateLimit(id, w) \/ checkSlidingWindow(id, w)
      PROVE  RetryInv'
  <2>1. ManagerKey(id) \in Counter /\ ServiceKey(id) \in Counter
    BY DEF ManagerKey, ServiceKey, Counter
  <2>2. PICK k \in Counter : Execute(k, w) /\ Answer(k, w) /\ now' = now
    BY <1>2, <2>1 DEF checkRateLimit, checkSlidingWindow
  <2> QED
    BY <1>1, <2>2, ExecuteKeepsRetryInv
<1>3. ASSUME NEW c \in Composite, checkCompositeRateLimit(c)
      PROVE  RetryInv'
  <2> DEFINE k == ServiceKey(Head(todo[c]))
  <2>1. /\ todo[c] # <<>> /\ now' = now
        /\ Execute(k, WindowOf[c]) /\ Answer(k, WindowOf[c])
    BY <1>3 DEF checkCompositeRateLimit
  <2>2. k \in Counter /\ WindowOf[c] \in Window
    BY <1>1, <2>1, CompositeTyped
  <2> QED
    BY <1>1, <2>1, <2>2, ExecuteKeepsRetryInv
<1>4. ASSUME NEW k \in Counter, NEW w \in Window, Unheard(k, w)
      PROVE  RetryInv'
  BY <1>1, <1>4, ExecuteKeepsRetryInv DEF Unheard
<1>5. ASSUME NEW id \in Identifier, resetRateLimit(id)
      PROVE  RetryInv'
  <2>1. /\ {ServiceKey(id)} \in SUBSET Counter /\ Forget({ServiceKey(id)})
        /\ UNCHANGED expiry /\ now' = now /\ now \in Nat
    BY <1>1, <1>5 DEF resetRateLimit, ServiceKey, Counter, CounterTypes
  <2> QED
    BY <1>1, <2>1, ForgetKeepsRetryInv
<1>6. ASSUME Tick
      PROVE  RetryInv'
  <2> DEFINE due == {k \in Counter : expiry[k] <= now + 1}
  <2>1. /\ due \in SUBSET Counter /\ Forget(due)
        /\ UNCHANGED expiry /\ now' = now + 1
    BY <1>6 DEF Tick
  <2> QED
    BY <1>1, <2>1, ForgetKeepsRetryInv
<1>7. CASE UNCHANGED vars
  BY <1>7 DEF vars, counterVars, historyVars, RetryInv
<1>8. ASSUME NEW c \in Composite, CompositeCommandFails(c)
      PROVE  RetryInv'
  BY <1>8 DEF CompositeCommandFails, counterVars, historyVars, RetryInv
<1> QED
  BY <1>2, <1>3, <1>4, <1>5, <1>6, <1>7, <1>8 DEF Next

(* With windows of one length, as DanbooruService uses them, refused       *)
(* attempts never prolong a refusal beyond the retryAfter it was given.    *)
THEOREM RetryAfterIsEnough ==
  ASSUME SameLength
  PROVE  Spec => []RetryAfterSuffices
<1>1. Init => LimiterInv /\ RetryInv
  <2>1. Init => RetryInv
    BY DEF Init, RetryInv
  <2> QED
    BY <2>1, InitLimiterInv
<1>2. LimiterInv /\ RetryInv /\ [Next]_vars => (LimiterInv /\ RetryInv)'
  BY NextLimiterInv, NextRetryInv
<1>3. LimiterInv /\ RetryInv => RetryAfterSuffices
  <2> SUFFICES ASSUME LimiterInv, RetryInv, NEW k \in Counter, refusal[k] # None
               PROVE  now < refusal[k].until
    BY DEF RetryAfterSuffices
  <2>1. now < expiry[k] /\ expiry[k] <= refusal[k].until
    BY DEF RetryInv
  <2>2. now \in Nat /\ expiry[k] \in Nat /\ refusal[k].until \in Nat
    BY DEF LimiterInv, CounterInv, CounterTypes, Refusal
  <2> QED
    BY <2>1, <2>2
<1> QED
  BY <1>1, <1>2, <1>3, PTL DEF Spec

----------------------------------------------------------------------------
(* The history of a counter, read backwards: what lies before its present  *)
(* life (Before) and how many admissions fit into one life (Spent).  An    *)
(* admission of an earlier life is over by a window when the counter       *)
(* expires; one that has a whole limit behind it in earlier lives is over  *)
(* by a window now.                                                        *)
Spent(d) == \A w \in Window : Limit[w] <= d
WindowPast(t, until) == \E w \in Window : t + Seconds[w] <= until
Before(k) == Len(admissions[k]) - admitted[k]

HistoryOf(k) ==
  /\ admitted[k] <= Len(admissions[k])
  /\ \A i \in DOMAIN admissions[k] :
       /\ admissions[k][i] <= now
       /\ count[k] > 0 /\ i <= Before(k) =>
            WindowPast(admissions[k][i], expiry[k])
       /\ Spent(Before(k) - i) => WindowPast(admissions[k][i], now)

HistoryInv == \A k \in Counter : HistoryOf(k)

BurstBoundOf(k) ==
  \A i, j \in DOMAIN admissions[k] :
    (\A w \in Window : j - i >= 2 * Limit[w])
      => WindowPast(admissions[k][i], admissions[k][j])

(* What is later than a time past is past too.                             *)
LEMMA PastStaysPast ==
  ASSUME NEW t \in Nat, NEW u \in Nat, NEW v \in Nat, u <= v, WindowPast(t, u)
  PROVE  WindowPast(t, v)
<1>1. PICK w \in Window : t + Seconds[w] <= u
  BY DEF WindowPast
<1>2. Seconds[w] \in Nat
  BY LimiterAssumption
<1>3. t + Seconds[w] <= v
  BY <1>1, <1>2
<1> QED
  BY <1>3 DEF WindowPast

(* What the invariants say of one counter.                                 *)
LEMMA CounterFacts ==
  ASSUME CounterInv, NEW k \in Counter
  PROVE  /\ now \in Nat /\ count[k] \in Nat /\ expiry[k] \in Nat
         /\ admitted[k] \in Nat /\ admissions[k] \in Seq(Nat)
         /\ Len(admissions[k]) \in Nat
         /\ DOMAIN admissions[k] = 1 .. Len(admissions[k])
         /\ \A i \in DOMAIN admissions[k] : admissions[k][i] \in Nat
         /\ count[k] = 0 => admitted[k] = 0
         /\ \E w \in Window : admitted[k] <= Limit[w]
<1>1. /\ now \in Nat /\ count[k] \in Nat /\ expiry[k] \in Nat
      /\ admitted[k] \in Nat /\ admissions[k] \in Seq(Nat)
  BY DEF CounterInv, CounterTypes
<1>2. /\ Len(admissions[k]) \in Nat
      /\ DOMAIN admissions[k] = 1 .. Len(admissions[k])
      /\ \A i \in DOMAIN admissions[k] : admissions[k][i] \in Nat
  BY <1>1
<1>3. admitted[k] <= count[k] /\ \E w \in Window : admitted[k] <= Limit[w]
  BY AdmittedIsCounted DEF CounterInv, WindowBound
<1> QED
  BY <1>1, <1>2, <1>3

(* A counter that starts a life, or goes on with one, and admits nobody.   *)
LEMMA HistoryKeptWithoutAdmission ==
  ASSUME CounterInv, NEW k \in Counter, HistoryOf(k), NEW w \in Window,
         expiry'[k] = TimeToLive(k, w), now' = now,
         admitted'[k] = admitted[k], admissions'[k] = admissions[k]
  PROVE  HistoryOf(k)'
<1>1. /\ now \in Nat /\ count[k] \in Nat /\ expiry[k] \in Nat
      /\ \A i \in DOMAIN admissions[k] : admissions[k][i] \in Nat
  BY CounterFacts
<1>2. Before(k)' = Before(k)
  BY DEF Before
<1>3. ASSUME NEW i \in DOMAIN admissions[k], i <= Before(k)
      PROVE  WindowPast(admissions[k][i], expiry'[k])
  <2>1. CASE count[k] = 0
    <3>1. expiry'[k] = now + Seconds[w] /\ admissions[k][i] <= now
      BY <2>1 DEF TimeToLive, HistoryOf
    <3>2. Seconds[w] \in Nat
      BY LimiterAssumption
    <3>3. admissions[k][i] + Seconds[w] <= expiry'[k]
      BY <1>1, <3>1, <3>2
    <3> QED
      BY <3>3 DEF WindowPast
  <2>2. CASE count[k] # 0
    <3>1. expiry'[k] = expiry[k] /\ count[k] > 0
      BY <1>1, <2>2 DEF TimeToLive
    <3> QED
      BY <1>3, <3>1 DEF HistoryOf
  <2> QED
    BY <2>1, <2>2
<1>4. admitted'[k] <= Len(admissions'[k])
  BY DEF HistoryOf
<1>5. ASSUME NEW i \in DOMAIN admissions[k]
      PROVE  /\ admissions[k][i] <= now
             /\ Spent(Before(k) - i) => WindowPast(admissions[k][i], now)
  BY DEF HistoryOf
<1> QED
  BY <1>2, <1>3, <1>4, <1>5 DEF HistoryOf, WindowPast, Spent

(* A counter that admits somebody: the present life has one admission more.*)
LEMMA HistoryKeptByAdmission ==
  ASSUME CounterInv, NEW k \in Counter, HistoryOf(k), NEW w \in Window,
         expiry'[k] = TimeToLive(k, w), now' = now,
         admitted'[k] = admitted[k] + 1,
         admissions'[k] = Append(admissions[k], now)
  PROVE  HistoryOf(k)'
<1> DEFINE A == admissions[k]
           n == Len(A)
<1>1. /\ now \in Nat /\ count[k] \in Nat /\ expiry[k] \in Nat
      /\ admitted[k] \in Nat /\ A \in Seq(Nat) /\ n \in Nat
      /\ DOMAIN A = 1 .. n /\ \A i \in DOMAIN A : A[i] \in Nat
  BY CounterFacts
<1>2. /\ Len(admissions'[k]) = n + 1
      /\ DOMAIN admissions'[k] = 1 .. n + 1
      /\ admissions'[k][n + 1] = now
      /\ \A i \in 1 .. n : admissions'[k][i] = A[i]
  BY <1>1
<1>3. Before(k)' = Before(k) /\ Before(k) = n - admitted[k]
  <2>1. Before(k)' = Len(admissions'[k]) - admitted'[k]
    BY DEF Before
  <2>2. Before(k)' = (n + 1) - (admitted[k] + 1)
    BY <1>2, <2>1
  <2>3. Before(k) = n - admitted[k]
    BY DEF Before
  <2>4. n \in Nat /\ admitted[k] \in Nat
    BY <1>1
  <2> HIDE DEF n
  <2>5. (n + 1) - (admitted[k] + 1) = n - admitted[k]
    BY <2>4
  <2> QED
    BY <2>2, <2>3, <2>5
<1>4. admitted[k] <= n
  BY DEF HistoryOf
<1> HIDE DEF A, n
<1>5. ASSUME NEW i \in 1 .. n, i <= Before(k)
      PROVE  WindowPast(A[i], expiry'[k])
  <2>1. A[i] <= now /\ (count[k] > 0 => WindowPast(A[i], expiry[k]))
    BY <1>1, <1>5 DEF HistoryOf, A
  <2>2. CASE count[k] = 0
    <3>1. expiry'[k] = now + Seconds[w] /\ Seconds[w] \in Nat
      BY <2>2, LimiterAssumption DEF TimeToLive
    <3>2. A[i] + Seconds[w] <= expiry'[k]
      BY <1>1, <2>1, <3>1
    <3> QED
      BY <3>2 DEF WindowPast
  <2>3. CASE count[k] # 0
    <3>1. expiry'[k] = expiry[k] /\ count[k] > 0
      BY <1>1, <2>3 DEF TimeToLive
    <3> QED
      BY <2>1, <3>1
  <2> QED
    BY <2>2, <2>3
<1>6. ASSUME NEW i \in 1 .. n
      PROVE  A[i] <= now /\ (Spent(Before(k) - i) => WindowPast(A[i], now))
  BY <1>1 DEF HistoryOf, A
<1>7. ~Spent(Before(k) - (n + 1))
  <2>1. PICK v \in Window : TRUE
    BY LimiterAssumption
  <2>2. Limit[v] \in Nat \ {0}
    BY LimiterAssumption
  <2>3. ~(Limit[v] <= Before(k) - (n + 1))
    BY <1>1, <1>3, <2>2
  <2> QED
    BY <2>3 DEF Spent
<1>8. n + 1 > Before(k)
  BY <1>1, <1>3
<1>9. ASSUME NEW i \in 1 .. n + 1
      PROVE  /\ admissions'[k][i] <= now
             /\ i <= Before(k) => WindowPast(admissions'[k][i], expiry'[k])
             /\ Spent(Before(k) - i) => WindowPast(admissions'[k][i], now)
  <2>1. CASE i = n + 1
    BY <1>1, <1>2, <1>3, <1>7, <1>8, <2>1
  <2>2. CASE i # n + 1
    <3>1. i \in 1 .. n
      BY <1>1, <2>2
    <3> QED
      BY <1>2, <1>5, <1>6, <3>1
  <2> QED
    BY <2>1, <2>2
<1>10. admitted'[k] <= Len(admissions'[k])
  BY <1>1, <1>2, <1>4
<1> QED
  BY <1>2, <1>3, <1>9, <1>10 DEF HistoryOf, WindowPast, Spent

(* An admission is a window away from those that have two limits between   *)
(* them and it: one limit of them lies in earlier lives.                   *)
LEMMA AdmissionKeepsBurstBound ==
  ASSUME CounterInv, NEW k \in Counter, HistoryOf(k), BurstBoundOf(k),
         NEW w \in Window, admitted[k] + 1 <= Limit[w],
         admissions'[k] = Append(admissions[k], now)
  PROVE  BurstBoundOf(k)'
<1> DEFINE A == admissions[k]
           n == Len(A)
<1>1. /\ now \in Nat /\ admitted[k] \in Nat /\ A \in Seq(Nat) /\ n \in Nat
      /\ DOMAIN A = 1 .. n /\ \A i \in DOMAIN A : A[i] \in Nat
      /\ \A v \in Window : Limit[v] \in Nat \ {0}
  BY CounterFacts, LimiterAssumption
<1>2. /\ DOMAIN admissions'[k] = 1 .. n + 1
      /\ admissions'[k][n + 1] = now
      /\ \A i \in 1 .. n : admissions'[k][i] = A[i]
  BY <1>1
<1>3. Before(k) = n - admitted[k]
  BY DEF Before
<1>4. \A i \in 1 .. n : Spent(Before(k) - i) => WindowPast(A[i], now)
  BY <1>1 DEF HistoryOf
<1>5. \A i, j \in 1 .. n :
        (\A v \in Window : j - i >= 2 * Limit[v]) => WindowPast(A[i], A[j])
  BY <1>1 DEF BurstBoundOf
<1> HIDE DEF A, n
<1> SUFFICES ASSUME NEW i \in 1 .. n + 1, NEW j \in 1 .. n + 1,
                    \A v \in Window : j - i >= 2 * Limit[v]
             PROVE  WindowPast(admissions'[k][i], admissions'[k][j])
  BY <1>2 DEF BurstBoundOf, WindowPast
<1>6. i < j /\ i \in 1 .. n
  BY <1>1
<1>7. CASE j = n + 1
  <2>1. ASSUME NEW v \in Window
        PROVE  Limit[v] <= Before(k) - i
    <3>1. j - i >= 2 * Limit[v] /\ j - i >= 2 * Limit[w]
      OBVIOUS
    <3>2. Limit[v] \in Nat /\ Limit[w] \in Nat
      BY <1>1
    <3> QED
      BY <1>1, <1>3, <1>7, <3>1, <3>2
  <2>2. WindowPast(A[i], now)
    BY <1>4, <1>6, <2>1 DEF Spent
  <2> QED
    BY <1>2, <1>6, <1>7, <2>2
<1>8. CASE j # n + 1
  <2>1. j \in 1 .. n
    BY <1>1, <1>8
  <2> QED
    BY <1>2, <1>5, <1>6, <2>1
<1> QED
  BY <1>7, <1>8

(* The inductive invariant of the history.                                 *)
BurstInv == HistoryInv /\ \A k \in Counter : BurstBoundOf(k)

LEMMA InitBurstInv == Init => BurstInv
<1> SUFFICES ASSUME Init, NEW k \in Counter
             PROVE  HistoryOf(k) /\ BurstBoundOf(k)
  BY DEF BurstInv, HistoryInv
<1>1. admissions[k] = <<>> /\ admitted[k] = 0
  BY DEF Init
<1>2. Len(admissions[k]) = 0 /\ DOMAIN admissions[k] = {}
  BY <1>1
<1> QED
  BY <1>1, <1>2 DEF HistoryOf, BurstBoundOf

(* A counter of which nothing changes.                                     *)
LEMMA BurstKeptByStutter ==
  ASSUME NEW k \in Counter, HistoryOf(k), BurstBoundOf(k),
         count'[k] = count[k], expiry'[k] = expiry[k], now' = now,
         admitted'[k] = admitted[k], admissions'[k] = admissions[k]
  PROVE  HistoryOf(k)' /\ BurstBoundOf(k)'
BY DEF HistoryOf, BurstBoundOf, Before, WindowPast, Spent

(* An execution keeps it, whether its caller hears of it or not.           *)
LEMMA ExecuteKeepsBurstInv ==
  ASSUME CounterInv, BurstInv, NEW k \in Counter, NEW w \in Window,
         Execute(k, w), now' = now,
         Answer(k, w) \/ UNCHANGED <<admitted, admissions>>
  PROVE  BurstInv'
<1>1. /\ count' = [count EXCEPT ![k] = count[k] + 1]
      /\ expiry' = [expiry EXCEPT ![k] = TimeToLive(k, w)]
  BY DEF Execute
<1>2. expiry'[k] = TimeToLive(k, w)
  BY <1>1 DEF CounterInv, CounterTypes
<1>3. HistoryOf(k) /\ BurstBoundOf(k)
  BY DEF BurstInv, HistoryInv
<1>4. ASSUME NEW x \in Counter \ {k}
      PROVE  HistoryOf(x)' /\ BurstBoundOf(x)'
  <2>1. count'[x] = count[x] /\ expiry'[x] = expiry[x]
    BY <1>1 DEF CounterInv, CounterTypes
  <2>2. admitted'[x] = admitted[x] /\ admissions'[x] = admissions[x]
    BY DEF Answer, CounterInv, CounterTypes
  <2>3. HistoryOf(x) /\ BurstBoundOf(x)
    BY DEF BurstInv, HistoryInv
  <2> QED
    BY <2>1, <2>2, <2>3, BurstKeptByStutter
<1>5. CASE Answer(k, w) /\ Allows(k, w)
  <2>1. /\ admitted'[k] = admitted[k] + 1
        /\ admissions'[k] = Append(admissions[k], now)
    BY <1>5 DEF Answer, CounterInv, CounterTypes
  <2>2. HistoryOf(k)'
    BY <1>2, <1>3, <2>1, HistoryKeptByAdmission
  <2>3. admitted[k] + 1 <= Limit[w]
    <3>1. count[k] + 1 <= Limit[w] /\ admitted[k] <= count[k]
      BY <1>5, AdmittedIsCounted DEF Allows, CounterInv
    <3>2. count[k] \in Nat /\ admitted[k] \in Nat /\ Limit[w] \in Nat
      BY LimiterAssumption DEF CounterInv, CounterTypes
    <3> QED
      BY <3>1, <3>2
  <2>4. BurstBoundOf(k)'
    BY <1>3, <2>1, <2>3, AdmissionKeepsBurstBound
  <2> QED
    BY <1>4, <2>2, <2>4 DEF BurstInv, HistoryInv
<1>6. CASE ~(Answer(k, w) /\ Allows(k, w))
  <2>1. admitted'[k] = admitted[k] /\ admissions'[k] = admissions[k]
    BY <1>6 DEF Answer
  <2>2. HistoryOf(k)'
    BY <1>2, <1>3, <2>1, HistoryKeptWithoutAdmission
  <2>3. BurstBoundOf(k)'
    BY <1>3, <2>1 DEF BurstBoundOf, WindowPast
  <2> QED
    BY <1>4, <2>2, <2>3 DEF BurstInv, HistoryInv
<1> QED
  BY <1>5, <1>6

(* A second passes: the life of a counter that is due was a window long,   *)
(* and admitted no more than one limit.                                    *)
LEMMA TickKeepsBurstInv ==
  ASSUME CounterInv, BurstInv, Tick
  PROVE  BurstInv'
<1> SUFFICES ASSUME NEW k \in Counter
             PROVE  HistoryOf(k)' /\ BurstBoundOf(k)'
  BY DEF BurstInv, HistoryInv
<1>1. /\ now' = now + 1 /\ expiry' = expiry /\ admissions' = admissions
      /\ count'[k] = IF expiry[k] <= now + 1 THEN 0 ELSE count[k]
      /\ admitted'[k] = IF expiry[k] <= now + 1 THEN 0 ELSE admitted[k]
  BY DEF Tick, Forget
<1>2. HistoryOf(k) /\ BurstBoundOf(k)
  BY DEF BurstInv, HistoryInv
<1> DEFINE A == admissions[k]
           n == Len(A)
<1>3. /\ now \in Nat /\ count[k] \in Nat /\ expiry[k] \in Nat
      /\ admitted[k] \in Nat /\ n \in Nat
      /\ DOMAIN A = 1 .. n /\ \A i \in DOMAIN A : A[i] \in Nat
      /\ count[k] = 0 => admitted[k] = 0
  BY CounterFacts
<1>4. /\ admitted[k] <= n
      /\ \A i \in 1 .. n :
           /\ A[i] <= now
           /\ count[k] > 0 /\ i <= n - admitted[k] => WindowPast(A[i], expiry[k])
           /\ Spent(n - admitted[k] - i) => WindowPast(A[i], now)
  BY <1>2, <1>3 DEF HistoryOf, Before
<1>5. BurstBoundOf(k)'
  BY <1>1, <1>2 DEF BurstBoundOf, WindowPast
<1>6. A' = A /\ n' = n
  BY <1>1
<1> HIDE DEF A, n
<1>7. ASSUME NEW i \in 1 .. n, NEW u \in Nat, u <= now + 1, WindowPast(A[i], u)
      PROVE  WindowPast(A[i], now + 1)
  BY <1>3, <1>7, PastStaysPast
<1>8. now \in Nat /\ now <= now + 1
  BY <1>3
<1>9. CASE expiry[k] <= now + 1
  <2>1. count'[k] = 0 /\ admitted'[k] = 0
    BY <1>1, <1>9
  <2>2. Before(k)' = n
    BY <1>3, <1>6, <2>1 DEF Before, A, n
  <2>3. ASSUME NEW i \in 1 .. n, Spent(n - i)
        PROVE  WindowPast(A[i], now + 1)
    <3>1. PICK v \in Window : admitted[k] <= Limit[v]
      BY CounterFacts
    <3>2. Limit[v] <= n - i /\ Limit[v] \in Nat
      BY <2>3, LimiterAssumption DEF Spent
    <3>3. i <= n - admitted[k]
      BY <1>3, <3>1, <3>2
    <3>4. CASE count[k] = 0
      <4>1. n - admitted[k] - i = n - i
        BY <1>3, <3>4
      <4>2. WindowPast(A[i], now)
        BY <1>4, <2>3, <4>1
      <4> QED
        BY <1>7, <1>8, <4>2
    <3>5. CASE count[k] # 0
      <4>1. count[k] > 0 /\ expiry[k] \in Nat
        BY <1>3, <3>5
      <4>2. WindowPast(A[i], expiry[k])
        BY <1>4, <3>3, <4>1
      <4> QED
        BY <1>7, <1>9, <4>1, <4>2
    <3> QED
      BY <3>4, <3>5
  <2>4. ASSUME NEW i \in 1 .. n
        PROVE  A[i] <= now + 1
    BY <1>3, <1>4
  <2>5. admissions'[k] = A /\ DOMAIN A = 1 .. n /\ Len(admissions'[k]) = n
    BY <1>1, <1>3 DEF A, n
  <2>6. admitted'[k] <= Len(admissions'[k]) /\ ~(count'[k] > 0)
    BY <1>3, <2>1, <2>5
  <2>7. HistoryOf(k)'
    BY <1>1, <2>2, <2>3, <2>4, <2>5, <2>6 DEF HistoryOf, WindowPast, Spent
  <2> QED
    BY <1>5, <2>7
<1>10. CASE expiry[k] > now + 1
  <2>1. count'[k] = count[k] /\ admitted'[k] = admitted[k]
    BY <1>1, <1>3, <1>10
  <2>2. Before(k)' = n - admitted[k]
    BY <1>6, <2>1 DEF Before, A, n
  <2>3. ASSUME NEW i \in 1 .. n, Spent(n - admitted[k] - i)
        PROVE  WindowPast(A[i], now + 1)
    <3>1. WindowPast(A[i], now)
      BY <1>4, <2>3
    <3> QED
      BY <1>7, <1>8, <3>1
  <2>4. ASSUME NEW i \in 1 .. n
        PROVE  A[i] <= now + 1
    BY <1>3, <1>4
  <2>5. HistoryOf(k)'
    BY <1>1, <1>3, <1>4, <1>6, <2>1, <2>2, <2>3, <2>4
       DEF HistoryOf, WindowPast, Spent, A, n
  <2> QED
    BY <1>5, <2>5
<1> QED
  BY <1>3, <1>9, <1>10

(* A reset ends the life of one counter and its history.                   *)
LEMMA ResetKeepsBurstInv ==
  ASSUME CounterInv, BurstInv, NEW id \in Identifier, resetRateLimit(id)
  PROVE  BurstInv'
<1> DEFINE r == ServiceKey(id)
<1>1. r \in Counter
  BY DEF ServiceKey, Counter
<1>2. /\ now' = now /\ expiry' = expiry
      /\ count' = [k \in Counter |-> IF k \in {r} THEN 0 ELSE count[k]]
      /\ admitted' = [k \in Counter |-> IF k \in {r} THEN 0 ELSE admitted[k]]
      /\ admissions' = [admissions EXCEPT ![r] = <<>>]
  BY DEF resetRateLimit, Forget
<1> HIDE DEF r
<1> SUFFICES ASSUME NEW k \in Counter
             PROVE  HistoryOf(k)' /\ BurstBoundOf(k)'
  BY DEF BurstInv, HistoryInv
<1>3. CASE k = r
  <2>1. admissions'[k] = <<>> /\ admitted'[k] = 0
    BY <1>2, <1>3 DEF CounterInv, CounterTypes
  <2>2. Len(admissions'[k]) = 0 /\ DOMAIN admissions'[k] = {}
    BY <2>1
  <2> QED
    BY <2>1, <2>2 DEF HistoryOf, BurstBoundOf
<1>4. CASE k # r
  <2>1. /\ count'[k] = count[k] /\ expiry'[k] = expiry[k]
        /\ admitted'[k] = admitted[k] /\ admissions'[k] = admissions[k]
    BY <1>2, <1>4 DEF CounterInv, CounterTypes
  <2> QED
    BY <1>2, <2>1, BurstKeptByStutter DEF BurstInv, HistoryInv
<1> QED
  BY <1>3, <1>4

(* Every step keeps it.                                                    *)
LEMMA NextBurstInv ==
  ASSUME LimiterInv, BurstInv, [Next]_vars
  PROVE  BurstInv'
<1>1. CounterInv /\ todo \in [Composite -> Seq(Identifier)]
  BY DEF LimiterInv
<1>2. ASSUME NEW id \in Identifier, NEW w \in Window,
             checkRateLimit(id, w) \/ checkSlidingWindow(id, w)
      PROVE  BurstInv'
  <2>1. ManagerKey(id) \in Counter /\ ServiceKey(id) \in Counter
    BY DEF ManagerKey, ServiceKey, Counter
  <2>2. PICK k \in Counter : Execute(k, w) /\ Answer(k, w) /\ now' = now
    BY <1>2, <2>1 DEF checkRateLimit, checkSlidingWindow
  <2> QED
    BY <1>1, <2>2, ExecuteKeepsBurstInv
<1>3. ASSUME NEW c \in Composite, checkCompositeRateLimit(c)
      PROVE  BurstInv'
  <2> DEFINE k == ServiceKey(Head(todo[c]))
  <2>1. /\ todo[c] # <<>> /\ now' = now
        /\ Execute(k, WindowOf[c]) /\ Answer(k, WindowOf[c])
    BY <1>3 DEF checkCompositeRateLimit
  <2>2. k \in Counter /\ WindowOf[c] \in Window
    BY <1>1, <2>1, CompositeTyped
  <2> QED
    BY <1>1, <2>1, <2>2, ExecuteKeepsBurstInv
<1>4. ASSUME NEW k \in Counter, NEW w \in Window, Unheard(k, w)
      PROVE  BurstInv'
  <2>1. Execute(k, w) /\ now' = now /\ UNCHANGED <<admitted, admissions>>
    BY <1>4 DEF Unheard
  <2> QED
    BY <1>1, <2>1, ExecuteKeepsBurstInv
<1>5. ASSUME NEW id \in Identifier, resetRateLimit(id)
      PROVE  BurstInv'
  BY <1>1, <1>5, ResetKeepsBurstInv
<1>6. ASSUME Tick
      PROVE  BurstInv'
  BY <1>1, <1>6, TickKeepsBurstInv
<1>7. ASSUME UNCHANGED <<now, counterVars, historyVars>>
      PROVE  BurstInv'
  <2> SUFFICES ASSUME NEW k \in Counter
               PROVE  HistoryOf(k)' /\ BurstBoundOf(k)'
    BY DEF BurstInv, HistoryInv
  <2> QED
    BY <1>7, BurstKeptByStutter DEF BurstInv, HistoryInv, counterVars, historyVars
<1>8. CASE UNCHANGED vars
  BY <1>7, <1>8 DEF vars
<1>9. ASSUME NEW c \in Composite, CompositeCommandFails(c)
      PROVE  BurstInv'
  BY <1>7, <1>9 DEF CompositeCommandFails
<1> QED
  BY <1>2, <1>3, <1>4, <1>5, <1>6, <1>8, <1>9 DEF Next

(* Whatever windows and limits its checks mix, a counter lets no more than *)
(* twice the largest limit through within its shortest window.             *)
THEOREM BurstsAreBounded == Spec => []BurstBound
<1>1. Init => LimiterInv /\ BurstInv
  BY InitLimiterInv, InitBurstInv
<1>2. LimiterInv /\ BurstInv /\ [Next]_vars => (LimiterInv /\ BurstInv)'
  BY NextLimiterInv, NextBurstInv
<1>3. LimiterInv /\ BurstInv => BurstBound
  <2> SUFFICES ASSUME LimiterInv, BurstInv, NEW k \in Counter,
                      NEW i \in DOMAIN admissions[k],
                      NEW j \in DOMAIN admissions[k],
                      \A w \in Window : j - i >= 2 * Limit[w]
               PROVE  \E w \in Window :
                        admissions[k][j] - admissions[k][i] >= Seconds[w]
    BY DEF BurstBound
  <2>1. PICK w \in Window : admissions[k][i] + Seconds[w] <= admissions[k][j]
    BY DEF BurstInv, BurstBoundOf, WindowPast
  <2>2. /\ admissions[k][i] \in Nat /\ admissions[k][j] \in Nat
        /\ Seconds[w] \in Nat
    BY CounterFacts, LimiterAssumption DEF LimiterInv
  <2> QED
    BY <2>1, <2>2
<1> QED
  BY <1>1, <1>2, <1>3, PTL DEF Spec
============================================================================
