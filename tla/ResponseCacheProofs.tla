------------------------ MODULE ResponseCacheProofs ------------------------
(***************************************************************************)
(* Proofs about ResponseCache, for any calls, purgers, requests, backends  *)
(* and faults.                                                             *)
(***************************************************************************)
EXTENDS ResponseCache, TLAPS

(* The keys of well-formed requests are keys.                              *)
LEMMA RequestKeys ==
  ASSUME NEW r \in Request
  PROVE  /\ LookupKey(r) \in Key /\ StoreKey(r) \in Key
         /\ r.op \in {"getOrSet", "getOrFetch", "generic", "fetchPosts", "put"}
<1>1. /\ r.op \in {"getOrSet", "getOrFetch", "generic", "fetchPosts", "put"}
      /\ r.api \in Api /\ r.query \in Query /\ r.random \in BOOLEAN
      /\ r.limit \in Maybe(Number) /\ r.tags \in Maybe(Tags)
      /\ r.ttl \in Maybe(Number)
  BY CacheAssumption
<1>2. Trimmed[r.query] \in Text /\ Hashed[Trimmed[r.query]] \in Hash
  BY <1>1, CacheAssumption
<1>3. ASSUME NEW l \in Maybe(Number), NEW t \in Maybe(Tags)
      PROVE  getCacheKey(r.api, r.query, r.random, l, t) \in Key
  BY <1>1, <1>2, <1>3 DEF getCacheKey, Key, Seed, Maybe
<1>4. None \in Maybe(Number) /\ None \in Maybe(Tags)
  BY DEF Maybe
<1> QED
  BY <1>1, <1>3, <1>4 DEF LookupKey, StoreKey

----------------------------------------------------------------------------
(* Types.                                                                  *)

LEMMA InitTypeOK == Init => TypeOK
BY CacheAssumption DEF Init, TypeOK, Key, CallPc, PurgePc

(* A call keeps them.                                                      *)
LEMMA CallTypeOK ==
  ASSUME TypeOK, NEW c \in Call, CallStep(c)
  PROVE  TypeOK'
<1> USE CacheAssumption
<1>1. c \in Call \union Purger /\ c \notin Purger
  OBVIOUS
<1>2. CASE Begin(c)
  <2>1. PICK r \in Request :
          /\ request' = [request EXCEPT ![c] = r]
          /\ fetched' = fetched \/ fetched' = [fetched EXCEPT ![c] = c]
          /\ \/ \E label \in {"store", "fetch", "lookup"} :
                  Goto(c, label) /\ returned' = returned
             \/ Finish(c, c)
    BY <1>2 DEF Begin
  <2>2. UNCHANGED <<backend, injected, store, faults, purgeVars>>
    BY <1>2 DEF Begin
  <2> QED
    BY <1>1, <2>1, <2>2 DEF TypeOK, Goto, Finish, CallPc, PurgePc, purgeVars
<1>3. CASE Lookup(c)
  <2>1. Entry(LookupKey(request[c])) \in Call \union {None, Garbled}
    BY DEF TypeOK, Entry
  <2>2. faults' \in 0..MaxFaults
    BY <1>3 DEF Lookup, Command, ServerCommand, TypeOK
  <2>3. PICK result \in Call \union {None, Thrown} :
          \/ Goto(c, "fetch") /\ UNCHANGED returned
          \/ Finish(c, result)
    BY <1>3, <2>1 DEF Lookup
  <2>4. UNCHANGED <<backend, injected, store, request, fetched, purgeVars>> /\ pc[c] = "lookup"
    BY <1>3 DEF Lookup
  <2> QED
    BY <1>1, <2>2, <2>3, <2>4
    DEF TypeOK, Goto, Finish, CallPc, PurgePc, purgeVars
<1>4. CASE Fetch(c)
  BY <1>1, <1>4 DEF Fetch, TypeOK, Goto, Finish, CallPc, PurgePc, purgeVars
<1>5. CASE Store(c)
  <2>1. request[c] \in Request
    BY <1>5 DEF Store, TypeOK
  <2>2. StoreKey(request[c]) \in Key
    BY <2>1, RequestKeys
  <2>3. /\ DOMAIN store' \subseteq Key
        /\ \A k \in DOMAIN store' : store'[k] \in Call \union {None, Garbled}
    BY <1>5, <2>2 DEF Store, TypeOK, Put
  <2>4. faults' \in 0..MaxFaults
    BY <1>5 DEF Store, Command, ServerCommand, TypeOK
  <2>5. PICK result \in Call \union {None, Thrown} : Finish(c, result)
    BY <1>5 DEF Store, StoreFailure, TypeOK
  <2>6. UNCHANGED <<backend, injected, request, fetched, purgeVars>> /\ pc[c] = "store"
    BY <1>5 DEF Store
  <2> QED
    BY <1>1, <2>3, <2>4, <2>5, <2>6
    DEF TypeOK, Goto, Finish, CallPc, PurgePc, purgeVars
<1> QED
  BY <1>2, <1>3, <1>4, <1>5 DEF CallStep

(* How a round ends.                                                       *)
LEMMA RoundOverCases ==
  ASSUME NEW p, RoundOver(p)
  PROVE  \/ /\ Goto(p, "keys") /\ round' = [round EXCEPT ![p] = 2]
            /\ returned' = returned
            /\ request[p].op = "query" /\ round[p] = 1
         \/ /\ Finish(p, None) /\ round' = round
            /\ ~(request[p].op = "query" /\ round[p] = 1)
BY DEF RoundOver

(* A purger keeps them.                                                    *)
LEMMA PurgeTypeOK ==
  ASSUME TypeOK, NEW p \in Purger, PurgeStep(p)
  PROVE  TypeOK'
<1> USE CacheAssumption
<1>1. p \in Call \union Purger /\ p \notin Call
  OBVIOUS
<1>2. CASE BeginPurge(p)
  <2>1. due' \in [Purger -> SUBSET (Key \X Call)]
    <3> DEFINE S(r) == {<<k, store[k]>> :
                 k \in {x \in DOMAIN store : store[x] \in Call /\ Meant(x, r)}}
    <3>1. \A r : S(r) \in SUBSET (Key \X Call)
      BY DEF TypeOK
    <3>2. PICK r : due' = [due EXCEPT ![p] = S(r)]
      BY <1>2 DEF BeginPurge
    <3> HIDE DEF S
    <3> QED
      BY <3>1, <3>2 DEF TypeOK
  <2> QED
    BY <1>1, <1>2, <2>1 DEF BeginPurge, TypeOK, Goto, Finish, CallPc, PurgePc
<1>3. CASE DeleteOne(p)
  <2>1. /\ DOMAIN store' \subseteq Key
        /\ \A k \in DOMAIN store' : store'[k] \in Call \union {None, Garbled}
    BY <1>3 DEF DeleteOne, TypeOK, Delete
  <2>2. faults' \in 0..MaxFaults
    BY <1>3 DEF DeleteOne, Command, ServerCommand, TypeOK
  <2>3. PICK result \in {None, Thrown} : Finish(p, result)
    BY <1>3 DEF DeleteOne
  <2>4. UNCHANGED <<backend, injected, request, fetched, purgeVars>> /\ pc[p] = "delete"
    BY <1>3 DEF DeleteOne
  <2> QED
    BY <1>1, <2>1, <2>2, <2>3, <2>4
    DEF TypeOK, Goto, Finish, CallPc, PurgePc, purgeVars
<1>4. CASE ListKeys(p)
  <2>1. faults' \in 0..MaxFaults
    BY <1>4 DEF ListKeys, Command, ServerCommand, TypeOK
  <2>2. listed' \in [Purger -> SUBSET Key]
    <3>1. Found(p) \in SUBSET Key
      BY DEF Found, TypeOK
    <3> QED
      BY <1>4, <3>1 DEF ListKeys, TypeOK
  <2>3. UNCHANGED <<backend, injected, store, request, fetched, due>>
    BY <1>4 DEF ListKeys
  <2>4. \/ Finish(p, PurgeFailure(p)) /\ round' = round
        \/ RoundOver(p)
        \/ Goto(p, "del") /\ UNCHANGED <<returned, round>>
    BY <1>4 DEF ListKeys
  <2>5. /\ pc' \in [Call \union Purger -> CallPc \union PurgePc]
        /\ pc' = [pc EXCEPT ![p] = pc'[p]]
        /\ returned' \in [Call \union Purger -> Call \union {None, Thrown, Ignored}]
        /\ round' \in [Purger -> {1, 2}]
    BY <1>1, <2>4 DEF RoundOver, Finish, Goto, PurgeFailure, TypeOK, CallPc, PurgePc
  <2>6. /\ \A c \in Call : pc'[c] = pc[c]
        /\ \A q \in Purger : pc'[q] # "idle" => pc[q] # "idle"
    BY <1>1, <1>4, <2>5 DEF TypeOK, ListKeys
  <2> QED
    BY <2>1, <2>2, <2>3, <2>5, <2>6 DEF TypeOK
<1>5. CASE DeleteListed(p)
  <2>1. /\ DOMAIN store' \subseteq Key
        /\ \A k \in DOMAIN store' : store'[k] \in Call \union {None, Garbled}
    BY <1>5 DEF DeleteListed, TypeOK, Delete
  <2>2. faults' \in 0..MaxFaults
    BY <1>5 DEF DeleteListed, Command, ServerCommand, TypeOK
  <2>3. UNCHANGED <<backend, injected, request, fetched, listed, due>>
    BY <1>5 DEF DeleteListed
  <2>4. \/ Finish(p, PurgeFailure(p)) /\ round' = round
        \/ RoundOver(p)
    BY <1>5 DEF DeleteListed
  <2>5. /\ pc' \in [Call \union Purger -> CallPc \union PurgePc]
        /\ pc' = [pc EXCEPT ![p] = pc'[p]]
        /\ returned' \in [Call \union Purger -> Call \union {None, Thrown, Ignored}]
        /\ round' \in [Purger -> {1, 2}]
    BY <1>1, <2>4 DEF RoundOver, Finish, Goto, PurgeFailure, TypeOK, CallPc, PurgePc
  <2>6. /\ \A c \in Call : pc'[c] = pc[c]
        /\ \A q \in Purger : pc'[q] # "idle" => pc[q] # "idle"
    BY <1>1, <1>5, <2>5 DEF TypeOK, DeleteListed
  <2> QED
    BY <2>1, <2>2, <2>3, <2>5, <2>6 DEF TypeOK
<1> QED
  BY <1>2, <1>3, <1>4, <1>5 DEF PurgeStep

LEMMA NextTypeOK == TypeOK /\ [Next]_vars => TypeOK'
<1> SUFFICES ASSUME TypeOK, [Next]_vars PROVE TypeOK'
  OBVIOUS
<1>1. ASSUME NEW k \in DOMAIN store, Expire(k) PROVE TypeOK'
  BY <1>1 DEF Expire, Delete, TypeOK, callVars, purgeVars
<1>2. ASSUME NEW k \in DOMAIN store, Garble(k) PROVE TypeOK'
  BY <1>2, CacheAssumption DEF Garble, Put, TypeOK, callVars, purgeVars
<1>3. CASE UNCHANGED vars
  BY <1>3 DEF vars, callVars, purgeVars, TypeOK
<1> QED
  BY <1>1, <1>2, <1>3, CallTypeOK, PurgeTypeOK DEF Next

----------------------------------------------------------------------------
(* What the cache stores and what calls return.                            *)

(* What a call fetched is its own.                                         *)
FetchedOwn ==
  \A c \in Call :
    /\ fetched[c] \in {None, c}
    /\ pc[c] \in {"idle", "lookup", "fetch"} => fetched[c] = None

(* A response is stored under the key of the request it was fetched for,   *)
(* by a call that has ended: it will not be stored again.                  *)
StoredByKey ==
  \A k \in DOMAIN store :
    store[k] \in Call =>
      pc[store[k]] = "done" /\ StoreKey(request[store[k]]) = k

(* What a call returns is its own, or was stored under the key it looked   *)
(* up.                                                                     *)
ServedByKey ==
  \A c \in Call :
    pc[c] = "done" /\ returned[c] \in Call =>
      \/ returned[c] = c
      \/ /\ pc[returned[c]] = "done"
         /\ StoreKey(request[returned[c]]) = LookupKey(request[c])

CallInv == FetchedOwn /\ StoredByKey /\ ServedByKey /\ FoundIsReturned

LEMMA InitCallInv == Init => CallInv
BY DEF Init, CallInv, FetchedOwn, StoredByKey, ServedByKey, FoundIsReturned

(* What a step may do to the rest of the state without disturbing them:    *)
(* what has ended stays as it is, entries only go or are garbled.          *)
LEMMA ElsewhereKeepsCallInv ==
  ASSUME TypeOK, CallInv,
         \A c \in Call : pc'[c] = pc[c] /\ request'[c] = request[c]
                         /\ returned'[c] = returned[c],
         fetched' = fetched, backend' = backend, injected' = injected, faults > 0 => faults' > 0,
         DOMAIN store' \subseteq DOMAIN store,
         \A k \in DOMAIN store' : store'[k] \in {store[k], Garbled}
  PROVE  CallInv'
<1> USE CacheAssumption
<1>1. FetchedOwn'
  BY DEF CallInv, FetchedOwn
<1>2. StoredByKey'
  <2> SUFFICES ASSUME NEW k \in DOMAIN store', store'[k] \in Call
               PROVE  /\ pc'[store'[k]] = "done"
                      /\ StoreKey(request'[store'[k]]) = k
    BY DEF StoredByKey, StoreKey, LookupKey
  <2>1. store'[k] = store[k] /\ k \in DOMAIN store
    OBVIOUS
  <2> QED
    BY <2>1 DEF CallInv, StoredByKey
<1>3. ServedByKey'
  BY DEF CallInv, ServedByKey
<1>4. FoundIsReturned'
  BY DEF CallInv, FoundIsReturned, TypeOK
<1> QED
  BY <1>1, <1>2, <1>3, <1>4 DEF CallInv

(* A call that looks up, finds or fetches keeps them.                      *)
LEMMA BeginKeepsCallInv ==
  ASSUME TypeOK, CallInv, NEW c \in Call, Begin(c)
  PROVE  CallInv'
<1> USE CacheAssumption
<1>1. /\ pc[c] = "idle" /\ fetched[c] = None
      /\ UNCHANGED <<backend, injected, store, faults>>
  BY DEF Begin, CallInv, FetchedOwn
<1>2. \A d \in Call \ {c} :
        /\ pc'[d] = pc[d] /\ request'[d] = request[d]
        /\ fetched'[d] = fetched[d] /\ returned'[d] = returned[d]
  BY DEF Begin, Goto, Finish, TypeOK
<1>3. \/ pc'[c] = "store" /\ fetched'[c] = c
      \/ pc'[c] \in {"fetch", "lookup"} /\ fetched'[c] = None
      \/ pc'[c] = "done" /\ fetched'[c] = c /\ returned'[c] = c
  BY <1>1 DEF Begin, Goto, Finish, TypeOK
<1>4. FetchedOwn'
  BY <1>2, <1>3 DEF CallInv, FetchedOwn
<1>5. StoredByKey'
  BY <1>1, <1>2 DEF CallInv, StoredByKey
<1>6. ServedByKey'
  <2> SUFFICES ASSUME NEW d \in Call, pc'[d] = "done", returned'[d] \in Call
               PROVE  \/ returned'[d] = d
                      \/ /\ pc'[returned'[d]] = "done"
                         /\ StoreKey(request'[returned'[d]]) = LookupKey(request'[d])
    BY DEF ServedByKey
  <2>1. CASE d = c
    BY <2>1, <1>3
  <2>2. CASE d # c
    <3>1. /\ pc[d] = "done" /\ returned[d] \in Call
          /\ request'[d] = request[d] /\ returned'[d] = returned[d]
      BY <1>2, <2>2
    <3>2. \/ returned[d] = d
          \/ /\ pc[returned[d]] = "done"
             /\ StoreKey(request[returned[d]]) = LookupKey(request[d])
      BY <3>1 DEF CallInv, ServedByKey
    <3> QED
      BY <1>1, <1>2, <3>1, <3>2
  <2> QED
    BY <2>1, <2>2
<1>7. FoundIsReturned'
  BY <1>1, <1>2, <1>3 DEF CallInv, FoundIsReturned
<1> QED
  BY <1>4, <1>5, <1>6, <1>7 DEF CallInv

LEMMA LookupKeepsCallInv ==
  ASSUME TypeOK, CallInv, NEW c \in Call, Lookup(c)
  PROVE  CallInv'
<1> USE CacheAssumption
<1> DEFINE hit == Entry(LookupKey(request[c]))
<1>1. /\ pc[c] = "lookup" /\ fetched[c] = None
      /\ UNCHANGED <<backend, injected, store, request, fetched>>
      /\ faults > 0 => faults' > 0
  BY DEF Lookup, CallInv, FetchedOwn, Command, ServerCommand, TypeOK
<1>2. \A d \in Call \ {c} : pc'[d] = pc[d] /\ returned'[d] = returned[d]
  BY DEF Lookup, Goto, Finish, TypeOK
<1>3. \/ pc'[c] = "fetch"
      \/ pc'[c] = "done" /\ returned'[c] \in {hit, Thrown}
  BY DEF Lookup, Goto, Finish, TypeOK
<1>4. hit \in Call => pc[hit] = "done" /\ StoreKey(request[hit]) = LookupKey(request[c])
  BY DEF Entry, CallInv, StoredByKey
<1> HIDE DEF hit
<1>5. FetchedOwn'
  BY <1>1, <1>2 DEF CallInv, FetchedOwn
<1>6. StoredByKey'
  BY <1>1, <1>2 DEF CallInv, StoredByKey
<1>7. ServedByKey'
  <2> SUFFICES ASSUME NEW d \in Call, pc'[d] = "done", returned'[d] \in Call
               PROVE  \/ returned'[d] = d
                      \/ /\ pc'[returned'[d]] = "done"
                         /\ StoreKey(request[returned'[d]]) = LookupKey(request[d])
    BY <1>1 DEF ServedByKey
  <2>1. CASE d = c
    <3>1. returned'[c] = hit /\ hit \in Call
      BY <1>3, <2>1
    <3> QED
      BY <3>1, <2>1, <1>1, <1>2, <1>4
  <2>2. CASE d # c
    BY <2>2, <1>1, <1>2 DEF CallInv, ServedByKey
  <2> QED
    BY <2>1, <2>2
<1>8. FoundIsReturned'
  <2> SUFFICES ASSUME NEW d \in Call, pc'[d] = "done", fetched[d] = d
               PROVE  \/ returned'[d] \in {d, Thrown}
                      \/ /\ request[d].op = "fetchPosts"
                         /\ faults' > 0 \/ backend = "class"
    BY <1>1 DEF FoundIsReturned
  <2>1. d # c
    BY <1>1
  <2> QED
    BY <2>1, <1>1, <1>2 DEF CallInv, FoundIsReturned
<1> QED
  BY <1>5, <1>6, <1>7, <1>8 DEF CallInv

LEMMA FetchKeepsCallInv ==
  ASSUME TypeOK, CallInv, NEW c \in Call, Fetch(c)
  PROVE  CallInv'
<1> USE CacheAssumption
<1>1. /\ pc[c] = "fetch"
      /\ UNCHANGED <<backend, injected, store, faults, request>>
  BY DEF Fetch
<1>2. \A d \in Call \ {c} :
        pc'[d] = pc[d] /\ returned'[d] = returned[d] /\ fetched'[d] = fetched[d]
  BY DEF Fetch, Goto, Finish, TypeOK
<1>3. /\ fetched'[c] \in {None, c}
      /\ \/ pc'[c] = "store"
         \/ /\ pc'[c] = "done" /\ returned'[c] \in {c, None, Thrown}
            /\ fetched'[c] = c => returned'[c] = c
  BY <1>1 DEF Fetch, Goto, Finish, TypeOK, CallInv, FetchedOwn
<1>4. FetchedOwn'
  BY <1>2, <1>3 DEF CallInv, FetchedOwn
<1>5. StoredByKey'
  BY <1>1, <1>2 DEF CallInv, StoredByKey
<1>6. ServedByKey'
  <2> SUFFICES ASSUME NEW d \in Call, pc'[d] = "done", returned'[d] \in Call
               PROVE  \/ returned'[d] = d
                      \/ /\ pc'[returned'[d]] = "done"
                         /\ StoreKey(request[returned'[d]]) = LookupKey(request[d])
    BY <1>1 DEF ServedByKey
  <2>1. CASE d = c
    BY <2>1, <1>3
  <2>2. CASE d # c
    BY <2>2, <1>1, <1>2 DEF CallInv, ServedByKey
  <2> QED
    BY <2>1, <2>2
<1>7. FoundIsReturned'
  BY <1>1, <1>2, <1>3 DEF CallInv, FoundIsReturned
<1> QED
  BY <1>4, <1>5, <1>6, <1>7 DEF CallInv

LEMMA StoreKeepsCallInv ==
  ASSUME TypeOK, CallInv, NEW c \in Call, Store(c)
  PROVE  CallInv'
<1> USE CacheAssumption
<1> DEFINE key == StoreKey(request[c])
<1>1. /\ pc[c] = "store" /\ pc'[c] = "done" /\ fetched[c] \in {None, c}
      /\ UNCHANGED <<backend, injected, request, fetched>>
      /\ faults > 0 => faults' > 0
  BY DEF Store, Finish, Goto, CallInv, FetchedOwn, Command, ServerCommand, TypeOK
<1>2. \A d \in Call \ {c} : pc'[d] = pc[d] /\ returned'[d] = returned[d]
  BY DEF Store, Goto, Finish, TypeOK
<1>3. \/ store' = store
      \/ store' = [x \in DOMAIN store \union {key} |->
                     IF x = key THEN fetched[c] ELSE store[x]]
  BY DEF Store, Put
<1>4. \/ returned'[c] = fetched[c]
      \/ returned'[c] = Thrown
      \/ /\ returned'[c] = None /\ request[c].op = "fetchPosts"
         /\ faults' > 0 \/ backend = "class"
  <2>1. PICK o \in Reply :
          /\ Command(o) \/ ServerCommand(o)
          /\ returned' = [returned EXCEPT ![c] =
                            IF o = "ok" THEN fetched[c] ELSE StoreFailure(c)]
    BY DEF Store, Finish
  <2>2. returned'[c] = IF o = "ok" THEN fetched[c] ELSE StoreFailure(c)
    BY <2>1 DEF TypeOK
  <2>3. o # "ok" => faults' > 0 \/ backend = "class"
    BY <2>1 DEF Command, ServerCommand, TypeOK
  <2> QED
    BY <2>2, <2>3 DEF StoreFailure
<1>5. FetchedOwn'
  BY <1>1, <1>2 DEF CallInv, FetchedOwn
<1>6. StoredByKey'
  <2> SUFFICES ASSUME NEW k \in DOMAIN store', store'[k] \in Call
               PROVE  /\ pc'[store'[k]] = "done"
                      /\ StoreKey(request[store'[k]]) = k
    BY <1>1 DEF StoredByKey
  <2>1. CASE store'[k] = c /\ k = key
    BY <2>1, <1>1
  <2>2. CASE k \in DOMAIN store /\ store'[k] = store[k]
    BY <2>2, <1>1, <1>2 DEF CallInv, StoredByKey
  <2> QED
    BY <2>1, <2>2, <1>1, <1>3
<1>7. ServedByKey'
  <2> SUFFICES ASSUME NEW d \in Call, pc'[d] = "done", returned'[d] \in Call
               PROVE  \/ returned'[d] = d
                      \/ /\ pc'[returned'[d]] = "done"
                         /\ StoreKey(request[returned'[d]]) = LookupKey(request[d])
    BY <1>1 DEF ServedByKey
  <2>1. CASE d = c
    BY <2>1, <1>1, <1>4
  <2>2. CASE d # c
    BY <2>2, <1>1, <1>2 DEF CallInv, ServedByKey
  <2> QED
    BY <2>1, <2>2
<1>8. FoundIsReturned'
  <2> SUFFICES ASSUME NEW d \in Call, pc'[d] = "done", fetched[d] = d
               PROVE  \/ returned'[d] \in {d, Thrown}
                      \/ /\ request[d].op = "fetchPosts"
                         /\ faults' > 0 \/ backend = "class"
    BY <1>1 DEF FoundIsReturned
  <2>1. CASE d = c
    BY <2>1, <1>4
  <2>2. CASE d # c
    BY <2>2, <1>1, <1>2 DEF CallInv, FoundIsReturned
  <2> QED
    BY <2>1, <2>2
<1> QED
  BY <1>5, <1>6, <1>7, <1>8 DEF CallInv

(* Purgers, time and foreign writes only take entries away.                *)
LEMMA NextCallInv == TypeOK /\ CallInv /\ [Next]_vars => CallInv'
<1> SUFFICES ASSUME TypeOK, CallInv, [Next]_vars PROVE CallInv'
  OBVIOUS
<1>1. ASSUME NEW c \in Call, CallStep(c) PROVE CallInv'
  BY <1>1, BeginKeepsCallInv, LookupKeepsCallInv, FetchKeepsCallInv,
     StoreKeepsCallInv DEF CallStep
<1>2. ASSUME NEW p \in Purger, PurgeStep(p) PROVE CallInv'
  <2>1. \A c \in Call : c # p
    BY CacheAssumption
  <2>2. \A c \in Call : pc'[c] = pc[c] /\ request'[c] = request[c]
                        /\ returned'[c] = returned[c]
    BY <1>2, <2>1 DEF PurgeStep, BeginPurge, DeleteOne, ListKeys, DeleteListed,
       RoundOver, Goto, Finish, TypeOK
  <2>3. UNCHANGED <<fetched, backend, injected>>
    BY <1>2 DEF PurgeStep, BeginPurge, DeleteOne, ListKeys, DeleteListed
  <2>4. faults > 0 => faults' > 0
    BY <1>2 DEF PurgeStep, BeginPurge, DeleteOne, ListKeys, DeleteListed,
       Command, ServerCommand, TypeOK
  <2>5. /\ DOMAIN store' \subseteq DOMAIN store
        /\ \A k \in DOMAIN store' : store'[k] = store[k]
    BY <1>2 DEF PurgeStep, BeginPurge, DeleteOne, ListKeys, DeleteListed, Delete
  <2> QED
    BY <2>2, <2>3, <2>4, <2>5, ElsewhereKeepsCallInv
<1>3. ASSUME NEW k \in DOMAIN store, Expire(k) \/ Garble(k) PROVE CallInv'
  <2>1. /\ DOMAIN store' \subseteq DOMAIN store
        /\ \A x \in DOMAIN store' : store'[x] \in {store[x], Garbled}
    BY <1>3 DEF Expire, Garble, Delete, Put
  <2>2. faults > 0 => faults' > 0
    BY <1>3 DEF Expire, Garble, TypeOK
  <2>3. UNCHANGED <<backend, injected, pc, request, returned, fetched>>
    BY <1>3 DEF Expire, Garble, callVars
  <2> QED
    BY <2>1, <2>2, <2>3, ElsewhereKeepsCallInv
<1>4. CASE UNCHANGED vars
  BY <1>4, ElsewhereKeepsCallInv DEF vars, callVars
<1> QED
  BY <1>1, <1>2, <1>3, <1>4 DEF Next

(* A request served by another one's response is one it fits: equal keys   *)
(* are made of equal parts.                                                *)
LEMMA EqualKeysFit ==
  ASSUME NEW made \in Request, NEW asked \in Request,
         StoreKey(made) = LookupKey(asked)
  PROVE  Fits(made, asked)
<1>1. /\ made.random \in BOOLEAN /\ asked.random \in BOOLEAN
      /\ made.limit \in Maybe(Number) /\ asked.limit \in Maybe(Number)
      /\ made.tags \in Maybe(Tags) /\ asked.tags \in Maybe(Tags)
      /\ made.ttl \in Maybe(Number)
      /\ Trimmed[made.query] \in Text /\ Trimmed[asked.query] \in Text
  BY CacheAssumption
<1> DEFINE seedOf(r, l, t) == [text |-> Trimmed[r.query], limit |-> l, tags |-> t]
<1>2. ASSUME NEW r \in {made, asked}, NEW l \in Maybe(Number), NEW t \in Maybe(Tags)
      PROVE  seedOf(r, l, t) # None
  <2>1. seedOf(r, l, t) \in [text : Text, limit : Maybe(Number), tags : Maybe(Tags)]
    BY <1>1
  <2> QED
    BY <2>1, CacheAssumption
<1>3. ASSUME NEW m \in Maybe(Number), NEW n \in Maybe(Number),
             NEW t \in Maybe(Tags), NEW u \in Maybe(Tags),
             getCacheKey(made.api, made.query, made.random, m, t)
               = getCacheKey(asked.api, asked.query, asked.random, n, u)
      PROVE  /\ made.api = asked.api
             /\ Hashed[Trimmed[made.query]] = Hashed[Trimmed[asked.query]]
             /\ made.random = asked.random
             /\ asked.random => Trimmed[made.query] = Trimmed[asked.query]
             /\ m = n /\ t = u
  <2> DEFINE seed(r, l1, t1) == IF r.random THEN seedOf(r, l1, t1) ELSE None
  <2>1. /\ made.api = asked.api
        /\ Hashed[Trimmed[made.query]] = Hashed[Trimmed[asked.query]]
        /\ m = n /\ t = u
        /\ seed(made, m, t) = seed(asked, n, u)
    BY <1>3 DEF getCacheKey
  <2>2. made.random = asked.random
    BY <2>1, <1>1, <1>2
  <2>3. asked.random => Trimmed[made.query] = Trimmed[asked.query]
    BY <2>1, <2>2
  <2> QED
    BY <2>1, <2>2, <2>3
<1>4. None \in Maybe(Number) /\ None \in Maybe(Tags)
  BY DEF Maybe
<1>5. made.op \in {"getOrSet", "getOrFetch", "generic", "fetchPosts", "put"}
  BY RequestKeys
<1>6. \E m, n \in Maybe(Number), t, u \in Maybe(Tags) :
        /\ getCacheKey(made.api, made.query, made.random, m, t)
             = getCacheKey(asked.api, asked.query, asked.random, n, u)
        /\ IF Keyed(asked) THEN n = asked.limit /\ u = asked.tags
                           ELSE n = None /\ u = None
        /\ Keyed(made) => m = made.limit /\ t = made.tags
        /\ ~Keyed(made) => t = None
  BY <1>1, <1>4, <1>5 DEF StoreKey, LookupKey, Keyed
<1> QED
  BY <1>3, <1>6 DEF Fits

(* What a call is served was fetched for a request it fits.                *)
LEMMA CallInvServedFits == TypeOK /\ CallInv => ServedFits
<1> SUFFICES ASSUME TypeOK, CallInv, NEW c \in Call,
                    pc[c] = "done", returned[c] \in Call
             PROVE  Fits(request[returned[c]], request[c])
  BY DEF ServedFits
<1>1. request[c] \in Request
  BY DEF TypeOK
<1>2. CASE returned[c] = c
  BY <1>2 DEF Fits, Keyed
<1>3. CASE /\ pc[returned[c]] = "done"
           /\ StoreKey(request[returned[c]]) = LookupKey(request[c])
  <2>1. request[returned[c]] \in Request
    BY <1>3 DEF TypeOK
  <2> QED
    BY <1>1, <1>3, <2>1, EqualKeysFit
<1> QED
  BY <1>2, <1>3 DEF CallInv, ServedByKey

(* The types hold, whatever is called and fails.                           *)
THEOREM CacheTypes == Spec => []TypeOK
<1>1. QED
  BY InitTypeOK, NextTypeOK, PTL DEF Spec

(* Responses fit the requests they are served to, although three classes   *)
(* build keys and two of them look up other keys than they store           *)
(* (cache.service.ts getCacheKey).                                         *)
THEOREM ResponsesFit == Spec => []ServedFits
<1>1. Init => TypeOK /\ CallInv
  BY InitTypeOK, InitCallInv
<1>2. TypeOK /\ CallInv /\ [Next]_vars => (TypeOK /\ CallInv)'
  BY NextTypeOK, NextCallInv
<1>3. TypeOK /\ CallInv => ServedFits
  BY CallInvServedFits
<1> QED
  BY <1>1, <1>2, <1>3, PTL DEF Spec

(* A post that was found is returned, except where fetchPosts catches what *)
(* the cache throws.                                                       *)
THEOREM FoundPostsReturn == Spec => []FoundIsReturned
<1>1. Init => TypeOK /\ CallInv
  BY InitTypeOK, InitCallInv
<1>2. TypeOK /\ CallInv /\ [Next]_vars => (TypeOK /\ CallInv)'
  BY NextTypeOK, NextCallInv
<1>3. CallInv => FoundIsReturned
  BY DEF CallInv
<1> QED
  BY <1>1, <1>2, <1>3, PTL DEF Spec

----------------------------------------------------------------------------
(* Invalidation.                                                           *)

LastRound(p) == ~(request[p].op = "query" /\ round[p] = 1)

(* What is left of what was there when the purger began.                   *)
Left(p) == {e \in due[p] : Entry(e[1]) = e[2]}

(* Where a purger with a pattern is, and one with a query.                 *)
OnItsPath(p) ==
  /\ pc[p] = "delete" => request[p].op = "delete"
  /\ pc[p] \in {"keys", "del"} => request[p].op # "delete"
  /\ pc[p] = "del" => backend = "redis"

(* What is due was meant, and fetched by calls that have ended.            *)
DueEnded(p) ==
  \A e \in due[p] :
    pc[p] # "idle" /\ Meant(e[1], request[p]) /\ pc[e[2]] = "done"

(* The last KEYS lists what is left of it, and the last DEL deletes that.  *)
LeftIsListed(p) ==
  pc[p] = "del" /\ LastRound(p) => \A e \in Left(p) : e[1] \in listed[p]
NothingLeft(p) ==
  /\ pc[p] = "done"
  /\ returned[p] = None
  /\ Purges(request[p])
  => Left(p) = {}

PurgerInv(p) ==
  OnItsPath(p) /\ DueEnded(p) /\ LeftIsListed(p) /\ NothingLeft(p)
PurgeInv == \A p \in Purger : PurgerInv(p)

LEMMA InitPurgeInv == Init => PurgeInv
BY CacheAssumption
DEF Init, PurgeInv, PurgerInv, OnItsPath, DueEnded, LeftIsListed, NothingLeft

(* Nobody stores a response again whose call has ended, so that what is    *)
(* left of a purger's due can only become less.                            *)
LEMMA LeftOnlyShrinks ==
  ASSUME TypeOK, CallInv, [Next]_vars, NEW p \in Purger, DueEnded(p),
         due'[p] = due[p]
  PROVE  Left(p)' \subseteq Left(p)
<1> USE CacheAssumption
<1> SUFFICES ASSUME NEW e \in due[p], Entry(e[1])' = e[2]
             PROVE  Entry(e[1]) = e[2]
  BY DEF Left
<1>1. e[1] \in Key /\ e[2] \in Call /\ pc[e[2]] = "done"
  BY DEF TypeOK, DueEnded
<1>2. e[1] \in DOMAIN store' /\ store'[e[1]] = e[2]
  BY <1>1 DEF Entry
<1>3. \/ e[1] \in DOMAIN store /\ store'[e[1]] = store[e[1]]
      \/ \E c \in Call : Store(c) /\ store'[e[1]] = fetched[c]
  <2>1. ASSUME NEW c \in Call, CallStep(c)
        PROVE  \/ e[1] \in DOMAIN store /\ store'[e[1]] = store[e[1]]
               \/ Store(c) /\ store'[e[1]] = fetched[c]
    <3>1. CASE Store(c)
      <4>1. \/ store' = store
            \/ store' = [x \in DOMAIN store \union {StoreKey(request[c])} |->
                           IF x = StoreKey(request[c]) THEN fetched[c] ELSE store[x]]
        BY <3>1 DEF Store, Put
      <4> QED
        BY <1>2, <3>1, <4>1
    <3>2. CASE Begin(c) \/ Lookup(c) \/ Fetch(c)
      <4>1. store' = store
        BY <3>2 DEF Begin, Lookup, Fetch
      <4> QED
        BY <1>2, <4>1
    <3> QED
      BY <2>1, <3>1, <3>2 DEF CallStep
  <2>2. ASSUME NEW q \in Purger, PurgeStep(q)
        PROVE  e[1] \in DOMAIN store /\ store'[e[1]] = store[e[1]]
    BY <1>2, <2>2
    DEF PurgeStep, BeginPurge, DeleteOne, ListKeys, DeleteListed, Delete
  <2>3. ASSUME NEW k \in DOMAIN store, Expire(k) \/ Garble(k)
        PROVE  e[1] \in DOMAIN store /\ store'[e[1]] = store[e[1]]
    BY <1>1, <1>2, <2>3 DEF Expire, Garble, Delete, Put
  <2>4. CASE UNCHANGED vars
    BY <1>2, <2>4 DEF vars
  <2> QED
    BY <2>1, <2>2, <2>3, <2>4 DEF Next
<1>4. ASSUME NEW c \in Call, Store(c), store'[e[1]] = fetched[c] PROVE FALSE
  <2>1. fetched[c] \in {None, c} /\ pc[c] = "store"
    BY <1>4 DEF CallInv, FetchedOwn, Store
  <2> QED
    BY <2>1, <1>1, <1>2, <1>4
<1> QED
  BY <1>2, <1>3, <1>4 DEF Entry

(* A call that has ended stays so.                                         *)
LEMMA EndedStays ==
  ASSUME TypeOK, [Next]_vars, NEW c \in Call, pc[c] = "done"
  PROVE  pc'[c] = "done"
<1> USE CacheAssumption
<1>1. ASSUME NEW d \in Call, CallStep(d) PROVE pc'[c] = "done"
  BY <1>1 DEF CallStep, Begin, Lookup, Fetch, Store, Goto, Finish, TypeOK
<1>2. ASSUME NEW p \in Purger, PurgeStep(p) PROVE pc'[c] = "done"
  <2>1. c # p
    OBVIOUS
  <2> QED
    BY <1>2, <2>1 DEF PurgeStep, BeginPurge, DeleteOne, ListKeys, DeleteListed,
       RoundOver, Goto, Finish, TypeOK
<1> QED
  BY <1>1, <1>2 DEF Next, vars, Expire, Garble

(* A step that is not a purger's own keeps what holds of it.               *)
LEMMA OthersKeepPurgerInv ==
  ASSUME TypeOK, CallInv, [Next]_vars, NEW p \in Purger, PurgerInv(p),
         UNCHANGED <<pc[p], request[p], returned[p], round[p], listed[p], due[p]>>,
         UNCHANGED <<backend, injected>>
  PROVE  PurgerInv(p)'
<1>1. Left(p)' \subseteq Left(p)
  BY LeftOnlyShrinks DEF PurgerInv
<1>2. OnItsPath(p)'
  BY DEF PurgerInv, OnItsPath
<1>3. DueEnded(p)'
  <2>1. \A e \in due[p] : e[2] \in Call
    BY DEF TypeOK
  <2> QED
    BY <2>1, EndedStays DEF PurgerInv, DueEnded, Meant
<1>4. LeftIsListed(p)'
  BY <1>1 DEF PurgerInv, LeftIsListed, LastRound
<1>5. NothingLeft(p)'
  BY <1>1 DEF PurgerInv, NothingLeft, Purges, WithoutCache
<1> QED
  BY <1>2, <1>3, <1>4, <1>5 DEF PurgerInv

(* A purger begins with what is there, or ends because it has no cache.    *)
LEMMA BeginPurgeKeepsPurgerInv ==
  ASSUME TypeOK, CallInv, NEW p \in Purger, BeginPurge(p)
  PROVE  PurgerInv(p)'
<1> USE CacheAssumption
<1>1. PICK r \in PurgeRequest :
        /\ request' = [request EXCEPT ![p] = r]
        /\ \/ WithoutCache(r) /\ Finish(p, None)
           \/ Goto(p, IF r.op = "delete" THEN "delete" ELSE "keys")
        /\ injected' = injected
        /\ due' = [due EXCEPT ![p] =
                     {<<k, store[k]>> :
                        k \in {x \in DOMAIN store : store[x] \in Call /\ Meant(x, r)}}]
  BY DEF BeginPurge
<1>2. /\ request'[p] = r
      /\ \/ WithoutCache(r) /\ pc'[p] = "done"
         \/ pc'[p] = IF r.op = "delete" THEN "delete" ELSE "keys"
      /\ \A c \in Call : pc'[c] = pc[c]
  BY <1>1 DEF TypeOK, Goto, Finish
<1>3. due'[p] = {<<k, store[k]>> :
                   k \in {x \in DOMAIN store : store[x] \in Call /\ Meant(x, r)}}
  BY <1>1 DEF TypeOK
<1>4. DueEnded(p)'
  <2> SUFFICES ASSUME NEW e \in due'[p]
               PROVE  Meant(e[1], r) /\ pc'[e[2]] = "done"
    BY <1>2 DEF DueEnded, Meant
  <2>1. e[1] \in DOMAIN store /\ e[2] = store[e[1]] /\ e[2] \in Call
        /\ Meant(e[1], r)
    BY <1>3
  <2>2. pc[e[2]] = "done"
    BY <2>1 DEF CallInv, StoredByKey
  <2> QED
    BY <1>2, <2>1, <2>2
<1> QED
  BY <1>1, <1>2, <1>4
  DEF PurgerInv, OnItsPath, LeftIsListed, NothingLeft, Purges, WithoutCache

LEMMA DeleteOneKeepsPurgerInv ==
  ASSUME TypeOK, CallInv, NEW p \in Purger, PurgerInv(p), DeleteOne(p)
  PROVE  PurgerInv(p)'
<1> USE CacheAssumption
<1> DEFINE r == request[p]
           key == getCacheKey(r.api, r.query, r.random, None, None)
<1>1. /\ pc[p] = "delete" /\ r.op = "delete" /\ pc'[p] = "done"
      /\ UNCHANGED <<backend, injected, request, due>>
      /\ \A c \in Call : pc'[c] = pc[c]
  BY DEF DeleteOne, Finish, Goto, PurgerInv, OnItsPath, purgeVars, TypeOK
<1>2. returned'[p] = None => store' = [k \in DOMAIN store \ {key} |-> store[k]]
  BY DEF DeleteOne, Finish, Delete, TypeOK
<1>3. \A e \in due[p] : e[2] \in Call /\ e[1] = key
  BY <1>1 DEF PurgerInv, DueEnded, Meant, TypeOK
<1>4. DueEnded(p)'
  BY <1>1, <1>3 DEF PurgerInv, DueEnded, Meant
<1>5. NothingLeft(p)'
  <2> SUFFICES ASSUME returned'[p] = None, NEW e \in due[p], Entry(e[1])' = e[2]
               PROVE  FALSE
    BY <1>1 DEF NothingLeft, Left
  <2>1. key \notin DOMAIN store'
    BY <1>2
  <2>2. Entry(e[1])' = None
    BY <1>3, <2>1 DEF Entry
  <2> QED
    BY <1>3, <2>2
<1> QED
  BY <1>1, <1>4, <1>5 DEF PurgerInv, OnItsPath, LeftIsListed

(* In its last round a purger's pattern matches everything that was meant. *)
LEMMA LastRoundMatches ==
  ASSUME TypeOK, NEW p \in Purger, PurgerInv(p), LastRound(p),
         pc[p] \in {"keys", "del"}, NEW k \in Key, Meant(k, request[p])
  PROVE  Matches(k, request[p], round[p])
<1>1. request[p].op \in {"prefix", "api", "query"}
  BY CacheAssumption DEF TypeOK, PurgerInv, OnItsPath
<1> QED
  BY <1>1 DEF Matches, Meant, LastRound

(* KEYS lists what is left, or finds that nothing is.                      *)
LEMMA ListKeysKeepsPurgerInv ==
  ASSUME TypeOK, CallInv, NEW p \in Purger, PurgerInv(p), ListKeys(p)
  PROVE  PurgerInv(p)'
<1> USE CacheAssumption
<1>1. /\ pc[p] = "keys" /\ request[p].op # "delete"
      /\ UNCHANGED <<backend, injected, store, request, due>>
      /\ \A c \in Call : pc'[c] = pc[c]
  BY DEF ListKeys, RoundOver, Finish, Goto, PurgerInv, OnItsPath, TypeOK
<1>2. DueEnded(p)'
  <2>1. pc'[p] # "idle"
    BY DEF ListKeys, RoundOver, Finish, Goto, TypeOK
  <2>2. \A e \in due[p] : e[2] \in Call
    BY DEF TypeOK
  <2> QED
    BY <1>1, <2>1, <2>2 DEF PurgerInv, DueEnded, Meant
<1>3. Left(p)' = Left(p)
  BY <1>1 DEF Left, Entry
<1>4. ASSUME LastRound(p), backend = "redis", NEW e \in Left(p)
      PROVE  e[1] \in Found(p)
  <2>1. e \in due[p] /\ e[1] \in Key /\ e[2] \in Call /\ e[1] \in DOMAIN store
    BY <1>4 DEF Left, Entry, TypeOK
  <2>2. Matches(e[1], request[p], round[p])
    BY <1>1, <1>4, <2>1, LastRoundMatches DEF PurgerInv, DueEnded
  <2> QED
    BY <1>4, <2>1, <2>2 DEF Found
<1>5. CASE Finish(p, PurgeFailure(p)) /\ round' = round
  <2>1. pc'[p] = "done" /\ returned'[p] # None
    BY <1>5 DEF Finish, Goto, PurgeFailure, TypeOK
  <2> QED
    BY <1>2, <2>1 DEF PurgerInv, OnItsPath, LeftIsListed, NothingLeft
<1>6. CASE Found(p) = {} /\ RoundOver(p)
  <2>1. CASE Goto(p, "keys")
    <3>1. pc'[p] = "keys"
      BY <2>1 DEF Goto, TypeOK
    <3> QED
      BY <1>1, <1>2, <3>1 DEF PurgerInv, OnItsPath, LeftIsListed, NothingLeft
  <2>2. CASE Finish(p, None) /\ LastRound(p)
    <3>1. pc'[p] = "done"
      BY <2>2 DEF Finish, Goto, TypeOK
    <3>2. backend = "redis" => Left(p) = {}
      BY <1>4, <1>6, <2>2
    <3> QED
      BY <1>1, <1>2, <1>3, <3>1, <3>2
      DEF PurgerInv, OnItsPath, LeftIsListed, NothingLeft, Purges
  <2> QED
    BY <1>6, <2>1, <2>2, RoundOverCases DEF LastRound
<1>7. CASE /\ Found(p) # {} /\ listed' = [listed EXCEPT ![p] = Found(p)]
           /\ Goto(p, "del") /\ UNCHANGED <<returned, round>>
  <2>1. backend = "redis"
    BY <1>7 DEF Found
  <2>2. pc'[p] = "del" /\ listed'[p] = Found(p)
    BY <1>7 DEF Goto, TypeOK
  <2>3. LeftIsListed(p)'
    BY <1>1, <1>3, <1>4, <1>7, <2>1, <2>2 DEF LeftIsListed, LastRound
  <2> QED
    BY <1>1, <1>2, <2>1, <2>2, <2>3 DEF PurgerInv, OnItsPath, NothingLeft
<1> QED
  BY <1>5, <1>6, <1>7 DEF ListKeys

(* DEL deletes what was listed, and so what is left.                       *)
LEMMA DeleteListedKeepsPurgerInv ==
  ASSUME TypeOK, CallInv, NEW p \in Purger, PurgerInv(p), DeleteListed(p)
  PROVE  PurgerInv(p)'
<1> USE CacheAssumption
<1>1. /\ pc[p] = "del" /\ request[p].op # "delete"
      /\ UNCHANGED <<backend, injected, request, due>>
      /\ \A c \in Call : pc'[c] = pc[c]
  BY DEF DeleteListed, RoundOver, Finish, Goto, PurgerInv, OnItsPath, TypeOK
<1>2. DueEnded(p)'
  <2>1. pc'[p] # "idle"
    BY DEF DeleteListed, RoundOver, Finish, Goto, TypeOK
  <2>2. \A e \in due[p] : e[2] \in Call
    BY DEF TypeOK
  <2> QED
    BY <1>1, <2>1, <2>2 DEF PurgerInv, DueEnded, Meant
<1>3. CASE Finish(p, PurgeFailure(p))
  <2>1. pc'[p] = "done" /\ returned'[p] # None
    BY <1>3 DEF Finish, Goto, PurgeFailure, TypeOK
  <2> QED
    BY <1>2, <2>1 DEF PurgerInv, OnItsPath, LeftIsListed, NothingLeft
<1>4. CASE RoundOver(p) /\ store' = [k \in DOMAIN store \ listed[p] |-> store[k]]
  <2>1. CASE Goto(p, "keys")
    <3>1. pc'[p] = "keys"
      BY <2>1 DEF Goto, TypeOK
    <3> QED
      BY <1>1, <1>2, <3>1 DEF PurgerInv, OnItsPath, LeftIsListed, NothingLeft
  <2>2. CASE Finish(p, None) /\ LastRound(p)
    <3>1. pc'[p] = "done"
      BY <2>2 DEF Finish, Goto, TypeOK
    <3>2. Left(p)' = {}
      <4> SUFFICES ASSUME NEW e \in due[p], Entry(e[1])' = e[2]
                   PROVE  FALSE
        BY <1>1 DEF Left
      <4>1. e[1] \in DOMAIN store' /\ e[2] \in Call
        BY DEF Entry, TypeOK
      <4>2. e[1] \notin listed[p] /\ Entry(e[1]) = e[2]
        BY <1>4, <4>1 DEF Entry
      <4> QED
        BY <1>1, <2>2, <4>2 DEF PurgerInv, LeftIsListed, Left
    <3> QED
      BY <1>2, <3>1, <3>2 DEF PurgerInv, OnItsPath, LeftIsListed, NothingLeft
  <2> QED
    BY <1>4, <2>1, <2>2, RoundOverCases DEF LastRound
<1> QED
  BY <1>3, <1>4 DEF DeleteListed, Delete

LEMMA NextPurgeInv == TypeOK /\ CallInv /\ PurgeInv /\ [Next]_vars => PurgeInv'
<1> SUFFICES ASSUME TypeOK, CallInv, PurgeInv, [Next]_vars, NEW p \in Purger
             PROVE  PurgerInv(p)'
  BY DEF PurgeInv
<1> USE CacheAssumption
<1>1. PurgerInv(p)
  BY DEF PurgeInv
<1>2. CASE PurgeStep(p)
  BY <1>1, <1>2, BeginPurgeKeepsPurgerInv, DeleteOneKeepsPurgerInv,
     ListKeysKeepsPurgerInv, DeleteListedKeepsPurgerInv DEF PurgeStep
<1>3. ASSUME NEW q \in Purger \ {p}, PurgeStep(q) PROVE PurgerInv(p)'
  <2>1. UNCHANGED <<pc[p], request[p], returned[p], round[p], listed[p], due[p]>>
        /\ UNCHANGED <<backend, injected>>
    BY <1>3 DEF PurgeStep, BeginPurge, DeleteOne, ListKeys, DeleteListed,
       RoundOver, Finish, Goto, TypeOK, purgeVars
  <2> QED
    BY <1>1, <2>1, OthersKeepPurgerInv
<1>4. ASSUME NEW c \in Call, CallStep(c) PROVE PurgerInv(p)'
  <2>1. UNCHANGED <<pc[p], request[p], returned[p], round[p], listed[p], due[p]>>
        /\ UNCHANGED <<backend, injected>>
    <3>1. c # p
      OBVIOUS
    <3> QED
      BY <1>4, <3>1 DEF CallStep, Begin, Lookup, Fetch, Store, Finish, Goto,
         TypeOK, purgeVars
  <2> QED
    BY <1>1, <2>1, OthersKeepPurgerInv
<1>5. ASSUME NEW k \in DOMAIN store, Expire(k) \/ Garble(k) PROVE PurgerInv(p)'
  <2>1. UNCHANGED <<pc, request, returned, round, listed, due, backend, injected>>
    BY <1>5 DEF Expire, Garble, purgeVars
  <2> QED
    BY <1>1, <2>1, OthersKeepPurgerInv
<1>6. CASE UNCHANGED vars
  <2>1. UNCHANGED <<pc, request, returned, round, listed, due, backend, injected>>
    BY <1>6 DEF vars, purgeVars
  <2> QED
    BY <1>1, <2>1, OthersKeepPurgerInv
<1> QED
  BY <1>2, <1>3, <1>4, <1>5, <1>6 DEF Next

(* An invalidation that has a cache to act on, and returns without an      *)
(* error, leaves nothing of what it was meant for, however many calls fill *)
(* the cache and commands fail meanwhile.  Nothing is said of Memcached,   *)
(* nor of BaseApiService without a CacheService: those delete nothing.     *)
THEOREM PurgesPurge == Spec => []PurgedIsGone
<1>1. Init => TypeOK /\ CallInv /\ PurgeInv
  BY InitTypeOK, InitCallInv, InitPurgeInv
<1>2. TypeOK /\ CallInv /\ PurgeInv /\ [Next]_vars
      => (TypeOK /\ CallInv /\ PurgeInv)'
  BY NextTypeOK, NextCallInv, NextPurgeInv
<1>3. PurgeInv => PurgedIsGone
  BY DEF PurgeInv, PurgerInv, NothingLeft, Left, PurgedIsGone
<1> QED
  BY <1>1, <1>2, <1>3, PTL DEF Spec
============================================================================
