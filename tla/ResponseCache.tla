--------------------------- MODULE ResponseCache ---------------------------
(***************************************************************************)
(* The response cache: CacheService on one of its backends, as used by     *)
(* CacheManagerService and BaseApiService, and the invalidations of all    *)
(* three.  A Call is one call of a method that reads or fills the cache, a *)
(* Purger one call of a method that empties it.  They run in any number of *)
(* processes; an action is one command of the backend, or one request to   *)
(* the API, and the code up to the next await.  A response is named by the *)
(* call that fetched it.                                                   *)
(***************************************************************************)
EXTENDS Naturals

CONSTANTS
  Call, Purger,
  Request,      \* what the calls may ask for
  PurgeRequest, \* what the purgers may ask for
  Api,
  Query,
  Text,
  Trimmed,      \* [Query -> Text]: query.trim()
  Hash,
  Hashed,       \* [Text -> Hash]: lower case, single spaces, MD5
  Number,       \* limits and TTLs
  Tags,         \* sorted, joined and hashed tags
  Backend,      \* "redis", "memcached", "class"
  Injected,     \* "cache", "redis", "none"
  None,         \* an optional argument left out, null
  Garbled,      \* an entry that is not JSON
  Thrown,       \* an exception
  Ignored,      \* an exception answered with a count of 0
  MaxFaults     \* bound: commands that fail and entries others overwrite

Maybe(S) == S \union {None}

ASSUME CacheAssumption ==
  /\ Request \subseteq
       [op : {"getOrSet", "getOrFetch", "generic", "fetchPosts", "put"},
        api : Api, query : Query, random : BOOLEAN,
        limit : Maybe(Number), tags : Maybe(Tags), ttl : Maybe(Number)]
  /\ PurgeRequest \subseteq
       [op : {"delete", "prefix", "api", "query"},
        api : Api, query : Query, random : Maybe(BOOLEAN)]
  /\ \A r \in PurgeRequest : r.op = "delete" => r.random # None
  /\ Trimmed \in [Query -> Text]
  /\ Hashed \in [Text -> Hash]
  /\ Backend \subseteq {"redis", "memcached", "class"}
  /\ Injected \subseteq {"cache", "redis", "none"}
  /\ Call \intersect Purger = {}
  /\ {None, Garbled, Thrown, Ignored} \intersect (Call \union Purger) = {}
  /\ Garbled \notin {None, Thrown, Ignored} /\ Ignored # None /\ Thrown # None
  /\ None \notin [text : Text, limit : Maybe(Number), tags : Maybe(Tags)]
  /\ MaxFaults \in Nat

Seed == [text : Text, limit : Maybe(Number), tags : Maybe(Tags)]
Key == [api : Api, hash : Hash, limit : Maybe(Number), seed : Maybe(Seed),
        tags : Maybe(Tags)]

VARIABLES
  backend,   \* what CACHE_BACKEND is bound to
  injected,  \* what the subclass gives BaseApiService to cache with
  store,     \* the entries of the backend, by key
  faults,    \* faults so far
  pc,
  request,   \* what each call or purger was asked
  fetched,   \* the response a call got from the API
  returned,  \* what a call returned, or how a purger ended
  round,     \* the invalidation a purger stands at
  listed,    \* the keys KEYS gave it
  due        \* history: what should be gone when the purger returns

callVars == <<fetched>>
purgeVars == <<round, listed, due>>
vars == <<backend, injected, store, faults, pc, request, returned, callVars, purgeVars>>

CallPc == {"idle", "lookup", "fetch", "store", "done"}
PurgePc == {"idle", "delete", "keys", "del", "done"}

TypeOK ==
  /\ backend \in Backend
  /\ injected \in Injected
  /\ DOMAIN store \subseteq Key
  /\ \A k \in DOMAIN store : store[k] \in Call \union {None, Garbled}
  /\ faults \in 0..MaxFaults
  /\ pc \in [Call \union Purger -> CallPc \union PurgePc]
  /\ \A c \in Call : pc[c] \in CallPc
  /\ request \in [Call \union Purger -> Request \union PurgeRequest \union {None}]
  /\ \A c \in Call : pc[c] # "idle" => request[c] \in Request
  /\ \A p \in Purger : pc[p] # "idle" => request[p] \in PurgeRequest
  /\ fetched \in [Call -> Call \union {None}]
  /\ returned \in [Call \union Purger -> Call \union {None, Thrown, Ignored}]
  /\ round \in [Purger -> {1, 2}]
  /\ listed \in [Purger -> SUBSET Key]
  /\ due \in [Purger -> SUBSET (Key \X Call)]

(* CacheModule's factory returns one of the two classes, where an instance *)
(* is expected: "class" is what it ships, whose every method is undefined. *)
(* BaseApiService takes a CacheService and a Redis client, both optional;  *)
(* its only subclass, DanbooruApiService, passes neither: "none".          *)
Init ==
  /\ backend \in Backend
  /\ injected \in Injected
  /\ store = [k \in {} |-> None]
  /\ faults = 0
  /\ pc = [a \in Call \union Purger |-> "idle"]
  /\ request = [a \in Call \union Purger |-> None]
  /\ fetched = [c \in Call |-> None]
  /\ returned = [a \in Call \union Purger |-> None]
  /\ round = [p \in Purger |-> 1]
  /\ listed = [p \in Purger |-> {}]
  /\ due = [p \in Purger |-> {}]

----------------------------------------------------------------------------
(* Keys.                                                                   *)

(* Mutant: a random request has no key of its own.                         *)
getCacheKeyUnseeded(api, query, random, limit, tags) ==
  [api |-> api, hash |-> Hashed[Trimmed[query]], limit |-> limit,
   seed |-> None, tags |-> tags]

(* CacheService.getCacheKey.  The seed of a random request is made from    *)
(* the trimmed query as it is spelled, the limit and the tags.             *)
getCacheKey(api, query, random, limit, tags) ==
  [api |-> api, hash |-> Hashed[Trimmed[query]], limit |-> limit,
   seed |-> IF random
            THEN [text |-> Trimmed[query], limit |-> limit, tags |-> tags]
            ELSE None,
   tags |-> tags]

Keyed(r) == r.op \in {"getOrSet", "getOrFetch"}

(* CacheManagerService and BaseApiService look up without limit and tags.  *)
LookupKey(r) ==
  IF Keyed(r) THEN getCacheKey(r.api, r.query, r.random, r.limit, r.tags)
              ELSE getCacheKey(r.api, r.query, r.random, None, None)

(* The generic methods of the manager, and BaseApiService.cacheResponse    *)
(* ("put"), call setCache with their TTL as its fifth argument: the limit. *)
StoreKey(r) ==
  IF r.op \in {"generic", "put"}
  THEN getCacheKey(r.api, r.query, r.random, r.ttl, None)
  ELSE LookupKey(r)

(* BaseApiService has no CacheService to use.                              *)
WithoutCache(r) ==
  r.op \in {"fetchPosts", "put", "query", "api"} /\ injected # "cache"

(* These leave the cache alone when a random post is wanted, fetchPosts    *)
(* also when it has none.                                                  *)
SkipsCache(r) ==
  \/ WithoutCache(r)
  \/ r.random /\ r.op \in {"generic", "fetchPosts"}

----------------------------------------------------------------------------
(* Commands of the backend.  One may fail unexecuted, or be executed       *)
(* without its reply arriving; both throw.                                 *)

Reply == {"ok", "failed", "unheard"}

ServerCommand(o) ==
  IF o = "ok" THEN UNCHANGED faults
              ELSE faults < MaxFaults /\ faults' = faults + 1
Command(o) ==
  IF backend = "class" THEN o = "failed" /\ UNCHANGED faults ELSE ServerCommand(o)

Entry(k) == IF k \in DOMAIN store THEN store[k] ELSE None
Put(k, v) ==
  store' = [x \in DOMAIN store \union {k} |-> IF x = k THEN v ELSE store[x]]
Delete(K) == store' = [k \in DOMAIN store \ K |-> store[k]]

Goto(a, label) == pc' = [pc EXCEPT ![a] = label]
Finish(a, result) ==
  /\ Goto(a, "done")
  /\ returned' = [returned EXCEPT ![a] = result]

----------------------------------------------------------------------------
(* getOrSet, getOrFetch, getOrFetchGeneric (and getCachedOrFetch with      *)
(* cacheResponseIfNeeded, which do the same around their caller's fetch),  *)
(* fetchPosts, cacheResponse.                                              *)

(* cacheResponse without anything to cache in returns at once.             *)
Begin(c) ==
  /\ pc[c] = "idle"
  /\ \E r \in Request :
       /\ request' = [request EXCEPT ![c] = r]
       /\ IF r.op = "put"
          THEN /\ fetched' = [fetched EXCEPT ![c] = c]
               /\ IF injected = "none"
                  THEN Finish(c, c) ELSE Goto(c, "store") /\ UNCHANGED returned
          ELSE /\ Goto(c, IF SkipsCache(r) THEN "fetch" ELSE "lookup")
               /\ UNCHANGED <<fetched, returned>>
  /\ UNCHANGED <<backend, injected, store, faults, purgeVars>>

(* A null entry is a miss.  The backends parse before CacheService does,   *)
(* so that an entry that is no JSON throws; CacheService's own handling of *)
(* it is never reached.                                                    *)
Lookup(c) ==
  /\ pc[c] = "lookup"
  /\ \E o \in {"ok", "failed"} :
       /\ Command(o)
       /\ LET hit == Entry(LookupKey(request[c]))
          IN  IF o = "ok" /\ hit = None
              THEN Goto(c, "fetch") /\ UNCHANGED returned
              ELSE Finish(c, IF o = "ok" /\ hit # Garbled THEN hit ELSE Thrown)
  /\ UNCHANGED <<backend, injected, store, request, fetched, purgeVars>>

(* A post, null or an exception, which fetchPosts turns into null.  Only   *)
(* getOrFetch caches a null.                                               *)
Fetch(c) ==
  /\ pc[c] = "fetch"
  /\ \/ /\ fetched' = [fetched EXCEPT ![c] = c]
        /\ IF SkipsCache(request[c])
           THEN Finish(c, c) ELSE Goto(c, "store") /\ UNCHANGED returned
     \/ /\ UNCHANGED fetched
        /\ IF request[c].op = "getOrFetch"
           THEN Goto(c, "store") /\ UNCHANGED returned ELSE Finish(c, None)
     \/ /\ UNCHANGED fetched
        /\ Finish(c, IF request[c].op = "fetchPosts" THEN None ELSE Thrown)
  /\ UNCHANGED <<backend, injected, store, faults, request, purgeVars>>

(* What a call returns whose setCache threw.                               *)
StoreFailureIsNull(c) == None    \* mutant: caught in every method
StoreFailure(c) == IF request[c].op = "fetchPosts" THEN None ELSE Thrown

(* setCache: SETEX.  cacheResponse with a Redis client and no CacheService *)
(* sends it itself, under a key outside `cache:` that nothing in the code  *)
(* reads or deletes; the entry is left out of store.                       *)
Store(c) ==
  /\ pc[c] = "store"
  /\ \E o \in Reply :
       /\ IF WithoutCache(request[c]) THEN ServerCommand(o) ELSE Command(o)
       /\ IF o = "failed" \/ WithoutCache(request[c])
          THEN UNCHANGED store ELSE Put(StoreKey(request[c]), fetched[c])
       /\ Finish(c, IF o = "ok" THEN fetched[c] ELSE StoreFailure(c))
  /\ UNCHANGED <<backend, injected, request, fetched, purgeVars>>

----------------------------------------------------------------------------
(* CacheManagerService.invalidateCache ("delete" with a query, "prefix"    *)
(* without) and BaseApiService.invalidateCache ("query", "api").           *)

HasSuffix(k) == k.limit # None \/ k.seed # None \/ k.tags # None

(* The pattern of a round.  `...:posts:{hash}:random=1:*` matches no key,   *)
(* `...:posts:{hash}:*` no key without a limit, seed or tags.              *)
Matches(k, r, n) ==
  /\ k.api = r.api
  /\ r.op = "query" /\ n = 1 =>
       r.random = None /\ k.hash = Hashed[Trimmed[r.query]] /\ HasSuffix(k)

(* What the caller wants to be gone.                                       *)
Meant(k, r) ==
  CASE r.op = "delete" -> k = getCacheKey(r.api, r.query, r.random, None, None)
    [] r.op = "query" -> k.api = r.api /\ k.hash = Hashed[Trimmed[r.query]]
    [] OTHER -> k.api = r.api

(* Without a CacheService BaseApiService returns 0 and deletes nothing.    *)
BeginPurge(p) ==
  /\ pc[p] = "idle"
  /\ \E r \in PurgeRequest :
       /\ request' = [request EXCEPT ![p] = r]
       /\ IF WithoutCache(r)
          THEN Finish(p, None)
          ELSE /\ Goto(p, IF r.op = "delete" THEN "delete" ELSE "keys")
               /\ UNCHANGED returned
       /\ due' = [due EXCEPT ![p] =
                    {<<k, store[k]>> :
                       k \in {x \in DOMAIN store : store[x] \in Call /\ Meant(x, r)}}]
  /\ UNCHANGED <<backend, injected, store, faults, fetched, round, listed>>

(* deleteCache.                                                            *)
DeleteOne(p) ==
  /\ pc[p] = "delete"
  /\ \E o \in Reply :
       /\ Command(o)
       /\ IF o = "failed"
          THEN UNCHANGED store
          ELSE Delete({getCacheKey(request[p].api, request[p].query,
                                   request[p].random, None, None)})
       /\ Finish(p, IF o = "ok" THEN None ELSE Thrown)
  /\ UNCHANGED <<backend, injected, request, fetched, purgeVars>>

(* Mutant: one round for a query.                                          *)
RoundOverAtOnce(p) == Finish(p, None) /\ UNCHANGED round

(* BaseApiService empties the whole API after the query's own pattern.     *)
RoundOver(p) ==
  IF request[p].op = "query" /\ round[p] = 1
  THEN Goto(p, "keys") /\ round' = [round EXCEPT ![p] = 2] /\ UNCHANGED returned
  ELSE Finish(p, None) /\ UNCHANGED round

(* CacheService.invalidateCache, which the manager uses, swallows errors;  *)
(* CacheService.invalidate, which BaseApiService uses, rethrows them.      *)
PurgeFailure(p) == IF request[p].op = "prefix" THEN Ignored ELSE Thrown

(* KEYS.  Memcached has no patterns and deletes nothing.                   *)
Found(p) ==
  {k \in DOMAIN store : backend = "redis" /\ Matches(k, request[p], round[p])}
ListKeys(p) ==
  /\ pc[p] = "keys"
  /\ \E o \in {"ok", "failed"} :
       /\ IF backend = "memcached" THEN o = "ok" /\ UNCHANGED faults ELSE Command(o)
       /\ IF o = "failed"
          THEN Finish(p, PurgeFailure(p)) /\ UNCHANGED <<round, listed>>
          ELSE /\ listed' = [listed EXCEPT ![p] = Found(p)]
               /\ IF Found(p) = {} THEN RoundOver(p)
                  ELSE Goto(p, "del") /\ UNCHANGED <<returned, round>>
  /\ UNCHANGED <<backend, injected, store, request, fetched, due>>

(* DEL with what KEYS listed.                                              *)
DeleteListed(p) ==
  /\ pc[p] = "del"
  /\ \E o \in Reply :
       /\ Command(o)
       /\ IF o = "failed" THEN UNCHANGED store ELSE Delete(listed[p])
       /\ IF o = "ok" THEN RoundOver(p)
                    ELSE Finish(p, PurgeFailure(p)) /\ UNCHANGED round
  /\ UNCHANGED <<backend, injected, request, fetched, listed, due>>

----------------------------------------------------------------------------
(* A TTL runs out, or memcached evicts.                                    *)
Expire(k) ==
  /\ k \in DOMAIN store
  /\ Delete({k})
  /\ UNCHANGED <<backend, injected, faults, pc, request, returned, callVars, purgeVars>>

(* Somebody else writes to the key what is not JSON.                       *)
Garble(k) ==
  /\ k \in DOMAIN store
  /\ faults < MaxFaults
  /\ faults' = faults + 1
  /\ Put(k, Garbled)
  /\ UNCHANGED <<backend, injected, pc, request, returned, callVars, purgeVars>>

CallStep(c) == Begin(c) \/ Lookup(c) \/ Fetch(c) \/ Store(c)
PurgeStep(p) == BeginPurge(p) \/ DeleteOne(p) \/ ListKeys(p) \/ DeleteListed(p)

Next ==
  \/ \E c \in Call : CallStep(c)
  \/ \E p \in Purger : PurgeStep(p)
  \/ \E k \in DOMAIN store : Expire(k) \/ Garble(k)

Spec == Init /\ [][Next]_vars

----------------------------------------------------------------------------
(* A response fits a request if it was fetched for the same API and        *)
(* normalised query and the same kind, and, when random, for the same      *)
(* spelling.  Limit and tags are compared where both methods put them into *)
(* the key; responses stored under a TTL instead cannot be told apart.     *)
Fits(made, asked) ==
  /\ made.api = asked.api
  /\ Hashed[Trimmed[made.query]] = Hashed[Trimmed[asked.query]]
  /\ made.random = asked.random
  /\ asked.random => Trimmed[made.query] = Trimmed[asked.query]
  /\ Keyed(asked) /\ Keyed(made) =>
       made.limit = asked.limit /\ made.tags = asked.tags
  /\ ~Keyed(asked) /\ Keyed(made) => made.limit = None /\ made.tags = None
  /\ Keyed(asked) /\ ~Keyed(made) => asked.tags = None

(* What a call is served was fetched for a request it fits, across the     *)
(* three classes that build keys, whatever is purged, expires or fails in  *)
(* between (cache.service.ts getCacheKey and its callers).                 *)
ServedFits ==
  \A c \in Call : pc[c] = "done" /\ returned[c] \in Call =>
    Fits(request[returned[c]], request[c])

(* An invalidation that has a cache to act on: Memcached has no patterns,  *)
(* and BaseApiService does nothing when it was given no CacheService.      *)
Purges(r) ==
  \/ r.op = "delete"
  \/ backend = "redis" /\ ~WithoutCache(r)

(* When an invalidation that has a cache to act on returns without an      *)
(* error, no response it was meant for and that was there when it began is *)
(* left, although it lists and deletes in separate commands while calls go *)
(* on filling the cache (redis-backend.service.ts invalidate).  Of the     *)
(* others it is not true: with Memcached, and in BaseApiService without a  *)
(* CacheService, as DanbooruApiService is built, the caller gets a count   *)
(* of 0 and no error, and everything is left.                              *)
PurgedIsGone ==
  \A p \in Purger :
    pc[p] = "done" /\ returned[p] = None /\ Purges(request[p]) =>
      \A e \in due[p] : Entry(e[1]) # e[2]

(* A call that got a post from the API returns it or throws; only          *)
(* fetchPosts says that nothing was found, and only if the cache failed    *)
(* (base-api.service.ts:111 stands inside the try block).                  *)
FoundIsReturned ==
  \A c \in Call : pc[c] = "done" /\ fetched[c] = c =>
    \/ returned[c] \in {c, Thrown}
    \/ request[c].op = "fetchPosts" /\ (faults > 0 \/ backend = "class")
============================================================================
