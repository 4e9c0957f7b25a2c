-------------------------- MODULE DanbooruService --------------------------
(***************************************************************************)
(* DanbooruService.processRequest: query lock, rate limit, cache or API,   *)
(* cache invalidation, answer, DLQ.  Every action is one awaited operation *)
(* of the service on behalf of job j.                                      *)
(***************************************************************************)
EXTENDS PipelineState

(* acquireQueryLock stands before the try block: what it throws leaves     *)
(* processRequest and processJob and lands in the consumer's catch.        *)
AcquireQueryLock(j) ==
  /\ pc[j] = "svcLock"
  /\ \E r \in Reply :
       /\ Command(j, r)
       /\ AcquireLock(j, ServiceKey(j), r)
       /\ Goto(j, CASE Threw(r) -> "catchDlq"
                    [] Granted(ServiceKey(j), r) -> "rate"
                    [] OTHER -> "svcBusyAnswer")
  /\ UNCHANGED <<message, tries, post, outcome, streamVars, keyVars, cache>>

(* Mutants: the error is thrown again after the answer; it is not answered *)
(* at all.                                                                 *)
HandleDuplicateRethrowing(j) ==
  /\ pc[j] = "svcBusyAnswer"
  /\ \E r \in Reply : Command(j, r) /\ Respond(j, ErrorEntry(j, Danbooru), r)
  /\ Goto(j, "catchDlq")
  /\ UNCHANGED <<message, tries, post, outcome, held, lapsed, dlq, keyVars,
                 locks, cache>>
HandleDuplicateSilently(j) ==
  /\ pc[j] = "svcBusyAnswer"
  /\ Return(j, "busy")
  /\ UNCHANGED <<message, tries, post, held, lapsed, streamVars, keyVars,
                 linkVars, locks, cache>>

(* handleDuplicateProcessing: publish the error and return; process() then *)
(* reports success.                                                        *)
HandleDuplicateProcessing(j) ==
  /\ pc[j] = "svcBusyAnswer"
  /\ \E r \in Reply :
       /\ Command(j, r)
       /\ Respond(j, ErrorEntry(j, Danbooru), r)
       /\ IF Threw(r) THEN Goto(j, "catchDlq") /\ UNCHANGED outcome
                      ELSE Return(j, "busy")
  /\ UNCHANGED <<message, tries, post, held, lapsed, dlq, keyVars, locks, cache>>

(* The rate limiter's counters are another component's; here its verdict   *)
(* is free.  A refused request returns at once and answers nothing.        *)
CheckRateLimit(j) ==
  /\ pc[j] = "rate"
  /\ \E r \in Reply, allowed \in BOOLEAN :
       /\ Command(j, r)
       /\ Goto(j, CASE Threw(r) -> "svcErrorAnswer"
                    [] allowed -> "cacheGet"
                    [] OTHER -> "svcRelease")
       /\ outcome' = IF Threw(r) \/ allowed
                     THEN outcome ELSE [outcome EXCEPT ![j] = "refused"]
  /\ UNCHANGED <<message, tries, post, held, lapsed, streamVars, keyVars,
                 locks, cache>>

(* May a cache operation throw?  The Redis backend rethrows what the       *)
(* client rejects; another backend fails on its own.                       *)
CacheThrows(j) == IF CacheMayFail THEN BOOLEAN ELSE {~Up(j)}

(* CacheService.getCacheKey of the call's query.                           *)
OneCacheKey(j) == CHOOSE k \in CacheKey : TRUE   \* mutant: the query is left out
CacheKeyFor(j) == CacheKeyOf[query(j)]

(* getOrFetchFromCache: a hit is the stored response as it is, with the    *)
(* jobId of the request that built it.                                     *)
GetFromCache(j) ==
  /\ pc[j] = "cacheGet"
  /\ \E throws \in CacheThrows(j) :
       LET hit == cache[CacheKeyFor(j)]
       IN  /\ post' = IF throws THEN post ELSE [post EXCEPT ![j] = hit]
           /\ Goto(j, CASE throws -> "svcErrorAnswer"
                        [] ~throws /\ hit = None -> "fetch"
                        [] OTHER -> "purge")
  /\ UNCHANGED <<message, tries, outcome, held, lapsed, streamVars, keyVars,
                 linkVars, locks, cache>>

(* BaseApiService.fetchPosts: a post or null.  It turns each of its own     *)
(* failures into null, when the retries of its HTTP client are used up.    *)
FetchResults == BOOLEAN

(* Mutant: a query without a post is tried again, from the cache on.       *)
FetchUntilFound(j) ==
  /\ pc[j] = "fetch"
  /\ \E found \in FetchResults :
       /\ post' = IF found THEN [post EXCEPT ![j] = j] ELSE post
       /\ Goto(j, IF found THEN "cacheSet" ELSE "cacheGet")
  /\ UNCHANGED <<message, tries, outcome, held, lapsed, streamVars, keyVars,
                 linkVars, locks, cache>>

(* fetchAndBuildResponse turns null into an exception.                     *)
FetchPost(j) ==
  /\ pc[j] = "fetch"
  /\ \E found \in FetchResults :
       /\ post' = IF found THEN [post EXCEPT ![j] = j] ELSE post
       /\ Goto(j, IF found THEN "cacheSet" ELSE "svcErrorAnswer")
  /\ UNCHANGED <<message, tries, outcome, held, lapsed, streamVars, keyVars,
                 linkVars, locks, cache>>

(* A SET that throws may have been executed, unless the client has ended.  *)
SetCache(j) ==
  /\ pc[j] = "cacheSet"
  /\ \E throws \in CacheThrows(j), written \in BOOLEAN :
       /\ ~throws => written
       /\ written => Up(j) \/ CacheMayFail
       /\ cache' = IF written THEN [cache EXCEPT ![CacheKeyFor(j)] = post[j]]
                   ELSE cache
       /\ Goto(j, IF throws THEN "svcErrorAnswer" ELSE "purge")
  /\ UNCHANGED <<message, tries, post, outcome, held, lapsed, streamVars,
                 keyVars, linkVars, locks>>

(* CacheService.invalidateCache deletes what a pattern matches; a deletion *)
(* that fails is logged and leaves what it did not reach.                  *)
Invalidated(j) == SUBSET Purge[query(j)]

(* performCacheInvalidation, once per tag and once for random queries.     *)
InvalidateCache(j) ==
  /\ pc[j] = "purge"
  /\ \E purged \in Invalidated(j) :
       cache' = [k \in CacheKey |-> IF k \in purged THEN None ELSE cache[k]]
  /\ Goto(j, "publish")
  /\ UNCHANGED <<message, tries, post, outcome, held, lapsed, streamVars,
                 keyVars, linkVars, locks>>

(* Mutant: caching after the publication, where a failure finds the error  *)
(* handler.                                                                *)
PublishBeforeCaching(j) ==
  /\ pc[j] = "publish"
  /\ \E r \in Reply, throws \in CacheThrows(j) :
       /\ Command(j, r)
       /\ Respond(j, SuccessEntry(j), r)
       /\ Goto(j, IF Threw(r) \/ throws THEN "svcErrorAnswer" ELSE "svcRelease")
       /\ outcome' = IF Threw(r) \/ throws THEN outcome
                     ELSE [outcome EXCEPT ![j] = "posted"]
  /\ UNCHANGED <<message, tries, post, held, lapsed, dlq, keyVars, locks, cache>>

(* publishResponse on danbooru:responses.                                  *)
PublishResponse(j) ==
  /\ pc[j] = "publish"
  /\ \E r \in Reply :
       /\ Command(j, r)
       /\ Respond(j, SuccessEntry(j), r)
       /\ Goto(j, IF Threw(r) THEN "svcErrorAnswer" ELSE "svcRelease")
       /\ outcome' = IF Threw(r) THEN outcome
                     ELSE [outcome EXCEPT ![j] = "posted"]
  /\ UNCHANGED <<message, tries, post, held, lapsed, dlq, keyVars, locks, cache>>

(* The finally of processRequest after a return of the try block.          *)
ReleaseQueryLock(j) ==
  /\ pc[j] = "svcRelease"
  /\ \E r \in Reply : Command(j, r) /\ ReleaseLock(j, ServiceKey(j), r)
  /\ Return(j, outcome[j])
  /\ UNCHANGED <<message, tries, post, streamVars, keyVars, cache>>

(* handleErrorAndPublish is returned without await from inside the try     *)
(* statement: its XADD and the finally's EVAL leave in one pipeline, and   *)
(* the DLQ entry is written only after both were answered.  So the order   *)
(* in Redis is answer, release, DLQ entry, whatever the answer's fate.     *)
HandleErrorAndPublish(j) ==
  /\ pc[j] = "svcErrorAnswer"
  /\ \E r \in Reply :
       /\ Command(j, r)
       /\ Respond(j, ErrorEntry(j, Danbooru), r)
       /\ outcome' = [outcome EXCEPT ![j] =
                        IF Threw(r) THEN "thrown" ELSE "svcFailed"]
  /\ Goto(j, "svcErrorRelease")
  /\ UNCHANGED <<message, tries, post, held, lapsed, dlq, keyVars, locks, cache>>

ReleaseAfterError(j) ==
  /\ pc[j] = "svcErrorRelease"
  /\ \E r \in Reply : Command(j, r) /\ ReleaseLock(j, ServiceKey(j), r)
  /\ Goto(j, IF outcome[j] = "thrown" THEN "catchDlq" ELSE "svcErrorDlq")
  /\ UNCHANGED <<message, tries, post, outcome, streamVars, keyVars, cache>>

ServiceAddToDLQ(j) ==
  /\ pc[j] = "svcErrorDlq"
  /\ \E failed \in BOOLEAN :
       /\ AddToDLQ(j, Danbooru, failed)
       /\ IF failed THEN Goto(j, "catchDlq") /\ UNCHANGED outcome
                    ELSE Return(j, "svcFailed")
  /\ UNCHANGED <<message, tries, post, held, lapsed, responses, keyVars, locks,
                 cache>>

ServiceStep(j) ==
  \/ AcquireQueryLock(j)
  \/ HandleDuplicateProcessing(j)
  \/ CheckRateLimit(j)
  \/ GetFromCache(j)
  \/ FetchPost(j)
  \/ SetCache(j)
  \/ InvalidateCache(j)
  \/ PublishResponse(j)
  \/ ReleaseQueryLock(j)
  \/ HandleErrorAndPublish(j)
  \/ ReleaseAfterError(j)
  \/ ServiceAddToDLQ(j)
============================================================================
