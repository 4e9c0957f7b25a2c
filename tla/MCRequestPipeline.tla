------------------------- MODULE MCRequestPipeline -------------------------
(* Instances of RequestPipeline for TLC.                                   *)
EXTENDS RequestPipeline

CONSTANTS j1, j2, j3, j4, w1, w2, m1, m2, m3, m4, m5, m6

(* Two worker processes; the second call runs in the second one.           *)
TwoWorkers == {w1, w2}
MCWorkerOf == [j \in Job |-> IF j = j2 THEN w2 ELSE w1]

(* One worker process for every call.                                     *)
OneWorker == {w1}
OneWorkerOf == [j \in Job |-> w1]

(* One query under one API prefix, for every message.                      *)
MCQuery == {"cat"}
MCQueryOf == [m \in Message |-> "cat"]
MCPrefix == {"danbooru"}
MCPrefixOf == [m \in Message |-> "danbooru"]
MCCacheKey == {"kcat", "kdog"}
MCCacheKeyOf == [q \in Query |-> IF q = "dog" THEN "kdog" ELSE "kcat"]
(* The patterns of the code match none of its keys; the documented ones    *)
(* would match the query's own.                                            *)
NoPurge == [q \in Query |-> {}]
OwnPurge == [q \in Query |-> {CacheKeyOf[q]}]

(* Three queries, two of which differ in surrounding blanks only: three    *)
(* lock keys of the service, two cache keys.  Two spellings of one prefix  *)
(* and an API nobody serves; the sixth message is malformed.               *)
ManyQuery == {"cat", " cat", "dog"}
ManyQueryOf ==
  [m \in Message |-> CASE m = m2 -> " cat" [] m = m3 -> "dog" [] OTHER -> "cat"]
ManyPrefix == {"danbooru", "Danbooru", "gelbooru"}
ManyPrefixOf ==
  [m \in Message |-> CASE m \in {m3, m4} -> "Danbooru" [] m = m5 -> "gelbooru"
                       [] OTHER -> "danbooru"]
ManySupported == {"danbooru", "Danbooru"}
============================================================================
