-------------------------- MODULE MCResponseCache --------------------------
(* Instances of ResponseCache for TLC.                                     *)
EXTENDS ResponseCache

(* "cat" is spelled in three ways: two with one trimmed text, three with   *)
(* one hash.  1 is a limit and a TTL.                                      *)
MCQuery == {"cat", " cat", "CAT", "dog"}
MCText == {"cat", "CAT", "dog"}
MCTrimmed == [q \in MCQuery |-> IF q = " cat" THEN "cat" ELSE q]
MCHash == {"hcat", "hdog"}
MCHashed == [t \in MCText |-> IF t = "dog" THEN "hdog" ELSE "hcat"]

Ask(op, query, random, limit, tags, ttl) ==
  [op |-> op, api |-> "danbooru", query |-> query, random |-> random,
   limit |-> limit, tags |-> tags, ttl |-> ttl]
MCRequest ==
  {Ask("getOrSet", "cat", FALSE, None, None, None),
   Ask("getOrSet", " cat", TRUE, 1, "t", 1),
   Ask("getOrSet", "CAT", TRUE, 1, "t", 1),
   Ask("getOrFetch", "cat", TRUE, 1, "t", None),
   Ask("getOrSet", "cat", FALSE, 1, "t", None),
   Ask("getOrSet", "cat", FALSE, 1, None, None),
   Ask("generic", "CAT", FALSE, None, None, 1),
   Ask("generic", "dog", FALSE, None, None, None),
   Ask("fetchPosts", "cat", FALSE, 1, None, None),
   Ask("fetchPosts", "cat", TRUE, 1, None, None),
   Ask("put", "cat", TRUE, None, None, 1)}
    \union {[Ask("getOrSet", "cat", FALSE, None, None, None)
               EXCEPT !.api = "gelbooru"]}

Flush(op, query, random) ==
  [op |-> op, api |-> "danbooru", query |-> query, random |-> random]
MCPurgeRequest ==
  {Flush("delete", "CAT", FALSE), Flush("prefix", "cat", None),
   Flush("query", "cat", None), Flush("query", "cat", TRUE),
   Flush("api", "cat", None)}
============================================================================
