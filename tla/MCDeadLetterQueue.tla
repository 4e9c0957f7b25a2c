------------------------- MODULE MCDeadLetterQueue -------------------------
(* Instances of DeadLetterQueue for TLC.                                   *)
EXTENDS DeadLetterQueue

CONSTANTS d1, d2, p1, p2

(* Entries 1 and 3 are failures of one query.                              *)
MCQueryOf == [e \in Entry |-> IF e = 2 THEN "q2" ELSE "q1"]

(* The fields addToDLQ writes, and those of the entries in the tests of    *)
(* DlqConsumer, which have the field it looks for.                         *)
WrittenFields == {"jobId", "error", "encryptedQuery", "queryHash",
                  "retryCount", "apiName"}
TestedFields == WrittenFields \union {"query", "queryLength", "originalError"}
============================================================================
