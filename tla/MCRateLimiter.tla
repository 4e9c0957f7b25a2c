--------------------------- MODULE MCRateLimiter ---------------------------
(* Instances of RateLimiter for TLC.                                       *)
EXTENDS RateLimiter

CONSTANTS u, c1

(* One window type, as DanbooruService uses it: three seconds, two         *)
(* requests.                                                               *)
OneWindow == {"minute"}
OneSeconds == [w \in Window |-> 3]
OneLimit == [w \in Window |-> 2]

(* A composite check that names the same identifier twice.                 *)
MCIdentifiersOf == [c \in Composite |-> <<u, u>>]
MCWindowOf == [c \in Composite |-> "minute"]

(* Admissions a whole window old or older satisfy BurstBound against every *)
(* later one, and no action reads them: states that differ only in them    *)
(* are explored once.  (The equation makes TLC evaluate the history, which *)
(* it could not store otherwise.)                                          *)
YoungAdmissions ==
  LET young(t) == t + Seconds["minute"] > now
  IN  [k \in Counter |-> SelectSeq(admissions[k], young)]
View == <<now, counterVars, todo, passed, admitted, unheard, refusal,
          YoungAdmissions, admissions = admissions>>
============================================================================
