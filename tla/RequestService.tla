--------------------------- MODULE RequestService ---------------------------
(***************************************************************************)
(* What the pipeline promises to those around it, without a word about     *)
(* locks, streams or caches.  A call gives a verdict on its request once   *)
(* and keeps to it, returns only with a verdict or a named excuse, and     *)
(* rejects only for a named cause; a message is completed by a call that   *)
(* returned and requeued by one that rejected, or by BullMQ itself.        *)
(***************************************************************************)
CONSTANTS
  Call,      \* calls of the processor
  Message,   \* the messages they are handed
  None

VARIABLES
  of,        \* the message each call was handed
  stage,     \* how far each call is
  verdict,   \* what it told the client and the DLQ about its request
  excuses,   \* what may keep it from its duty
  status     \* of each message in BullMQ

serviceVars == <<of, stage, verdict, excuses, status>>

Stage == {"none", "working", "returned", "rejected", "dead"}
Verdict == {{}, {"posted"}, {"failed"}}   \* never both

(* A request the rate limiter refused, or whose claim Redis executed       *)
(* twice, is returned without a word.                                      *)
Silent == {"refused", "resentClaim"}
(* Data without a query, a missing key and an ended client make a call     *)
(* reject.                                                                 *)
Rejecting == {"malformed", "noKey", "clientEnded"}

ServiceInit ==
  /\ of = [c \in Call |-> None]
  /\ stage = [c \in Call |-> "none"]
  /\ verdict = [c \in Call |-> {}]
  /\ excuses \in [Call -> SUBSET (Silent \union Rejecting)]
  /\ status = [m \in Message |-> "waiting"]

(* An excuse is never taken back.                                          *)
ExcusesGrow ==
  /\ excuses' \in [Call -> SUBSET (Silent \union Rejecting)]
  /\ \A c \in Call : excuses[c] \subseteq excuses'[c]

(* A call is at work or ends, as its verdict and its excuses allow.        *)
MayBe(c) ==
  \/ stage[c] = "working"
  \/ stage[c] = "returned"
     /\ (verdict[c] # {} \/ excuses[c] \intersect Silent # {})
  \/ stage[c] = "rejected" /\ excuses[c] \intersect Rejecting # {}

OthersStay(c) ==
  /\ stage' \in [Call -> Stage]
  /\ verdict' \in [Call -> Verdict]
  /\ \A d \in Call \ {c} : stage'[d] = stage[d] /\ verdict'[d] = verdict[d]

Hand(m, c) ==
  /\ status[m] = "waiting"
  /\ stage[c] = "none"
  /\ of' = [of EXCEPT ![c] = m]
  /\ status' = [status EXCEPT ![m] = "active"]
  /\ OthersStay(c)
  /\ verdict'[c] = verdict[c]
  /\ ExcusesGrow
  /\ MayBe(c)'

(* A verdict is given once.                                                *)
Work(c) ==
  /\ stage[c] = "working"
  /\ UNCHANGED <<of, status>>
  /\ OthersStay(c)
  /\ verdict[c] \in {{}, verdict'[c]}
  /\ ExcusesGrow
  /\ MayBe(c)'

(* Calls die with their process.                                           *)
Die ==
  /\ UNCHANGED <<of, verdict, status>>
  /\ stage' \in [Call -> Stage]
  /\ \A c \in Call :
       \/ stage'[c] = stage[c]
       \/ stage[c] = "working" /\ stage'[c] = "dead"
  /\ ExcusesGrow

(* BullMQ settles a message by what one of its calls did, or loses sight   *)
(* of it.                                                                  *)
Complete(m) ==
  /\ status[m] = "active"
  /\ \E c \in Call : of[c] = m /\ stage[c] = "returned"
  /\ status' = [status EXCEPT ![m] = "completed"]
  /\ UNCHANGED <<of, stage, verdict, excuses>>

GiveUp(m) ==
  /\ status[m] = "active"
  /\ \E s \in {"waiting", "failed"} : status' = [status EXCEPT ![m] = s]
  /\ UNCHANGED <<of, stage, verdict, excuses>>

ServiceNext ==
  \/ \E c \in Call : Work(c)
  \/ \E m \in Message : Complete(m) \/ GiveUp(m) \/ \E c \in Call : Hand(m, c)
  \/ Die

ServiceSpec == ServiceInit /\ [][ServiceNext]_serviceVars
=============================================================================
