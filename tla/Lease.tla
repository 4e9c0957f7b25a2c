------------------------------- MODULE Lease -------------------------------
(***************************************************************************)
(* What one lock key of LockUtil promises its clients.  The key is granted *)
(* only while free; it frees itself when its time is up, with or without   *)
(* its client knowing; a client that leaves frees its own grant or leaves  *)
(* the key to expire, and never frees another client's grant.              *)
(***************************************************************************)
CONSTANTS
  Client,
  None       \* a free key names no client

VARIABLES
  holder,    \* the client whose value the key stores
  inside,    \* the clients that were told they hold the key
  lapsed     \* the ones among them whose grant expired meanwhile

leaseVars == <<holder, inside, lapsed>>

LeaseInit ==
  /\ holder = None
  /\ inside = {}
  /\ lapsed = {}

Grant(c) ==
  /\ holder = None
  /\ holder' = c
  /\ inside' = inside \union {c}
  /\ UNCHANGED lapsed

(* The key is set, but its client never learns that it was.                *)
GrantUnheard(c) ==
  /\ holder = None
  /\ holder' = c
  /\ UNCHANGED <<inside, lapsed>>

Expire ==
  /\ holder # None
  /\ holder' = None
  /\ lapsed' = lapsed \union (inside \intersect {holder})
  /\ UNCHANGED inside

(* Clients leave, several when their process dies.  One that leaves by     *)
(* itself may free the key, if the grant is still its own.                 *)
Leave(clients) ==
  /\ clients \subseteq inside
  /\ inside' = inside \ clients
  /\ lapsed' = lapsed \ clients
  /\ holder' = holder \/ (holder' = None /\ clients = {holder})

LeaseNext ==
  \/ \E c \in Client : Grant(c) \/ GrantUnheard(c)
  \/ Expire
  \/ \E clients \in SUBSET inside : Leave(clients)

LeaseSpec == LeaseInit /\ [][LeaseNext]_leaseVars

(* At most one client inside has a grant that has not expired.             *)
LeaseExclusive ==
  \A c, d \in inside \ lapsed : c = d
============================================================================
