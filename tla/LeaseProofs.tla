---------------------------- MODULE LeaseProofs ----------------------------
(* The lease excludes: proofs about module Lease.                          *)
EXTENDS Lease, TLAPS

(* The inductive invariant: whoever is inside with a live grant is the one *)
(* the key names, and a free key names nobody.                             *)
LeaseInv ==
  /\ None \notin inside
  /\ inside \ lapsed \subseteq {holder}

(* LockUtil keeps two clients from holding live grants of one key at once, *)
(* for any set of clients.                                                 *)
THEOREM LeaseExcludes ==
  ASSUME None \notin Client
  PROVE  LeaseSpec => []LeaseExclusive
<1>1. LeaseInit => LeaseInv
  BY DEF LeaseInit, LeaseInv
<1>2. LeaseInv /\ [LeaseNext]_leaseVars => LeaseInv'
  <2> SUFFICES ASSUME LeaseInv, [LeaseNext]_leaseVars
               PROVE  LeaseInv'
    OBVIOUS
  <2>1. ASSUME NEW c \in Client, Grant(c)
        PROVE  LeaseInv'
    BY <2>1 DEF LeaseInv, Grant
  <2>2. ASSUME NEW c \in Client, GrantUnheard(c)
        PROVE  LeaseInv'
    BY <2>2 DEF LeaseInv, GrantUnheard
  <2>3. CASE Expire
    BY <2>3 DEF LeaseInv, Expire
  <2>4. ASSUME NEW clients \in SUBSET inside, Leave(clients)
        PROVE  LeaseInv'
    BY <2>4 DEF LeaseInv, Leave
  <2>5. CASE UNCHANGED leaseVars
    BY <2>5 DEF LeaseInv, leaseVars
  <2> QED
    BY <2>1, <2>2, <2>3, <2>4, <2>5 DEF LeaseNext
<1>3. LeaseInv => LeaseExclusive
  BY DEF LeaseInv, LeaseExclusive
<1> QED
  BY <1>1, <1>2, <1>3, PTL DEF LeaseSpec
============================================================================
