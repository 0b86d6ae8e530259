-------------------------- MODULE VipLease_proofs --------------------------
(***************************************************************************)
(* The address lease keeps its promise, for every pool and every set of    *)
(* endpoints: so does whatever implements it.  And what both allocators    *)
(* rest on: their loop over the pool finds an address whenever one is free.*)
(***************************************************************************)
EXTENDS VipLease, Naturals, NaturalsInduction, WellFoundedInduction, TLAPS

\* A non-empty set of numbers has a least one: what allocate's loop finds.
LEMMA LeastExists ==
  ASSUME NEW S \in SUBSET Nat, S # {}
  PROVE  \E x \in S : \A y \in S : x <= y
<1>1. IsWellFoundedOn(OpToRel(<, Nat), Nat)
  BY NatLessThanWellFounded
<1>2. PICK x \in S : \A y \in S : ~(<<y, x>> \in OpToRel(<, Nat))
  BY <1>1, WFMin, Zenon
<1>3. \A y \in S : ~(y < x)
  BY <1>2 DEF OpToRel
<1>4. \A y \in S : x <= y
  BY <1>3
<1> QED
  BY <1>4

\* Whoever works under an address has it granted, or it was taken back.
Granted ==
  \A e \in Endpoints :
    working[e] = NoVip \/ working[e] \in recycled \/ holder[working[e]] = e

LeaseInv == LeaseTypeOK /\ Granted

\* At first nobody works under an address.
LEMMA InitLeaseInv == LeaseInit => LeaseInv
BY DEF LeaseInit, LeaseInv, LeaseTypeOK, Granted

\* Every step of the lease keeps what it promises.
LEMMA NextLeaseInv ==
  ASSUME NoOne \notin Endpoints, LeaseInv, [LeaseNext]_leaseVars
  PROVE  LeaseInv'
<1> USE DEF LeaseInv, LeaseTypeOK, Granted
<1>1. CASE \E v \in Vips, e \in Endpoints : Grant(v, e)
  BY <1>1 DEF Grant
<1>2. CASE \E v \in Vips, e \in Endpoints : Adopt(e, v)
  BY <1>2 DEF Adopt
<1>3. CASE \E S \in SUBSET Vips : Reclaim(S)
  BY <1>3 DEF Reclaim
<1>4. CASE \E e \in Endpoints : Leave(e)
  BY <1>4 DEF Leave
<1>5. CASE UNCHANGED leaseVars
  BY <1>5 DEF leaseVars
<1> QED
  BY <1>1, <1>2, <1>3, <1>4, <1>5 DEF LeaseNext

\* Two endpoints work under one address only after it was taken back.
THEOREM LeaseSingleHolder ==
  ASSUME NoOne \notin Endpoints
  PROVE  LeaseSpec => []SingleHolder
<1>1. LeaseInv => SingleHolder
  BY DEF LeaseInv, Granted, SingleHolder
<1> QED
  BY <1>1, InitLeaseInv, NextLeaseInv, PTL DEF LeaseSpec
=============================================================================
