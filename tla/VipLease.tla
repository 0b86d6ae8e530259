------------------------------ MODULE VipLease ------------------------------
(***************************************************************************)
(* What an overlay server (stunvpv.Server, n2n.Supernode) promises about   *)
(* the virtual addresses it hands out, without packets or goroutines: an   *)
(* address is granted to one endpoint at a time, and an endpoint works     *)
(* under an address it was granted.                                        *)
(*                                                                         *)
(* Both servers take addresses back without telling the endpoint (the      *)
(* five-minute cleanup, a restart), so an endpoint may outlive its grant.  *)
(* `recycled' remembers the addresses that were ever taken back; the       *)
(* promise is about the others.                                            *)
(***************************************************************************)
CONSTANTS Vips,       \* the addresses of the allocator's pool
          Endpoints,  \* the sockets that may register
          NoVip,      \* "works under no address"
          NoOne       \* "granted to no endpoint"

VARIABLES holder,    \* Vips -> the endpoint the address is granted to
          recycled,  \* the addresses ever taken back from an endpoint
          working    \* Endpoints -> the address it works under

leaseVars == <<holder, recycled, working>>

LeaseTypeOK ==
  /\ holder \in [Vips -> Endpoints \cup {NoOne}]
  /\ recycled \in SUBSET Vips
  /\ working \in [Endpoints -> Vips \cup {NoVip}]

LeaseInit ==
  /\ holder = [v \in Vips |-> NoOne]
  /\ recycled = {}
  /\ working = [e \in Endpoints |-> NoVip]

Grant(v, e) ==
  /\ holder[v] = NoOne
  /\ holder' = [holder EXCEPT ![v] = e]
  /\ UNCHANGED <<recycled, working>>

Reclaim(S) ==
  /\ holder' = [v \in Vips |-> IF v \in S THEN NoOne ELSE holder[v]]
  /\ recycled' = recycled \cup S
  /\ UNCHANGED working

Adopt(e, v) ==
  /\ v \in recycled \/ holder[v] = e
  /\ working' = [working EXCEPT ![e] = v]
  /\ UNCHANGED <<holder, recycled>>

Leave(e) ==
  /\ working' = [working EXCEPT ![e] = NoVip]
  /\ UNCHANGED <<holder, recycled>>

LeaseNext ==
  \/ \E v \in Vips, e \in Endpoints : Grant(v, e) \/ Adopt(e, v)
  \/ \E S \in SUBSET Vips : Reclaim(S)
  \/ \E e \in Endpoints : Leave(e)

LeaseSpec == LeaseInit /\ [][LeaseNext]_leaseVars

\* Two endpoints work under one address only if the server took it back
\* from one of them: the address allocator's promise.
SingleHolder ==
  \A d, e \in Endpoints :
    d # e /\ working[d] = working[e] /\ working[d] # NoVip
      => working[d] \in recycled
=============================================================================
