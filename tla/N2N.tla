-------------------------------- MODULE N2N --------------------------------
(***************************************************************************)
(* The virtual LAN of n2n/: one Supernode, which hands out addresses and   *)
(* tells edges about each other, and the Edges, which send data straight   *)
(* to one another.                                                         *)
(*                                                                         *)
(* An edge is named by its UDP endpoint: it listens on the fixed port of   *)
(* its configuration, so an edge started again has the endpoint it had and *)
(* is given a second address.  Every packet is handled by a goroutine of   *)
(* its own; `tasks' holds what is left of handleRegister after a lock is   *)
(* released.  The network loses, delays, reorders and duplicates packets.  *)
(*                                                                         *)
(* Left out: Supernode.addrIndex, which nothing reads; the P2PConnect      *)
(* handshake, which no edge ever starts; encryption and the community name *)
(* (one community).  Time is abstracted: heartbeats may be lost for five   *)
(* minutes at any moment, so cleanup may find any set of entries stale.    *)
(***************************************************************************)
EXTENDS Naturals, FiniteSets

CONSTANTS Edges,     \* UDP endpoints edges are started on
          Pool,      \* number of addresses allocate() can hand out (10..254 there)
          NoOne,     \* "no endpoint"
          Super,     \* the supernode's endpoint
          MaxNet,    \* bound: packets in flight
          MaxTasks,  \* bound: handlers between two critical sections
          MaxFrames  \* bound: host packets on their way

ASSUME N2NAssumption ==
  /\ NoOne \notin Edges /\ Super \notin Edges /\ NoOne # Super
  /\ Pool \in Nat /\ MaxNet \in Nat /\ MaxTasks \in Nat /\ MaxFrames \in Nat

Vips == 1 .. Pool

NoVip == 0

VARIABLES
  up,       \* the supernode process runs
  used,     \* ipAllocator.used
  peers,    \* Supernode.peers: address -> RealAddr of its entry, or NoOne
  tasks,    \* what is left of packet handlers
  phase,    \* where each edge's Start is
  vip,      \* Edge.virtualIP
  routes,   \* Edge.peers: address -> RealAddr, or NoOne
  net,      \* packets in flight
  owner,    \* history: the endpoint an address in use was allocated for
  recycled  \* history: the addresses ever released, or lost in a restart

supernode == <<up, used, peers, tasks>>
edge      == <<phase, vip, routes>>
history   == <<owner, recycled>>
vars      == <<supernode, edge, net, history>>

\* A peer list: who is where.
Entry == [vip : Vips, addr : Edges]

Request ==
  [type : {"register"}, from : Edges]
  \cup [type : {"bye"}, from : Edges, vip : Vips]
  \cup [type : {"data"}, from : Edges, to : {Super}, dst : Vips]

Answer ==
  [type : {"ack"}, to : Edges, vip : Vips]
  \cup [type : {"update", "peers"}, to : Edges, list : SUBSET Entry]
  \cup [type : {"data"}, from : Edges, to : Edges, dst : Vips]

Task == [op : {"install", "broadcast"}, vip : Vips, addr : Edges]

NoRoutes == [v \in Vips |-> NoOne]

Addrs == Edges \cup {NoOne}

TypeOK ==
  /\ up \in BOOLEAN
  /\ used \in SUBSET Vips
  /\ peers \in [Vips -> Addrs]
  /\ tasks \in SUBSET Task
  /\ phase \in [Edges -> {"off", "registering", "running"}]
  /\ vip \in [Edges -> Vips \cup {NoVip}]
  /\ \A e \in Edges : phase[e] = "running" <=> vip[e] # NoVip
  /\ routes \in [Edges -> [Vips -> Addrs]]
  /\ net \in SUBSET (Request \cup Answer)
  /\ owner \in [Vips -> Addrs]
  /\ recycled \in SUBSET Vips

Init ==
  /\ up = TRUE
  /\ used = {}
  /\ peers = NoRoutes
  /\ tasks = {}
  /\ phase = [e \in Edges |-> "off"]
  /\ vip = [e \in Edges |-> NoVip]
  /\ routes = [e \in Edges |-> NoRoutes]
  /\ net = {}
  /\ owner = NoRoutes
  /\ recycled = {}

-----------------------------------------------------------------------------
(* The network. *)

\* What is in flight after `out' is sent: UDP drops it when the queue is full.
Sent(base, out) ==
  IF Cardinality(base \cup out) <= MaxNet THEN base \cup out ELSE base

\* A packet that is delivered is gone, or it was a duplicate and stays.
Taken(m) == {net \ {m}, net}

IsRequest(m) == m \in Request

\* Lost on the way, or refused by a host whose port is closed.
Lose(m) ==
  /\ net' = net \ {m}
  /\ UNCHANGED <<supernode, edge, history>>

-----------------------------------------------------------------------------
(* The supernode: handlePacket, one goroutine per packet. *)

Registered == {v \in Vips : peers[v] # NoOne}

Entries == {[vip |-> v, addr |-> peers[v]] : v \in Registered}

\* allocate: the first address not in use.
Free == Vips \ used

FirstFree == CHOOSE v \in Free : \A w \in Free : v <= w

\* Mutants, here and below, are slips the runs must notice; no action uses them.
HandleRegisterUnmarked(m) ==
  /\ up /\ Cardinality(tasks) < MaxTasks
  /\ m.type = "register"
  /\ net' \in Taken(m)
  /\ IF Free = {}
     THEN UNCHANGED <<used, tasks, owner>>
     ELSE /\ used' = used
          /\ owner' = [owner EXCEPT ![FirstFree] = m.from]
          /\ tasks' = tasks \cup {[op |-> "install", vip |-> FirstFree, addr |-> m.from]}
  /\ UNCHANGED <<up, peers, edge, recycled>>

\* handleRegister: every register, a repeated one too, allocates an address,
\* under the allocator's lock; without a free one it ends unanswered.
HandleRegister(m) ==
  /\ up /\ Cardinality(tasks) < MaxTasks
  /\ m.type = "register"
  /\ net' \in Taken(m)
  /\ IF Free = {}
     THEN UNCHANGED <<used, tasks, owner>>
     ELSE /\ used' = used \cup {FirstFree}
          /\ owner' = [owner EXCEPT ![FirstFree] = m.from]
          /\ tasks' = tasks \cup {[op |-> "install", vip |-> FirstFree, addr |-> m.from]}
  /\ UNCHANGED <<up, peers, edge, recycled>>

\* The entry, under the supernode's lock, the ack, and a goroutine for
\* broadcastPeerUpdate. The ack carries a peer list no edge ever reads: its
\* two-byte length is read as one byte, which is 0.
Install(t) ==
  /\ up /\ t.op = "install"
  /\ peers' = [peers EXCEPT ![t.vip] = t.addr]
  /\ net' = Sent(net, {[type |-> "ack", to |-> t.addr, vip |-> t.vip]})
  /\ tasks' = (tasks \ {t}) \cup {[t EXCEPT !.op = "broadcast"]}
  /\ UNCHANGED <<up, used, edge, history>>

BroadcastCurrent(t) ==
  /\ up /\ t.op = "broadcast"
  /\ tasks' = tasks \ {t}
  /\ net' = Sent(net, {[type |-> "update", to |-> a, list |-> {[vip |-> t.vip, addr |-> a]}] :
                         a \in {peers[v] : v \in Registered} \ {t.addr}})
  /\ UNCHANGED <<up, used, peers, edge, history>>

\* broadcastPeerUpdate: the new entry, to every peer at another endpoint.
Broadcast(t) ==
  /\ up /\ t.op = "broadcast"
  /\ tasks' = tasks \ {t}
  /\ net' = Sent(net, {[type |-> "update", to |-> a, list |-> {[vip |-> t.vip, addr |-> t.addr]}] :
                         a \in {peers[v] : v \in Registered} \ {t.addr}})
  /\ UNCHANGED <<up, used, peers, edge, history>>

Forget(S) ==
  /\ used' = used \ S
  /\ peers' = [v \in Vips |-> IF v \in S THEN NoOne ELSE peers[v]]
  /\ owner' = [v \in Vips |-> IF v \in S THEN NoOne ELSE owner[v]]
  /\ recycled' = recycled \cup S

\* handleBye: the entry of the address the packet names, whoever sent it.
HandleBye(m) ==
  /\ up
  /\ m.type = "bye"
  /\ net' \in Taken(m)
  /\ Forget({m.vip} \cap Registered)
  /\ UNCHANGED <<up, tasks, edge>>

\* handlePacket's switch has no case for data.
HandleData(m) ==
  /\ up
  /\ m.type = "data"
  /\ net' \in Taken(m)
  /\ UNCHANGED <<supernode, edge, history>>

\* cleanup: the entries without a heartbeat for five minutes.
Cleanup(expired) ==
  /\ up /\ expired # {} /\ expired \subseteq Registered
  /\ Forget(expired)
  /\ UNCHANGED <<up, tasks, edge, net>>

\* Nothing is persisted.
Crash ==
  /\ up
  /\ up' = FALSE
  /\ used' = {} /\ tasks' = {}
  /\ peers' = NoRoutes
  /\ owner' = NoRoutes
  /\ recycled' = recycled \cup used
  /\ UNCHANGED <<edge, net>>

Restart ==
  /\ ~up
  /\ up' = TRUE
  /\ UNCHANGED <<used, peers, tasks, edge, net, history>>

-----------------------------------------------------------------------------
(* The edges. *)

\* A new process: NewEdge, then Start up to register's read.
Start(e) ==
  /\ phase[e] = "off"
  /\ phase' = [phase EXCEPT ![e] = "registering"]
  /\ routes' = [routes EXCEPT ![e] = NoRoutes]
  /\ net' = Sent(net, {[type |-> "register", from |-> e]})
  /\ UNCHANGED <<supernode, vip, history>>

\* register adopts the address of the first packet if it is an ack (a late
\* one, for the process that had the port before, as well) ...
Adopt(m) ==
  /\ phase[m.to] = "registering" /\ m.type = "ack"
  /\ net' \in Taken(m)
  /\ phase' = [phase EXCEPT ![m.to] = "running"]
  /\ vip' = [vip EXCEPT ![m.to] = m.vip]
  /\ UNCHANGED <<supernode, routes, history>>

\* ... and fails otherwise, or after ten seconds without a packet.
RegisterFails(m) ==
  /\ phase[m.to] = "registering" /\ m.type # "ack"
  /\ net' \in Taken(m)
  /\ phase' = [phase EXCEPT ![m.to] = "off"]
  /\ UNCHANGED <<supernode, vip, routes, history>>

RegisterTimeout(e) ==
  /\ phase[e] = "registering"
  /\ phase' = [phase EXCEPT ![e] = "off"]
  /\ UNCHANGED <<supernode, vip, routes, net, history>>

LearnOwn(m) ==
  /\ phase[m.to] = "running" /\ m.type \in {"update", "peers"}
  /\ net' \in Taken(m)
  /\ routes' = [routes EXCEPT ![m.to] =
                  [v \in Vips |-> IF \E p \in m.list : p.vip = v
                                  THEN (CHOOSE p \in m.list : p.vip = v).addr
                                  ELSE routes[m.to][v]]]
  /\ UNCHANGED <<supernode, phase, vip, history>>

\* handlePeerList and handleHeartbeatAck: every entry but one's own replaces
\* what was known; nothing removes an entry.
Learn(m) ==
  /\ phase[m.to] = "running" /\ m.type \in {"update", "peers"}
  /\ net' \in Taken(m)
  /\ routes' = [routes EXCEPT ![m.to] =
                  [v \in Vips |->
                     IF v # vip[m.to] /\ \E p \in m.list : p.vip = v
                     THEN (CHOOSE p \in m.list : p.vip = v).addr
                     ELSE routes[m.to][v]]]
  /\ UNCHANGED <<supernode, phase, vip, history>>

\* handleData hands the payload to onData, for whichever address it was sent;
\* an ack that is late meets no case.
Receive(m) ==
  /\ phase[m.to] = "running" /\ m.type \in {"data", "ack"}
  /\ net' \in Taken(m)
  /\ UNCHANGED <<supernode, edge, history>>

\* A packet to an edge that has no socket.
Refuse(m) ==
  /\ phase[m.to] = "off"
  /\ net' = net \ {m}
  /\ UNCHANGED <<supernode, edge, history>>

HeartbeatIfKnown(e) ==
  /\ up /\ phase[e] = "running"
  /\ peers[vip[e]] # NoOne
  /\ net' = Sent(net, {[type |-> "peers", to |-> e, list |-> Entries]})
  /\ UNCHANGED <<supernode, edge, history>>

\* sendHeartbeat and handleHeartbeat: whether or not the address has an entry
\* (whose lastSeen it refreshes), the answer is the whole peer list; a forgotten
\* edge stays forgotten. The heartbeat's own way is not modelled: it carries
\* nothing that could get old, and its answer may be late.
Heartbeat(e) ==
  /\ up /\ phase[e] = "running"
  /\ net' = Sent(net, {[type |-> "peers", to |-> e, list |-> Entries]})
  /\ UNCHANGED <<supernode, edge, history>>

\* SendTo: to the endpoint known for the address, else to the supernode.
SendTo(e, v) ==
  /\ phase[e] = "running"
  /\ Cardinality({m \in net : m.type = "data"}) < MaxFrames
  /\ net' = Sent(net, {[type |-> "data", from |-> e, dst |-> v,
                        to |-> IF routes[e][v] = NoOne THEN Super ELSE routes[e][v]]})
  /\ UNCHANGED <<supernode, edge, history>>

\* Stop says goodbye; a cancelled context or a crash does not.
Off(e) ==
  /\ phase[e] = "running"
  /\ phase' = [phase EXCEPT ![e] = "off"]
  /\ vip' = [vip EXCEPT ![e] = NoVip]
  /\ UNCHANGED <<supernode, routes, history>>

Stop(e) == Off(e) /\ net' = Sent(net, {[type |-> "bye", from |-> e, vip |-> vip[e]]})

Die(e) == Off(e) /\ UNCHANGED net

-----------------------------------------------------------------------------

SupernodeReceives(m) ==
  HandleRegister(m) \/ HandleBye(m) \/ HandleData(m)

SupernodeTask(t) == Install(t) \/ Broadcast(t)

EdgeReceives(m) == Adopt(m) \/ RegisterFails(m) \/ Learn(m) \/ Receive(m) \/ Refuse(m)

Next ==
  \/ \E m \in net : IsRequest(m) /\ SupernodeReceives(m)
  \/ \E m \in net : ~IsRequest(m) /\ EdgeReceives(m)
  \/ \E m \in net : Lose(m)
  \/ \E t \in tasks : SupernodeTask(t)
  \/ \E S \in SUBSET Vips : Cleanup(S)
  \/ Crash \/ Restart
  \/ \E e \in Edges : Start(e) \/ RegisterTimeout(e) \/ Heartbeat(e) \/ Stop(e) \/ Die(e)
  \/ \E e \in Edges, v \in Vips : SendTo(e, v)

Spec == Init /\ [][Next]_vars

-----------------------------------------------------------------------------
(* Fairness. *)

\* The supernode is started again when it died, its goroutines run, sockets are
\* read, and of the heartbeats an edge sends for as long as it runs some find the
\* network idle and are answered, and not all answers are lost.
Fairness ==
  /\ WF_vars(Restart)
  /\ WF_vars(\E t \in tasks : SupernodeTask(t))
  /\ SF_vars(\E m \in net : IsRequest(m) /\ SupernodeReceives(m) /\ m \notin net')
  /\ WF_vars(\E m \in net : ~IsRequest(m) /\ EdgeReceives(m) /\ m \notin net')
  /\ \A e \in Edges :
       /\ SF_vars(net = {} /\ Heartbeat(e))
       /\ SF_vars(\E m \in net : m.type = "peers" /\ m.to = e /\ Learn(m) /\ m \notin net')

FairSpec == Spec /\ Fairness

-----------------------------------------------------------------------------
(* Properties. *)

Lease == INSTANCE VipLease WITH
           Endpoints <- Edges, holder <- owner, working <- vip

\* The supernode is an address allocator: registers (each of which allocates),
\* goodbyes, cleanups and restarts grant, reclaim, adopt and leave, no more.
ImplementsLease == Lease!LeaseSpec

Holds(e, v) == v \in recycled \/ owner[v] = e

\* Edge.peers leads to the endpoint the address was allocated for, through any
\* order of peer lists old and new, and so does every host packet on its way;
\* addresses that were taken back are the exception.
DirectFaithful ==
  /\ \A e \in Edges, v \in Vips : routes[e][v] = NoOne \/ Holds(routes[e][v], v)
  /\ \A m \in net : m.type = "data" => m.to = Super \/ Holds(m.to, m.dst)

\* An edge never routes its own address: handlePeerList and handleHeartbeatAck
\* skip it, though other edges hear of it and ports outlive processes.
NotViaSelf == \A e \in Edges : phase[e] = "running" => routes[e][vip[e]] = NoOne

\* No address leaks: each one in use is in an entry, where handleBye and cleanup
\* find it, or in the hands of the handler that is about to install it.
PoolAccounted ==
  \A v \in used : peers[v] # NoOne \/ \E t \in tasks : t.op = "install" /\ t.vip = v

\* A running edge learns where every registered address is, though its ack's
\* peer list is unreadable, broadcasts get lost and it may be forgotten itself:
\* the answers to its heartbeats carry the whole list.
Discovers ==
  \A e \in Edges, d \in Edges, v \in Vips :
    (phase[e] = "running" /\ peers[v] = d /\ v # vip[e])
      ~> (routes[e][v] = d \/ phase[e] # "running" \/ peers[v] # d)

\* The inductive invariant behind the safety properties.
ClaimsInFlight ==
  /\ \A t \in tasks : Holds(t.addr, t.vip)
  /\ \A m \in net : /\ m.type = "ack" => Holds(m.to, m.vip)
                    /\ m.type \in {"update", "peers"} => \A p \in m.list : Holds(p.addr, p.vip)

Claims ==
  /\ \A e \in Edges : vip[e] = NoVip \/ Holds(e, vip[e])
  /\ \A v \in Registered : Holds(peers[v], v)

AllocatorAgrees == used = {v \in Vips : owner[v] # NoOne}

NothingLearnt == \A e \in Edges : phase[e] = "registering" => routes[e] = NoRoutes

IInv == /\ TypeOK /\ ClaimsInFlight /\ Claims /\ AllocatorAgrees
        /\ DirectFaithful /\ NothingLearnt /\ NotViaSelf /\ PoolAccounted
=============================================================================
