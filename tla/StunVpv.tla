------------------------------ MODULE StunVpv ------------------------------
(***************************************************************************)
(* The STUN/TURN overlay of stunvpv/: one Server and its Clients over UDP. *)
(*                                                                         *)
(* A client is named by its UDP endpoint: the server knows it by nothing   *)
(* else, and every process opens a socket on a port of its own, so a       *)
(* client that is started again is another member of Clients.              *)
(* The server runs one goroutine per packet, so a handler that takes a     *)
(* lock twice is two steps here: what is left of it is a member of `tasks'.*)
(* The network loses, delays, reorders and duplicates packets.             *)
(*                                                                         *)
(* Client.peers is left out, and with it what a peer list contains: clients *)
(* show it and never route by it (SendTo sends everything to the server).  *)
(* Time is abstracted: a heartbeat may be lost for more than five minutes   *)
(* at any moment, so cleanup may find any set of entries expired.          *)
(***************************************************************************)
EXTENDS Naturals, FiniteSets

CONSTANTS Clients,   \* UDP endpoints clients are started on
          Pool,      \* number of addresses allocate() can hand out (10..254 there)
          NoOne,     \* "no endpoint"
          MaxNet,    \* bound: packets in flight
          MaxTasks,  \* bound: handlers between two critical sections
          MaxFrames  \* bound: host packets on their way through the overlay

ASSUME StunVpvAssumption ==
  /\ NoOne \notin Clients
  /\ Pool \in Nat /\ MaxNet \in Nat /\ MaxTasks \in Nat /\ MaxFrames \in Nat

Vips == 1 .. Pool

NoVip == 0   \* the unspecified address, and "no address yet"

VARIABLES
  up,        \* the server process runs
  used,      \* ipAllocator.used
  peers,     \* Server.peers: address -> RelayAddr of its entry, or NoOne
  vipIndex,  \* Server.vipIndex: endpoint -> address, or NoVip
  tasks,     \* packet handlers between two critical sections
  phase,     \* where each client's Start is
  vip,       \* Client.virtualIP
  net,       \* packets in flight
  owner,     \* history: the endpoint an address in use was allocated for
  recycled   \* history: the addresses ever released, or lost in a restart

server  == <<up, used, peers, vipIndex, tasks>>
client  == <<phase, vip>>
history == <<owner, recycled>>
vars    == <<server, client, net, history>>

\* Packets: to the server (from) and to a client (to).
Request ==
  [type : {"bind"}, from : Clients]
  \cup [type : {"register"}, from : Clients, vip : Vips \cup {NoVip}]
  \cup [type : {"data"}, from : Clients, dst : Vips]

Answer ==
  [type : {"bound"}, to : Clients]
  \cup [type : {"ack"}, to : Clients, vip : Vips]
  \cup [type : {"peerlist"}, to : Clients]
  \cup [type : {"frame"}, to : Clients, src : Vips]

Task ==
  [op : {"install"}, vip : Vips, from : Clients]
  \cup [op : {"broadcast"}, except : Vips]
  \cup [op : {"relay"}, from : Clients, to : Clients, dst : Vips]

Phases == {"off", "binding", "registering", "running", "stopped"}

TypeOK ==
  /\ up \in BOOLEAN
  /\ used \in SUBSET Vips
  /\ peers \in [Vips -> Clients \cup {NoOne}]
  /\ vipIndex \in [Clients -> Vips \cup {NoVip}]
  /\ tasks \in SUBSET Task
  /\ phase \in [Clients -> Phases]
  /\ vip \in [Clients -> Vips \cup {NoVip}]
  /\ net \in SUBSET (Request \cup Answer)
  /\ owner \in [Vips -> Clients \cup {NoOne}]
  /\ recycled \in SUBSET Vips

Init ==
  /\ up = TRUE
  /\ used = {}
  /\ peers = [v \in Vips |-> NoOne]
  /\ vipIndex = [c \in Clients |-> NoVip]
  /\ tasks = {}
  /\ phase = [c \in Clients |-> "off"]
  /\ vip = [c \in Clients |-> NoVip]
  /\ net = {}
  /\ owner = [v \in Vips |-> NoOne]
  /\ recycled = {}

-----------------------------------------------------------------------------
(* The network. *)

\* What is in flight after `out' is sent: UDP drops it when the queue is full.
Sent(base, out) ==
  IF Cardinality(base \cup out) <= MaxNet THEN base \cup out ELSE base

\* A packet that is delivered is gone, or it was a duplicate and stays.
Taken(m) == {net \ {m}, net}

IsRequest(m) == m \in Request

Lose(m) ==
  /\ net' = net \ {m}
  /\ UNCHANGED <<server, client, history>>

\* A packet to a closed port is dropped by the host it reaches.
PortClosed(m) == IF IsRequest(m) THEN ~up ELSE phase[m.to] = "stopped"

Refuse(m) ==
  /\ PortClosed(m)
  /\ net' = net \ {m}
  /\ UNCHANGED <<server, client, history>>

-----------------------------------------------------------------------------
(* The server: handlePacket, one goroutine per packet. *)

Room == Cardinality(tasks) < MaxTasks

Registered == {v \in Vips : peers[v] # NoOne}

\* Mutants, here and below, are slips the runs must notice; no action uses them.
FreeByPeers == Vips \ Registered

\* allocate: the first address not in use.
Free == Vips \ used

FirstFree == CHOOSE v \in Free : \A w \in Free : v <= w

\* handleSTUN: answered at once, from the address the request came from.
HandleBind(m) ==
  /\ up /\ m.type = "bind"
  /\ \E rest \in Taken(m) : net' = Sent(rest, {[type |-> "bound", to |-> m.from]})
  /\ UNCHANGED <<server, client, history>>

RegisterNewUnmarked(m) ==
  /\ up /\ Room
  /\ m.type = "register" /\ m.vip = NoVip
  /\ net' \in Taken(m)
  /\ Free # {}
  /\ owner' = [owner EXCEPT ![FirstFree] = m.from]
  /\ tasks' = tasks \cup {[op |-> "install", vip |-> FirstFree, from |-> m.from]}
  /\ UNCHANGED <<up, used, peers, vipIndex, client, recycled>>

\* handleRegister without an address: the allocator has its own lock.
\* An exhausted pool ends the handler without an answer.
HandleRegisterNew(m) ==
  /\ up /\ Room
  /\ m.type = "register" /\ m.vip = NoVip
  /\ net' \in Taken(m)
  /\ IF Free = {}
     THEN UNCHANGED <<used, tasks, owner>>
     ELSE /\ used' = used \cup {FirstFree}
          /\ owner' = [owner EXCEPT ![FirstFree] = m.from]
          /\ tasks' = tasks \cup {[op |-> "install", vip |-> FirstFree, from |-> m.from]}
  /\ UNCHANGED <<up, peers, vipIndex, client, recycled>>

\* The critical section of handleRegister, the ack, and the broadcast it
\* leaves to another goroutine. `rest' is what stays in flight.
InstallPeer(v, c, rest, left) ==
  /\ peers' = [peers EXCEPT ![v] = c]
  /\ vipIndex' = [vipIndex EXCEPT ![c] = v]
  /\ net' = Sent(rest, {[type |-> "ack", to |-> c, vip |-> v]})
  /\ tasks' = left \cup {[op |-> "broadcast", except |-> v]}

Install(t) ==
  /\ up /\ t.op = "install"
  /\ InstallPeer(t.vip, t.from, net, tasks \ {t})
  /\ UNCHANGED <<up, used, client, history>>

RegisterOwnKnown(m) ==
  /\ up
  /\ m.type = "register" /\ m.vip # NoVip /\ peers[m.vip] # NoOne
  /\ \E rest \in Taken(m) : InstallPeer(m.vip, m.from, rest, tasks)
  /\ UNCHANGED <<up, used, client, history>>

\* A register that names its address (a client's heartbeat) is taken at its
\* word: no lookup, and the allocator is not told.
HandleRegisterOwn(m) ==
  /\ up
  /\ m.type = "register" /\ m.vip # NoVip
  /\ \E rest \in Taken(m) : InstallPeer(m.vip, m.from, rest, tasks)
  /\ UNCHANGED <<up, used, client, history>>

\* broadcastPeerList: to everyone who is a peer by the time it is sent.
Broadcast(t) ==
  /\ up /\ t.op = "broadcast"
  /\ tasks' = tasks \ {t}
  /\ net' = Sent(net, {[type |-> "peerlist", to |-> peers[v]] :
                         v \in Registered \ {t.except}})
  /\ UNCHANGED <<up, used, peers, vipIndex, client, history>>

\* handleRelayData looks the destination up under one read lock ...
HandleData(m) ==
  /\ up /\ Room
  /\ m.type = "data"
  /\ net' \in Taken(m)
  /\ tasks' = IF peers[m.dst] = NoOne THEN tasks
              ELSE tasks \cup {[op |-> "relay", from |-> m.from,
                                to |-> peers[m.dst], dst |-> m.dst]}
  /\ UNCHANGED <<up, used, peers, vipIndex, client, history>>

RelayByReceiver(t) ==
  /\ up /\ t.op = "relay"
  /\ tasks' = tasks \ {t}
  /\ net' = IF vipIndex[t.to] = NoVip THEN net
            ELSE Sent(net, {[type |-> "frame", to |-> t.to, src |-> vipIndex[t.to]]})
  /\ UNCHANGED <<up, used, peers, vipIndex, client, history>>

\* ... and the sender's own address under another: unknown senders are cut off.
Relay(t) ==
  /\ up /\ t.op = "relay"
  /\ tasks' = tasks \ {t}
  /\ net' = IF vipIndex[t.from] = NoVip THEN net
            ELSE Sent(net, {[type |-> "frame", to |-> t.to, src |-> vipIndex[t.from]]})
  /\ UNCHANGED <<up, used, peers, vipIndex, client, history>>

CleanupKeepsAddress(expired) ==
  /\ up /\ expired # {} /\ expired \subseteq Registered
  /\ peers' = [v \in Vips |-> IF v \in expired THEN NoOne ELSE peers[v]]
  /\ UNCHANGED <<up, used, vipIndex, tasks, client, net, history>>

\* cleanup removes the entries not registered for five minutes: the entry, its
\* address in the pool and the index entry of its last endpoint, whichever
\* address that endpoint is indexed under by now.
Cleanup(expired) ==
  /\ up /\ expired # {} /\ expired \subseteq Registered
  /\ used' = used \ expired
  /\ peers' = [v \in Vips |-> IF v \in expired THEN NoOne ELSE peers[v]]
  /\ vipIndex' = [c \in Clients |->
                    IF \E v \in expired : peers[v] = c THEN NoVip ELSE vipIndex[c]]
  /\ owner' = [v \in Vips |-> IF v \in expired THEN NoOne ELSE owner[v]]
  /\ recycled' = recycled \cup expired
  /\ UNCHANGED <<up, tasks, client, net>>

\* Nothing is persisted: a server that dies forgets every address it gave out.
Crash ==
  /\ up
  /\ up' = FALSE
  /\ used' = {} /\ tasks' = {}
  /\ peers' = [v \in Vips |-> NoOne]
  /\ vipIndex' = [c \in Clients |-> NoVip]
  /\ owner' = [v \in Vips |-> NoOne]
  /\ recycled' = recycled \cup used
  /\ UNCHANGED <<client, net>>

Restart ==
  /\ ~up
  /\ up' = TRUE
  /\ UNCHANGED <<used, peers, vipIndex, tasks, client, net, history>>

-----------------------------------------------------------------------------
(* The clients. *)

\* A new process: NewClient, then Start up to stunBind's read.
Start(c) ==
  /\ phase[c] = "off"
  /\ phase' = [phase EXCEPT ![c] = "binding"]
  /\ net' = Sent(net, {[type |-> "bind", from |-> c]})
  /\ UNCHANGED <<server, vip, history>>

\* stunBind takes the first packet for its answer; register() follows
\* whatever it was, and after the five-second timeout as well.
SendRegister(c, rest) ==
  /\ phase[c] = "binding"
  /\ phase' = [phase EXCEPT ![c] = "registering"]
  /\ net' = Sent(rest, {[type |-> "register", from |-> c, vip |-> NoVip]})
  /\ UNCHANGED <<server, vip, history>>

BindDone(m) == \E rest \in Taken(m) : SendRegister(m.to, rest)

BindTimeout(c) == SendRegister(c, net)

\* register() adopts the address of the ack ...
Adopt(m) ==
  /\ phase[m.to] = "registering" /\ m.type = "ack"
  /\ net' \in Taken(m)
  /\ phase' = [phase EXCEPT ![m.to] = "running"]
  /\ vip' = [vip EXCEPT ![m.to] = m.vip]
  /\ UNCHANGED <<server, history>>

\* ... and fails, ending Start, when the first packet is another one (a late
\* STUN answer, another client's peer list), or when none comes in ten seconds.
RegisterFails(m) ==
  /\ phase[m.to] = "registering" /\ m.type # "ack"
  /\ net' \in Taken(m)
  /\ phase' = [phase EXCEPT ![m.to] = "stopped"]
  /\ UNCHANGED <<server, vip, history>>

RegisterTimeout(c) ==
  /\ phase[c] = "registering"
  /\ phase' = [phase EXCEPT ![c] = "stopped"]
  /\ UNCHANGED <<server, vip, net, history>>

\* handlePacket: a peer list goes to Client.peers, a frame to onData, an ack is
\* "already handled during registration".
Receive(m) ==
  /\ phase[m.to] = "running"
  /\ net' \in Taken(m)
  /\ UNCHANGED <<server, client, history>>

\* The 30-second heartbeat is a register that names the client's address. It
\* is there once at most, so MaxNet need not bound it.
HeartbeatOf(c) == [type |-> "register", from |-> c, vip |-> vip[c]]

Heartbeat(c) ==
  /\ phase[c] = "running"
  /\ net' = net \cup {HeartbeatOf(c)}
  /\ UNCHANGED <<server, client, history>>

\* SendTo: the host may send to any address of the overlay.
Frames == {m \in net : m.type \in {"data", "frame"}} \cup {t \in tasks : t.op = "relay"}

SendTo(c, v) ==
  /\ phase[c] = "running" /\ Cardinality(Frames) < MaxFrames
  /\ net' = Sent(net, {[type |-> "data", from |-> c, dst |-> v]})
  /\ UNCHANGED <<server, client, history>>

\* The context is cancelled or the process dies: the server is not told.
Stop(c) ==
  /\ phase[c] = "running"
  /\ phase' = [phase EXCEPT ![c] = "stopped"]
  /\ vip' = [vip EXCEPT ![c] = NoVip]
  /\ UNCHANGED <<server, net, history>>

-----------------------------------------------------------------------------

ServerReceives(m) ==
  HandleBind(m) \/ HandleRegisterNew(m) \/ HandleRegisterOwn(m) \/ HandleData(m)

ServerTask(t) == Install(t) \/ Broadcast(t) \/ Relay(t)

ClientReceives(m) == BindDone(m) \/ Adopt(m) \/ RegisterFails(m) \/ Receive(m)

Next ==
  \/ \E m \in net : IsRequest(m) /\ ServerReceives(m)
  \/ \E m \in net : ~IsRequest(m) /\ ClientReceives(m)
  \/ \E m \in net : Lose(m) \/ Refuse(m)
  \/ \E t \in tasks : ServerTask(t)
  \/ \E S \in SUBSET Vips : Cleanup(S)
  \/ Crash \/ Restart
  \/ \E c \in Clients : Start(c) \/ BindTimeout(c) \/ RegisterTimeout(c)
                          \/ Heartbeat(c) \/ Stop(c)
  \/ \E c \in Clients, v \in Vips : SendTo(c, v)

Spec == Init /\ [][Next]_vars

-----------------------------------------------------------------------------
(* Fairness: what the runtime and the network owe a packet. *)

\* Goroutines and read loops run, and a server that died is started again, so
\* queues drain. A client sends a heartbeat every 30 seconds for as long as it
\* runs: not all of them miss the times the server is up, and not all are lost.
Fairness ==
  /\ WF_vars(Restart)
  /\ WF_vars(\E t \in tasks : ServerTask(t))
  /\ SF_vars(\E m \in net : IsRequest(m) /\ ServerReceives(m) /\ m \notin net')
  /\ WF_vars(\E m \in net : ~IsRequest(m) /\ ClientReceives(m) /\ m \notin net')
  /\ WF_vars(\E m \in net : Refuse(m))
  /\ \A c \in Clients :
       /\ SF_vars(up /\ Heartbeat(c))
       /\ SF_vars(\E m \in net : m = HeartbeatOf(c) /\ HandleRegisterOwn(m))

FairSpec == Spec /\ Fairness

-----------------------------------------------------------------------------
(* Properties. *)

Lease == INSTANCE VipLease WITH
           Endpoints <- Clients, holder <- owner, working <- vip

\* The server is an address allocator: every behaviour of handlers, losses,
\* cleanups and restarts is one of granting, reclaiming, adopting and leaving.
ImplementsLease == Lease!LeaseSpec

\* Two running clients share a virtual address only if the server once took it
\* back from a client that still used it: handleRegister's allocation and
\* cleanup's release are the only way to a second holder.
SingleHolder ==
  \A c, d \in Clients :
    c # d /\ vip[c] = vip[d] /\ vip[c] # NoVip => vip[c] \in recycled

\* A frame handleRelayData forwards names the address of the endpoint that sent
\* it and reaches the endpoint the destination was allocated for, however the
\* lookups interleave with registrations (unless the address was taken back).
RelayFaithful ==
  [][\A m \in net' \ net : m.type = "frame" =>
       \E t \in tasks : /\ t.op = "relay"
                        /\ m.src \in recycled \/ owner[m.src] = t.from
                        /\ t.dst \in recycled \/ owner[t.dst] = m.to]_vars

\* No address leaks: each one in use is in an entry, where cleanup finds it, or
\* in the hands of the handler that is about to install it.
PoolAccounted ==
  \A v \in used : peers[v] # NoOne \/ \E t \in tasks : t.op = "install" /\ t.vip = v

\* The inductive invariant behind the three: whoever may come to answer to an
\* address, in a task, a packet, a client or the server's tables, is the one it
\* was allocated for, unless the address was taken back.
Holds(c, v) == v \in recycled \/ owner[v] = c

ClaimsInFlight ==
  /\ \A t \in tasks : /\ t.op = "install" => Holds(t.from, t.vip)
                      /\ t.op = "relay" => Holds(t.to, t.dst)
  /\ \A m \in net : /\ m.type = "ack" => Holds(m.to, m.vip)
                    /\ m.type = "register" => m.vip = NoVip \/ Holds(m.from, m.vip)

ClaimsHeld ==
  \A c \in Clients : /\ vip[c] = NoVip \/ Holds(c, vip[c])
                     /\ vipIndex[c] = NoVip \/ Holds(c, vipIndex[c])

Entries == \A v \in Registered : Holds(peers[v], v)

AllocatorAgrees == used = {v \in Vips : owner[v] # NoOne}

IInv == TypeOK /\ ClaimsInFlight /\ ClaimsHeld /\ Entries /\ AllocatorAgrees /\ PoolAccounted

\* A client the server forgot (cleanup, restart) or that lost its index entry
\* with another client's cleanup is reachable under its address again: its
\* heartbeats re-register it.
Reachable(c) == peers[vip[c]] = c /\ vipIndex[c] = vip[c]

Rejoins ==
  \A c \in Clients : phase[c] = "running" ~> (phase[c] # "running" \/ Reachable(c))
=============================================================================
