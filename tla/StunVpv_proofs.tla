--------------------------- MODULE StunVpv_proofs ---------------------------
(***************************************************************************)
(* Theorems of StunVpv, for every set of clients, pool and bound.          *)
(***************************************************************************)
EXTENDS StunVpv, TLAPS

Leasing == INSTANCE VipLease_proofs WITH
             Endpoints <- Clients, holder <- owner, working <- vip

USE StunVpvAssumption

-----------------------------------------------------------------------------
(* The operators the actions are built from. *)

\* The unspecified address is not one of the pool.
LEMMA NoVipOutside == NoVip \notin Vips
BY DEF NoVip, Vips

\* allocate returns an address of the pool that was not in use.
LEMMA FirstFreeIsFree == Free # {} => FirstFree \in Vips \ used
<1> SUFFICES ASSUME Free # {} PROVE FirstFree \in Free
  BY DEF Free
<1>1. Free \in SUBSET Nat
  BY DEF Free, Vips
<1>2. \E v \in Free : \A w \in Free : v <= w
  BY <1>1, Leasing!LeastExists
<1> QED
  BY <1>2 DEF FirstFree

\* Nothing is in flight that was not there or has not been sent.
LEMMA SentWithin ==
  ASSUME NEW base, NEW out, NEW m \in Sent(base, out)
  PROVE  m \in base \/ m \in out
BY DEF Sent

\* Taking a packet leaves what was in flight, the packet itself or not.
LEMMA TakenWithin ==
  ASSUME NEW m, NEW rest \in Taken(m)
  PROVE  rest \subseteq net
BY DEF Taken

\* The fields of a packet to the server, of one to a client, and of a task.
LEMMA RequestFields ==
  ASSUME NEW m \in Request
  PROVE  /\ m.type \in {"bind", "register", "data"} /\ m.from \in Clients
         /\ m.type = "register" => m.vip \in Vips \cup {NoVip}
         /\ m.type = "data" => m.dst \in Vips
BY DEF Request

\* The fields of what the server sends.
LEMMA AnswerFields ==
  ASSUME NEW m \in Answer
  PROVE  /\ m.type \in {"bound", "ack", "peerlist", "frame"} /\ m.to \in Clients
         /\ m.type = "ack" => m.vip \in Vips
         /\ m.type = "frame" => m.src \in Vips
BY DEF Answer

\* The fields of a handler between its critical sections.
LEMMA TaskFields ==
  ASSUME NEW t \in Task
  PROVE  /\ t.op \in {"install", "broadcast", "relay"}
         /\ t.op = "install" => t.vip \in Vips /\ t.from \in Clients
         /\ t.op = "broadcast" => t.except \in Vips
         /\ t.op = "relay" => t.from \in Clients /\ t.to \in Clients /\ t.dst \in Vips
BY DEF Task

-----------------------------------------------------------------------------
(* Type correctness. *)

\* The overlay starts within its types.
LEMMA InitType == Init => TypeOK
BY DEF Init, TypeOK, Phases

\* Installing an entry stays within the types.
LEMMA InstallType ==
  ASSUME TypeOK, NEW v \in Vips, NEW c \in Clients,
         NEW rest, rest \subseteq net, NEW left, left \subseteq tasks,
         InstallPeer(v, c, rest, left)
  PROVE  /\ peers' \in [Vips -> Clients \cup {NoOne}]
         /\ vipIndex' \in [Clients -> Vips \cup {NoVip}]
         /\ net' \in SUBSET (Request \cup Answer)
         /\ tasks' \in SUBSET Task
<1> DEFINE ack == [type |-> "ack", to |-> c, vip |-> v]
<1>1. ack \in Answer
  BY DEF Answer
<1>2. net' \in SUBSET (Request \cup Answer)
  BY <1>1, SentWithin DEF TypeOK, InstallPeer
<1>3. [op |-> "broadcast", except |-> v] \in Task
  BY DEF Task
<1>4. tasks' \in SUBSET Task
  BY <1>3 DEF TypeOK, InstallPeer
<1> QED
  BY <1>2, <1>4 DEF TypeOK, InstallPeer

\* The first halves of the handlers stay within the types.
LEMMA ServerType ==
  ASSUME TypeOK, NEW m \in net, IsRequest(m), ServerReceives(m)
  PROVE  TypeOK'
<1> USE RequestFields, NoVipOutside DEF IsRequest
<1>1. CASE HandleBind(m)
  <2>1. PICK rest \in Taken(m) : net' = Sent(rest, {[type |-> "bound", to |-> m.from]})
    BY <1>1 DEF HandleBind
  <2>2. [type |-> "bound", to |-> m.from] \in Answer
    BY DEF Answer
  <2>3. net' \in SUBSET (Request \cup Answer)
    BY <2>1, <2>2, SentWithin, TakenWithin DEF TypeOK
  <2> QED
    BY <1>1, <2>3 DEF TypeOK, HandleBind, server, client, history
<1>2. CASE HandleRegisterNew(m)
  <2>1. net' \in SUBSET (Request \cup Answer)
    BY <1>2, TakenWithin DEF TypeOK, HandleRegisterNew
  <2>2. CASE Free = {}
    BY <1>2, <2>1, <2>2 DEF TypeOK, HandleRegisterNew, client
  <2>3. CASE Free # {}
    <3>1. FirstFree \in Vips
      BY <2>3, FirstFreeIsFree
    <3>2. [op |-> "install", vip |-> FirstFree, from |-> m.from] \in Task
      BY <3>1 DEF Task
    <3> QED
      BY <1>2, <2>1, <2>3, <3>1, <3>2 DEF TypeOK, HandleRegisterNew, client
  <2> QED
    BY <2>2, <2>3
<1>3. CASE HandleRegisterOwn(m)
  <2>1. PICK rest \in Taken(m) : InstallPeer(m.vip, m.from, rest, tasks)
    BY <1>3 DEF HandleRegisterOwn
  <2>2. m.vip \in Vips
    BY <1>3 DEF HandleRegisterOwn
  <2> QED
    BY <1>3, <2>1, <2>2, TakenWithin, InstallType
       DEF TypeOK, HandleRegisterOwn, client, history
<1>4. CASE HandleData(m)
  <2>1. net' \in SUBSET (Request \cup Answer)
    BY <1>4, TakenWithin DEF TypeOK, HandleData
  <2>2. peers[m.dst] # NoOne =>
          [op |-> "relay", from |-> m.from, to |-> peers[m.dst], dst |-> m.dst] \in Task
    BY <1>4 DEF TypeOK, HandleData, Task
  <2>3. tasks' \in SUBSET Task
    BY <1>4, <2>2 DEF TypeOK, HandleData
  <2> QED
    BY <1>4, <2>1, <2>3 DEF TypeOK, HandleData, client, history
<1> QED
  BY <1>1, <1>2, <1>3, <1>4 DEF ServerReceives

\* The second halves of the handlers stay within the types.
LEMMA TaskType ==
  ASSUME TypeOK, NEW t \in tasks, ServerTask(t)
  PROVE  TypeOK'
<1>0. t \in Task
  BY DEF TypeOK
<1>1. CASE Install(t)
  <2>1. t.vip \in Vips /\ t.from \in Clients
    BY <1>0, <1>1, TaskFields DEF Install
  <2>2. InstallPeer(t.vip, t.from, net, tasks \ {t})
    BY <1>1 DEF Install
  <2>3. /\ peers' \in [Vips -> Clients \cup {NoOne}]
        /\ vipIndex' \in [Clients -> Vips \cup {NoVip}]
        /\ net' \in SUBSET (Request \cup Answer)
        /\ tasks' \in SUBSET Task
    BY <2>1, <2>2, InstallType, tasks \ {t} \subseteq tasks, net \subseteq net
  <2> QED
    BY <1>1, <2>3 DEF TypeOK, Install, client, history
<1>2. CASE Broadcast(t)
  <2> DEFINE out == {[type |-> "peerlist", to |-> peers[v]] : v \in Registered \ {t.except}}
  <2>1. out \subseteq Answer
    BY DEF TypeOK, Registered, Answer
  <2>2. net' = Sent(net, out)
    BY <1>2 DEF Broadcast
  <2>3. net' \in SUBSET (Request \cup Answer)
    <3> HIDE DEF out
    <3> QED
      BY <2>1, <2>2, SentWithin DEF TypeOK
  <2> QED
    BY <1>2, <2>3 DEF TypeOK, Broadcast, client, history
<1>3. CASE Relay(t)
  <2> DEFINE frame == [type |-> "frame", to |-> t.to, src |-> vipIndex[t.from]]
  <2>1. vipIndex[t.from] # NoVip => frame \in Answer
    BY <1>0, <1>3, TaskFields DEF TypeOK, Relay, Answer
  <2>2. net' \in SUBSET (Request \cup Answer)
    BY <1>3, <2>1, SentWithin DEF TypeOK, Relay
  <2> QED
    BY <1>3, <2>2 DEF TypeOK, Relay, client, history
<1> QED
  BY <1>1, <1>2, <1>3 DEF ServerTask

\* What a client does with a packet stays within the types.
LEMMA ClientType ==
  ASSUME TypeOK, NEW m \in net, ~IsRequest(m), ClientReceives(m)
  PROVE  TypeOK'
<1>0. m \in Answer
  BY DEF TypeOK, IsRequest
<1>a. m.to \in Clients
  BY <1>0, AnswerFields
<1>1. CASE BindDone(m)
  <2>1. PICK rest \in Taken(m) : SendRegister(m.to, rest)
    BY <1>1 DEF BindDone
  <2>2. [type |-> "register", from |-> m.to, vip |-> NoVip] \in Request
    BY <1>a DEF Request
  <2>3. net' \in SUBSET (Request \cup Answer)
    BY <2>1, <2>2, SentWithin, TakenWithin DEF TypeOK, SendRegister
  <2> QED
    BY <2>1, <2>3 DEF TypeOK, SendRegister, Phases, server, history
<1>2. CASE Adopt(m)
  BY <1>0, <1>2, AnswerFields, TakenWithin DEF TypeOK, Adopt, Phases, server, history
<1>3. CASE RegisterFails(m)
  BY <1>a, <1>3, TakenWithin DEF TypeOK, RegisterFails, Phases, server, history
<1>4. CASE Receive(m)
  BY <1>4, TakenWithin DEF TypeOK, Receive, server, client, history
<1> QED
  BY <1>1, <1>2, <1>3, <1>4 DEF ClientReceives

\* Losing and refusing a packet stay within the types.
LEMMA NetType ==
  ASSUME TypeOK, NEW m \in net, Lose(m) \/ Refuse(m)
  PROVE  TypeOK'
BY DEF TypeOK, Lose, Refuse, server, client, history

\* Cleanup, crash and restart stay within the types.
LEMMA ServerLifeType ==
  ASSUME TypeOK, (\E S \in SUBSET Vips : Cleanup(S)) \/ Crash \/ Restart
  PROVE  TypeOK'
<1>1. CASE \E S \in SUBSET Vips : Cleanup(S)
  <2>1. PICK S \in SUBSET Vips : Cleanup(S)
    BY <1>1
  <2> QED
    BY <2>1 DEF TypeOK, Cleanup, client
<1>2. CASE Crash
  BY <1>2 DEF TypeOK, Crash, client
<1>3. CASE Restart
  BY <1>3 DEF TypeOK, Restart, client, history
<1> QED
  BY <1>1, <1>2, <1>3

\* What a client does of its own stays within the types.
LEMMA ClientStepType ==
  ASSUME TypeOK, NEW c \in Clients,
         \/ Start(c) \/ BindTimeout(c) \/ RegisterTimeout(c) \/ Heartbeat(c) \/ Stop(c)
         \/ \E v \in Vips : SendTo(c, v)
  PROVE  TypeOK'
<1>1. CASE Start(c)
  <2>1. [type |-> "bind", from |-> c] \in Request
    BY DEF Request
  <2>2. net' \in SUBSET (Request \cup Answer)
    BY <1>1, <2>1, SentWithin DEF TypeOK, Start
  <2> QED
    BY <1>1, <2>2 DEF TypeOK, Start, Phases, server, history
<1>2. CASE BindTimeout(c)
  <2>1. [type |-> "register", from |-> c, vip |-> NoVip] \in Request
    BY DEF Request
  <2>2. net' \in SUBSET (Request \cup Answer)
    BY <1>2, <2>1, SentWithin DEF TypeOK, BindTimeout, SendRegister
  <2> QED
    BY <1>2, <2>2 DEF TypeOK, BindTimeout, SendRegister, Phases, server, history
<1>3. CASE RegisterTimeout(c)
  BY <1>3 DEF TypeOK, RegisterTimeout, Phases, server, history
<1>4. CASE Heartbeat(c)
  <2>1. HeartbeatOf(c) \in Request
    BY DEF TypeOK, HeartbeatOf, Request
  <2> QED
    BY <1>4, <2>1 DEF TypeOK, Heartbeat, server, client, history
<1>5. CASE Stop(c)
  BY <1>5 DEF TypeOK, Stop, Phases, server, history
<1>6. CASE \E v \in Vips : SendTo(c, v)
  <2>1. PICK v \in Vips : SendTo(c, v)
    BY <1>6
  <2>2. [type |-> "data", from |-> c, dst |-> v] \in Request
    BY DEF Request
  <2>3. net' \in SUBSET (Request \cup Answer)
    BY <2>1, <2>2, SentWithin DEF TypeOK, SendTo
  <2> QED
    BY <2>1, <2>3 DEF TypeOK, SendTo, server, client, history
<1> QED
  BY <1>1, <1>2, <1>3, <1>4, <1>5, <1>6

\* Every step stays within the types.
LEMMA NextType == TypeOK /\ [Next]_vars => TypeOK'
<1> SUFFICES ASSUME TypeOK, [Next]_vars PROVE TypeOK'
  OBVIOUS
<1>1. CASE \E m \in net : IsRequest(m) /\ ServerReceives(m)
  BY <1>1, ServerType
<1>2. CASE \E m \in net : ~IsRequest(m) /\ ClientReceives(m)
  BY <1>2, ClientType
<1>3. CASE \E m \in net : Lose(m) \/ Refuse(m)
  BY <1>3, NetType
<1>4. CASE \E t \in tasks : ServerTask(t)
  BY <1>4, TaskType
<1>5. CASE (\E S \in SUBSET Vips : Cleanup(S)) \/ Crash \/ Restart
  BY <1>5, ServerLifeType
<1>6. CASE \/ \E c \in Clients : Start(c) \/ BindTimeout(c) \/ RegisterTimeout(c)
                                 \/ Heartbeat(c) \/ Stop(c)
           \/ \E c \in Clients, v \in Vips : SendTo(c, v)
  BY <1>6, ClientStepType
<1>7. CASE UNCHANGED vars
  BY <1>7 DEF TypeOK, vars, server, client, history
<1> QED
  BY <1>1, <1>2, <1>3, <1>4, <1>5, <1>6, <1>7 DEF Next

\* Every variable keeps its type in every behaviour of the server, the clients
\* and the network, whatever the pool and the bounds.
THEOREM TypeCorrect == Spec => []TypeOK
<1> QED
  BY InitType, NextType, PTL DEF Spec
-----------------------------------------------------------------------------
(* The inductive invariant. *)

Claims == ClaimsInFlight /\ ClaimsHeld /\ Entries /\ AllocatorAgrees /\ PoolAccounted

\* The part of Claims about packets says the same of any set of packets.
PacketClaims(m) ==
  /\ m.type = "ack" => Holds(m.to, m.vip)
  /\ m.type = "register" => m.vip = NoVip \/ Holds(m.from, m.vip)

TaskClaims(t) ==
  /\ t.op = "install" => Holds(t.from, t.vip)
  /\ t.op = "relay" => Holds(t.to, t.dst)

\* The claims in flight are those of the tasks and of the packets.
LEMMA ClaimsInFlightIs ==
  ClaimsInFlight <=> (\A t \in tasks : TaskClaims(t)) /\ (\A m \in net : PacketClaims(m))
BY DEF ClaimsInFlight, TaskClaims, PacketClaims

\* At first nobody names an endpoint for an address.
LEMMA InitClaims == Init => Claims
BY DEF Init, Claims, ClaimsInFlight, ClaimsHeld, Entries, AllocatorAgrees,
       PoolAccounted, Registered

\* A step that leaves the allocator and its history alone keeps the claims when
\* the packets and tasks it adds, the addresses and the tables it changes carry
\* claims that hold.
LEMMA QuietStep ==
  ASSUME Claims, UNCHANGED <<used, history>>,
         \A m \in net' : m \in net \/ PacketClaims(m),
         \A t \in tasks' : t \in tasks \/ TaskClaims(t),
         \A c \in Clients : /\ vip'[c] \in {vip[c], NoVip} \/ Holds(c, vip'[c])
                            /\ vipIndex'[c] \in {vipIndex[c], NoVip} \/ Holds(c, vipIndex'[c]),
         \A v \in Vips : peers'[v] = peers[v] \/ Holds(peers'[v], v),
         \A v \in Vips : peers[v] # NoOne => peers'[v] # NoOne,
         \A t \in tasks \ tasks' : t.op = "install" => peers'[t.vip] # NoOne
  PROVE  Claims'
<1>1. \A c, v : Holds(c, v)' <=> Holds(c, v)
  BY DEF Holds, history
<1>2. ClaimsInFlight'
  BY <1>1 DEF Claims, ClaimsInFlight, PacketClaims, TaskClaims
<1>3. ClaimsHeld'
  BY <1>1 DEF Claims, ClaimsHeld
<1>4. Entries'
  BY <1>1 DEF Claims, Entries, Registered
<1>5. AllocatorAgrees'
  BY DEF Claims, AllocatorAgrees, history
<1>6. PoolAccounted'
  <2> SUFFICES ASSUME NEW v \in used', peers'[v] = NoOne
               PROVE  \E t \in tasks' : t.op = "install" /\ t.vip = v
    BY DEF PoolAccounted
  <2>1. v \in Vips /\ peers[v] = NoOne
    BY DEF Claims, AllocatorAgrees
  <2>2. PICK t \in tasks : t.op = "install" /\ t.vip = v
    BY <2>1 DEF Claims, PoolAccounted
  <2> QED
    BY <2>2
<1> QED
  BY <1>2, <1>3, <1>4, <1>5, <1>6 DEF Claims

\* Installing an entry for an endpoint that holds the address keeps the claims true.
LEMMA InstallClaims ==
  ASSUME TypeOK, Claims, UNCHANGED <<used, client, history>>,
         NEW v \in Vips, NEW c \in Clients, Holds(c, v),
         NEW rest, rest \subseteq net, NEW left, left \subseteq tasks,
         \A t \in tasks \ left : t.op = "install" => t.vip = v,
         InstallPeer(v, c, rest, left)
  PROVE  Claims'
<1> DEFINE ack == [type |-> "ack", to |-> c, vip |-> v]
           bcast == [op |-> "broadcast", except |-> v]
<1>1. \A m \in net' : m \in net \/ PacketClaims(m)
  <2>1. PacketClaims(ack)
    BY DEF PacketClaims
  <2>2. \A m \in net' : m \in net \/ m = ack
    BY SentWithin DEF InstallPeer
  <2> QED
    BY <2>1, <2>2
<1>2. \A t \in tasks' : t \in tasks \/ TaskClaims(t)
  BY DEF InstallPeer, TaskClaims
<1>3. /\ \A d \in Clients : vip'[d] = vip[d] /\ (vipIndex'[d] = vipIndex[d] \/ Holds(d, vipIndex'[d]))
      /\ \A w \in Vips : peers'[w] = peers[w] \/ Holds(peers'[w], w)
      /\ \A w \in Vips : peers[w] # NoOne => peers'[w] # NoOne
      /\ peers'[v] # NoOne
  BY DEF TypeOK, InstallPeer, client
<1>4. \A t \in tasks \ tasks' : t.op = "install" => peers'[t.vip] # NoOne
  BY <1>3 DEF InstallPeer
<1> QED
  BY <1>1, <1>2, <1>3, <1>4, QuietStep

\* The first halves of the handlers keep the claims true: an allocation takes an
\* address nobody owns.
LEMMA ServerClaims ==
  ASSUME TypeOK, Claims, NEW m \in net, IsRequest(m), ServerReceives(m)
  PROVE  Claims'
<1> USE RequestFields, NoVipOutside DEF IsRequest
<1>1. CASE HandleBind(m)
  <2>1. PICK rest \in Taken(m) : net' = Sent(rest, {[type |-> "bound", to |-> m.from]})
    BY <1>1 DEF HandleBind
  <2>2. \A p \in net' : p \in net \/ PacketClaims(p)
    BY <2>1, SentWithin, TakenWithin DEF PacketClaims
  <2> QED
    BY <1>1, <2>2, QuietStep DEF HandleBind, server, client, history
<1>2. CASE HandleRegisterNew(m)
  <2>0. net' \subseteq net
    BY <1>2, TakenWithin DEF HandleRegisterNew
  <2>1. CASE Free = {}
    BY <1>2, <2>0, <2>1, QuietStep DEF HandleRegisterNew, client, history
  <2>2. CASE Free # {}
    <3> DEFINE f == FirstFree
    <3>1. f \in Vips /\ owner[f] = NoOne /\ f \notin used
      BY <2>2, FirstFreeIsFree DEF Claims, AllocatorAgrees
    <3>2. /\ used' = used \cup {f} /\ owner' = [owner EXCEPT ![f] = m.from]
          /\ tasks' = tasks \cup {[op |-> "install", vip |-> f, from |-> m.from]}
          /\ UNCHANGED <<peers, vipIndex, vip, recycled>>
      BY <1>2, <2>2 DEF HandleRegisterNew, client
    <3> HIDE DEF f
    <3>3. \A c \in Clients, v \in Vips : Holds(c, v) => Holds(c, v)'
      BY <3>1, <3>2 DEF Holds, TypeOK
    <3>4. ClaimsInFlight'
      <4>1. \A t \in tasks' : TaskClaims(t)'
        <5> SUFFICES ASSUME NEW t \in tasks' PROVE TaskClaims(t)'
          OBVIOUS
        <5>1. CASE t \in tasks
          BY <3>3, <5>1, TaskFields DEF TypeOK, Claims, ClaimsInFlight, TaskClaims
        <5>2. CASE t = [op |-> "install", vip |-> f, from |-> m.from]
          BY <3>1, <3>2, <5>2 DEF TaskClaims, Holds, TypeOK
        <5> QED
          BY <3>2, <5>1, <5>2
      <4>2. \A p \in net' : PacketClaims(p)'
        BY <2>0, <3>3, AnswerFields DEF TypeOK, Claims, ClaimsInFlight, PacketClaims
      <4> QED
        BY <4>1, <4>2 DEF ClaimsInFlight, TaskClaims, PacketClaims
    <3>5. ClaimsHeld'
      BY <3>2, <3>3 DEF TypeOK, Claims, ClaimsHeld
    <3>6. Entries'
      BY <3>2, <3>3 DEF TypeOK, Claims, Entries, Registered
    <3>7. AllocatorAgrees'
      BY <3>1, <3>2 DEF TypeOK, Claims, AllocatorAgrees
    <3>8. PoolAccounted'
      <4>1. [op |-> "install", vip |-> f, from |-> m.from] \in tasks'
        BY <3>2
      <4> QED
        BY <3>2, <4>1 DEF Claims, PoolAccounted
    <3> QED
      BY <3>4, <3>5, <3>6, <3>7, <3>8 DEF Claims
  <2> QED
    BY <2>1, <2>2
<1>3. CASE HandleRegisterOwn(m)
  <2>1. PICK rest \in Taken(m) : InstallPeer(m.vip, m.from, rest, tasks)
    BY <1>3 DEF HandleRegisterOwn
  <2>2. m.vip \in Vips /\ m.from \in Clients /\ Holds(m.from, m.vip)
    BY <1>3 DEF HandleRegisterOwn, Claims, ClaimsInFlight
  <2>3. rest \subseteq net /\ UNCHANGED <<used, client, history>>
    BY <1>3, <2>1, TakenWithin DEF HandleRegisterOwn
  <2> QED
    BY <2>1, <2>2, <2>3, InstallClaims
<1>4. CASE HandleData(m)
  <2>1. \A t \in tasks' : t \in tasks \/ TaskClaims(t)
    BY <1>4 DEF HandleData, TaskClaims, Claims, Entries, Registered
  <2>2. net' \subseteq net /\ tasks \subseteq tasks'
    BY <1>4, TakenWithin DEF HandleData
  <2> QED
    BY <1>4, <2>1, <2>2, QuietStep DEF HandleData, client, history
<1> QED
  BY <1>1, <1>2, <1>3, <1>4 DEF ServerReceives

\* The second halves of the handlers pass on what their task claims.
LEMMA TaskStepClaims ==
  ASSUME TypeOK, Claims, NEW t \in tasks, ServerTask(t)
  PROVE  Claims'
<1>0. t \in Task
  BY DEF TypeOK
<1>1. CASE Install(t)
  <2>1. t.vip \in Vips /\ t.from \in Clients /\ Holds(t.from, t.vip)
    BY <1>0, <1>1, TaskFields DEF Install, Claims, ClaimsInFlight
  <2>2. InstallPeer(t.vip, t.from, net, tasks \ {t}) /\ UNCHANGED <<used, client, history>>
    BY <1>1 DEF Install
  <2>3. /\ net \subseteq net /\ tasks \ {t} \subseteq tasks
        /\ \A u \in tasks \ (tasks \ {t}) : u.op = "install" => u.vip = t.vip
    OBVIOUS
  <2> QED
    BY <2>1, <2>2, <2>3, InstallClaims
<1>2. CASE Broadcast(t)
  <2> DEFINE out == {[type |-> "peerlist", to |-> peers[v]] : v \in Registered \ {t.except}}
  <2>1. \A m \in out : PacketClaims(m)
    BY DEF PacketClaims
  <2>2. net' = Sent(net, out)
    BY <1>2 DEF Broadcast
  <2>3. \A m \in net' : m \in net \/ PacketClaims(m)
    <3> HIDE DEF out
    <3> QED
      BY <2>1, <2>2, SentWithin
  <2> QED
    BY <1>2, <2>3, QuietStep DEF Broadcast, client, history
<1>3. CASE Relay(t)
  <2>1. \A m \in net' : m \in net \/ PacketClaims(m)
    BY <1>3, SentWithin DEF Relay, PacketClaims
  <2> QED
    BY <1>3, <2>1, QuietStep DEF Relay, client, history
<1> QED
  BY <1>1, <1>2, <1>3 DEF ServerTask

\* A client adopts an address that its ack claims.
LEMMA ClientClaims ==
  ASSUME TypeOK, Claims, NEW m \in net, ~IsRequest(m), ClientReceives(m)
  PROVE  Claims'
<1>0. m \in Answer /\ m.to \in Clients
  BY AnswerFields DEF TypeOK, IsRequest
<1>1. CASE BindDone(m)
  <2>1. PICK rest \in Taken(m) : SendRegister(m.to, rest)
    BY <1>1 DEF BindDone
  <2>2. \A p \in net' : p \in net \/ PacketClaims(p)
    BY <2>1, SentWithin, TakenWithin DEF SendRegister, PacketClaims
  <2> QED
    BY <2>1, <2>2, QuietStep DEF SendRegister, server, history
<1>2. CASE Adopt(m)
  <2>1. Holds(m.to, m.vip)
    BY <1>2 DEF Adopt, Claims, ClaimsInFlight
  <2>2. \A c \in Clients : vip'[c] = vip[c] \/ Holds(c, vip'[c])
    BY <1>2, <2>1 DEF Adopt, TypeOK
  <2>3. net' \subseteq net
    BY <1>2, TakenWithin DEF Adopt
  <2> QED
    BY <1>2, <2>2, <2>3, QuietStep DEF Adopt, server, history
<1>3. CASE RegisterFails(m)
  BY <1>3, TakenWithin, QuietStep DEF RegisterFails, server, history
<1>4. CASE Receive(m)
  BY <1>4, TakenWithin, QuietStep DEF Receive, server, client, history
<1> QED
  BY <1>1, <1>2, <1>3, <1>4 DEF ClientReceives

\* A packet lost or refused takes its claim along.
LEMMA NetClaims ==
  ASSUME TypeOK, Claims, NEW m \in net, Lose(m) \/ Refuse(m)
  PROVE  Claims'
BY QuietStep DEF Lose, Refuse, server, client, history

\* What cleanup frees is recycled in the same step, so that claims to it keep holding.
LEMMA CleanupClaims ==
  ASSUME TypeOK, Claims, NEW S \in SUBSET Vips, Cleanup(S)
  PROVE  Claims'
<1>1. /\ used' = used \ S /\ recycled' = recycled \cup S
      /\ owner' = [v \in Vips |-> IF v \in S THEN NoOne ELSE owner[v]]
      /\ peers' = [v \in Vips |-> IF v \in S THEN NoOne ELSE peers[v]]
      /\ \A c \in Clients : vipIndex'[c] \in {NoVip, vipIndex[c]}
      /\ UNCHANGED <<tasks, vip, net>>
  BY DEF Cleanup, client
<1>2. \A c \in Clients, v \in Vips : Holds(c, v) => Holds(c, v)'
  BY <1>1 DEF Holds, TypeOK
<1>3. ClaimsInFlight'
  <2>1. \A t \in tasks : TaskClaims(t)'
    BY <1>2, TaskFields DEF TypeOK, Claims, ClaimsInFlight, TaskClaims
  <2>2. \A m \in net : PacketClaims(m)'
    BY <1>2, RequestFields, AnswerFields DEF TypeOK, Claims, ClaimsInFlight, PacketClaims
  <2> QED
    BY <1>1, <2>1, <2>2 DEF ClaimsInFlight, TaskClaims, PacketClaims
<1>4. ClaimsHeld'
  BY <1>1, <1>2 DEF TypeOK, Claims, ClaimsHeld
<1>5. Entries'
  BY <1>1, <1>2 DEF TypeOK, Claims, Entries, Registered
<1>6. AllocatorAgrees'
  BY <1>1 DEF TypeOK, Claims, AllocatorAgrees
<1>7. PoolAccounted'
  BY <1>1 DEF TypeOK, Claims, PoolAccounted
<1> QED
  BY <1>3, <1>4, <1>5, <1>6, <1>7 DEF Claims

\* A crash takes every address from its owner.
LEMMA CrashClaims ==
  ASSUME TypeOK, Claims, Crash
  PROVE  Claims'
<1>1. /\ used' = {} /\ recycled' = recycled \cup used /\ tasks' = {}
      /\ owner' = [v \in Vips |-> NoOne]
      /\ peers' = [v \in Vips |-> NoOne]
      /\ vipIndex' = [c \in Clients |-> NoVip]
      /\ UNCHANGED <<vip, net>>
  BY DEF Crash, client
<1>2. \A c \in Clients, v \in Vips : Holds(c, v) => Holds(c, v)'
  BY <1>1 DEF Holds, TypeOK, Claims, AllocatorAgrees
<1>3. ClaimsInFlight'
  <2>1. \A m \in net : PacketClaims(m)'
    BY <1>2, RequestFields, AnswerFields DEF TypeOK, Claims, ClaimsInFlight, PacketClaims
  <2> QED
    BY <1>1, <2>1 DEF ClaimsInFlight, PacketClaims
<1>4. ClaimsHeld'
  BY <1>1, <1>2 DEF TypeOK, Claims, ClaimsHeld
<1>5. Entries' /\ AllocatorAgrees' /\ PoolAccounted'
  BY <1>1 DEF Entries, Registered, AllocatorAgrees, PoolAccounted
<1> QED
  BY <1>3, <1>4, <1>5 DEF Claims

\* A client only says of itself what it holds.
LEMMA ClientStepClaims ==
  ASSUME TypeOK, Claims, NEW c \in Clients,
         \/ Start(c) \/ BindTimeout(c) \/ RegisterTimeout(c) \/ Heartbeat(c) \/ Stop(c)
         \/ \E v \in Vips : SendTo(c, v)
  PROVE  Claims'
<1>1. CASE Start(c)
  <2>1. \A m \in net' : m \in net \/ PacketClaims(m)
    BY <1>1, SentWithin DEF Start, PacketClaims
  <2> QED
    BY <1>1, <2>1, QuietStep DEF Start, server, history
<1>2. CASE BindTimeout(c)
  <2>1. \A m \in net' : m \in net \/ PacketClaims(m)
    BY <1>2, SentWithin DEF BindTimeout, SendRegister, PacketClaims
  <2> QED
    BY <1>2, <2>1, QuietStep DEF BindTimeout, SendRegister, server, history
<1>3. CASE RegisterTimeout(c)
  BY <1>3, QuietStep DEF RegisterTimeout, server, history
<1>4. CASE Heartbeat(c)
  <2>1. PacketClaims(HeartbeatOf(c))
    BY DEF PacketClaims, HeartbeatOf, Claims, ClaimsHeld
  <2> QED
    BY <1>4, <2>1, QuietStep DEF Heartbeat, server, client, history
<1>5. CASE Stop(c)
  <2>1. \A d \in Clients : vip'[d] \in {vip[d], NoVip}
    BY <1>5 DEF Stop, TypeOK
  <2> QED
    BY <1>5, <2>1, QuietStep DEF Stop, server, history
<1>6. CASE \E v \in Vips : SendTo(c, v)
  <2>1. PICK v \in Vips : SendTo(c, v)
    BY <1>6
  <2>2. \A m \in net' : m \in net \/ PacketClaims(m)
    BY <2>1, SentWithin DEF SendTo, PacketClaims
  <2> QED
    BY <2>1, <2>2, QuietStep DEF SendTo, server, client, history
<1> QED
  BY <1>1, <1>2, <1>3, <1>4, <1>5, <1>6

\* Every step keeps the claims true.
LEMMA NextClaims == TypeOK /\ Claims /\ [Next]_vars => Claims'
<1> SUFFICES ASSUME TypeOK, Claims, [Next]_vars PROVE Claims'
  OBVIOUS
<1>1. CASE \E m \in net : IsRequest(m) /\ ServerReceives(m)
  BY <1>1, ServerClaims
<1>2. CASE \E m \in net : ~IsRequest(m) /\ ClientReceives(m)
  BY <1>2, ClientClaims
<1>3. CASE \E m \in net : Lose(m) \/ Refuse(m)
  BY <1>3, NetClaims
<1>4. CASE \E t \in tasks : ServerTask(t)
  BY <1>4, TaskStepClaims
<1>5. CASE \E S \in SUBSET Vips : Cleanup(S)
  BY <1>5, CleanupClaims
<1>6. CASE Crash
  BY <1>6, CrashClaims
<1>7. CASE Restart
  BY <1>7, QuietStep DEF Restart, client, history
<1>8. CASE \/ \E c \in Clients : Start(c) \/ BindTimeout(c) \/ RegisterTimeout(c)
                                 \/ Heartbeat(c) \/ Stop(c)
           \/ \E c \in Clients, v \in Vips : SendTo(c, v)
  BY <1>8, ClientStepClaims
<1>9. CASE UNCHANGED vars
  BY <1>9, QuietStep DEF vars, server, client, history
<1> QED
  BY <1>1, <1>2, <1>3, <1>4, <1>5, <1>6, <1>7, <1>8, <1>9 DEF Next

\* The invariant of the module is what was just shown to be kept.
LEMMA IInvIs == IInv <=> TypeOK /\ Claims
BY DEF IInv, Claims

\* The inductive invariant: whoever may come to answer to an address is the one
\* it was allocated for, unless the server took the address back.
THEOREM Inductive == Spec => []IInv
<1> QED
  BY InitType, InitClaims, NextType, NextClaims, IInvIs, PTL DEF Spec

-----------------------------------------------------------------------------
(* What the invariant gives. *)

\* allocate, cleanup and the heartbeats that re-register never put two clients
\* under one address the server has not taken back.
THEOREM SingleHolderHolds == Spec => []SingleHolder
<1>1. IInv => SingleHolder
  BY DEF IInv, TypeOK, ClaimsHeld, Holds, SingleHolder
<1> QED
  BY <1>1, Inductive, PTL

\* No address leaves the pool for good: cleanup will find each one.
THEOREM PoolAccountedHolds == Spec => []PoolAccounted
<1>1. IInv => PoolAccounted
  BY DEF IInv
<1> QED
  BY <1>1, Inductive, PTL
-----------------------------------------------------------------------------
(* Frames are relayed faithfully. *)

\* What RelayFaithful says of a step.
Relayed ==
  \A m \in net' \ net : m.type = "frame" =>
    \E t \in tasks : /\ t.op = "relay"
                     /\ m.src \in recycled \/ owner[m.src] = t.from
                     /\ t.dst \in recycled \/ owner[t.dst] = m.to

\* A step that sends no frame relays nothing wrongly.
LEMMA NoNewFrame ==
  ASSUME \A m \in net' : m \in net \/ m.type # "frame"
  PROVE  Relayed
BY DEF Relayed

\* A relayed frame carries an address its sender holds to the holder of its
\* destination.
LEMMA RelayRelayed ==
  ASSUME IInv, NEW t \in tasks, Relay(t)
  PROVE  Relayed
<1>1. t \in Task /\ t.op = "relay" /\ t.from \in Clients
  BY TaskFields DEF IInv, TypeOK, Relay
<1>2. CASE vipIndex[t.from] = NoVip
  BY <1>2, NoNewFrame DEF Relay
<1>3. CASE vipIndex[t.from] # NoVip
  <2> DEFINE frame == [type |-> "frame", to |-> t.to, src |-> vipIndex[t.from]]
  <2>1. Holds(t.from, vipIndex[t.from]) /\ Holds(t.to, t.dst)
    BY <1>1, <1>3 DEF IInv, ClaimsHeld, ClaimsInFlight
  <2>2. \A m \in net' \ net : m = frame
    BY <1>3, SentWithin DEF Relay
  <2> QED
    BY <1>1, <2>1, <2>2 DEF Relayed, Holds
<1> QED
  BY <1>2, <1>3

\* Every step relays faithfully.
LEMMA NextRelayed == IInv /\ [Next]_vars => [Relayed]_vars
<1> SUFFICES ASSUME IInv, Next PROVE Relayed
  BY DEF vars
<1>1. CASE \E m \in net : IsRequest(m) /\ ServerReceives(m)
  <2>1. PICK m \in net : ServerReceives(m)
    BY <1>1
  <2>2. CASE HandleBind(m)
    <3>1. PICK rest \in Taken(m) : net' = Sent(rest, {[type |-> "bound", to |-> m.from]})
      BY <2>2 DEF HandleBind
    <3> QED
      BY <3>1, SentWithin, TakenWithin, NoNewFrame
  <2>3. CASE HandleRegisterNew(m) \/ HandleData(m)
    BY <2>3, TakenWithin, NoNewFrame DEF HandleRegisterNew, HandleData
  <2>4. CASE HandleRegisterOwn(m)
    <3>1. PICK rest \in Taken(m) : InstallPeer(m.vip, m.from, rest, tasks)
      BY <2>4 DEF HandleRegisterOwn
    <3> QED
      BY <3>1, SentWithin, TakenWithin, NoNewFrame DEF InstallPeer
  <2> QED
    BY <2>1, <2>2, <2>3, <2>4 DEF ServerReceives
<1>2. CASE \E m \in net : ~IsRequest(m) /\ ClientReceives(m)
  <2>1. PICK m \in net : ClientReceives(m)
    BY <1>2
  <2>2. CASE BindDone(m)
    <3>1. PICK rest \in Taken(m) : SendRegister(m.to, rest)
      BY <2>2 DEF BindDone
    <3> QED
      BY <3>1, SentWithin, TakenWithin, NoNewFrame DEF SendRegister
  <2>3. CASE Adopt(m) \/ RegisterFails(m) \/ Receive(m)
    BY <2>3, TakenWithin, NoNewFrame DEF Adopt, RegisterFails, Receive
  <2> QED
    BY <2>1, <2>2, <2>3 DEF ClientReceives
<1>3. CASE \E m \in net : Lose(m) \/ Refuse(m)
  BY <1>3, NoNewFrame DEF Lose, Refuse
<1>4. CASE \E t \in tasks : ServerTask(t)
  <2>1. PICK t \in tasks : ServerTask(t)
    BY <1>4
  <2>2. CASE Install(t)
    BY <2>2, SentWithin, NoNewFrame DEF Install, InstallPeer
  <2>3. CASE Broadcast(t)
    <3> DEFINE out == {[type |-> "peerlist", to |-> peers[v]] : v \in Registered \ {t.except}}
    <3>1. \A m \in out : m.type # "frame"
      OBVIOUS
    <3>2. net' = Sent(net, out)
      BY <2>3 DEF Broadcast
    <3> HIDE DEF out
    <3> QED
      BY <3>1, <3>2, SentWithin, NoNewFrame
  <2> QED
    BY <2>1, <2>2, <2>3, RelayRelayed DEF ServerTask
<1>5. CASE (\E S \in SUBSET Vips : Cleanup(S)) \/ Crash \/ Restart
  BY <1>5, NoNewFrame DEF Cleanup, Crash, Restart, client
<1>6. CASE \E c \in Clients : Start(c) \/ BindTimeout(c) \/ RegisterTimeout(c) \/ Heartbeat(c) \/ Stop(c)
  BY <1>6, SentWithin, NoNewFrame
     DEF Start, BindTimeout, SendRegister, RegisterTimeout, Heartbeat, HeartbeatOf, Stop
<1>7. CASE \E c \in Clients, v \in Vips : SendTo(c, v)
  BY <1>7, SentWithin, NoNewFrame DEF SendTo
<1> QED
  BY <1>1, <1>2, <1>3, <1>4, <1>5, <1>6, <1>7 DEF Next

\* Whatever registrations, cleanups and heartbeats come between handleRelayData's
\* two lookups, a frame names its sender and reaches the destination's holder,
\* but for addresses the server took back.
THEOREM RelayFaithfulHolds == Spec => RelayFaithful
<1>1. [Relayed]_vars <=>
        [\A m \in net' \ net : m.type = "frame" =>
           \E t \in tasks : /\ t.op = "relay"
                            /\ m.src \in recycled \/ owner[m.src] = t.from
                            /\ t.dst \in recycled \/ owner[t.dst] = m.to]_vars
  BY DEF Relayed
<1> QED
  BY <1>1, NextRelayed, Inductive, PTL DEF Spec, RelayFaithful

-----------------------------------------------------------------------------
(* The server implements the address lease. *)

\* Initial states are initial states of the lease.
LEMMA InitLease == Init => Lease!LeaseInit
BY DEF Init, Lease!LeaseInit

\* Steps that the lease does not see.
LEMMA Unseen ==
  ASSUME UNCHANGED <<owner, recycled, vip>>
  PROVE  [Lease!LeaseNext]_Lease!leaseVars
BY DEF Lease!leaseVars

\* Every step is a step of the lease or one it does not see.
LEMMA NextLease == IInv /\ [Next]_vars => [Lease!LeaseNext]_Lease!leaseVars
<1> SUFFICES ASSUME IInv, [Next]_vars PROVE [Lease!LeaseNext]_Lease!leaseVars
  OBVIOUS
<1>0. TypeOK /\ ClaimsInFlight /\ AllocatorAgrees
  BY DEF IInv
<1>1. CASE \E m \in net : IsRequest(m) /\ ServerReceives(m)
  <2>1. PICK m \in net : IsRequest(m) /\ ServerReceives(m)
    BY <1>1
  <2>2. m.from \in Clients
    BY <2>1, RequestFields DEF IsRequest
  <2>3. CASE HandleRegisterNew(m)
    <3>1. CASE Free = {}
      BY <2>3, <3>1, Unseen DEF HandleRegisterNew, client
    <3>2. CASE Free # {}
      <4>1. FirstFree \in Vips /\ owner[FirstFree] = NoOne
        BY <1>0, <3>2, FirstFreeIsFree DEF AllocatorAgrees
      <4>2. Lease!Grant(FirstFree, m.from)
        BY <2>3, <3>2, <4>1 DEF HandleRegisterNew, Lease!Grant, client
      <4> QED
        BY <2>2, <4>1, <4>2 DEF Lease!LeaseNext
    <3> QED
      BY <3>1, <3>2
  <2>4. CASE HandleBind(m) \/ HandleRegisterOwn(m) \/ HandleData(m)
    BY <2>4, Unseen DEF HandleBind, HandleRegisterOwn, HandleData, client, history
  <2> QED
    BY <2>1, <2>3, <2>4 DEF ServerReceives
<1>2. CASE \E m \in net : ~IsRequest(m) /\ ClientReceives(m)
  <2>1. PICK m \in net : ~IsRequest(m) /\ ClientReceives(m)
    BY <1>2
  <2>2. CASE Adopt(m)
    <3>1. m.to \in Clients /\ m.vip \in Vips
      BY <1>0, <2>1, <2>2, AnswerFields DEF TypeOK, IsRequest, Adopt
    <3>2. m.vip \in recycled \/ owner[m.vip] = m.to
      BY <1>0, <2>2 DEF ClaimsInFlight, Adopt, Holds
    <3>3. Lease!Adopt(m.to, m.vip)
      BY <2>2, <3>2 DEF Adopt, Lease!Adopt, history
    <3> QED
      BY <3>1, <3>3 DEF Lease!LeaseNext
  <2>3. CASE BindDone(m) \/ RegisterFails(m) \/ Receive(m)
    BY <2>3, Unseen DEF BindDone, SendRegister, RegisterFails, Receive, client, history
  <2> QED
    BY <2>1, <2>2, <2>3 DEF ClientReceives
<1>3. CASE \E S \in SUBSET Vips : Cleanup(S)
  <2>1. PICK S \in SUBSET Vips : Cleanup(S)
    BY <1>3
  <2>2. Lease!Reclaim(S)
    BY <2>1 DEF Cleanup, Lease!Reclaim, client
  <2> QED
    BY <2>2 DEF Lease!LeaseNext
<1>4. CASE Crash
  <2>1. owner' = [v \in Vips |-> IF v \in used THEN NoOne ELSE owner[v]]
    BY <1>0, <1>4 DEF TypeOK, AllocatorAgrees, Crash
  <2>2. Lease!Reclaim(used)
    BY <1>4, <2>1 DEF Crash, Lease!Reclaim, client
  <2> QED
    BY <1>0, <2>2 DEF TypeOK, Lease!LeaseNext
<1>5. CASE \E c \in Clients : Stop(c)
  <2>1. PICK c \in Clients : Stop(c)
    BY <1>5
  <2>2. Lease!Leave(c)
    BY <2>1 DEF Stop, Lease!Leave, history
  <2> QED
    BY <2>2 DEF Lease!LeaseNext
<1>6. CASE \/ Restart \/ \E m \in net : Lose(m) \/ Refuse(m)
           \/ \E t \in tasks : ServerTask(t)
  BY <1>6, Unseen DEF Restart, Lose, Refuse, ServerTask, Install, Broadcast, Relay, client, history
<1>7. CASE \/ \E c \in Clients : Start(c) \/ BindTimeout(c) \/ RegisterTimeout(c) \/ Heartbeat(c)
           \/ \E c \in Clients, v \in Vips : SendTo(c, v)
  BY <1>7, Unseen DEF Start, BindTimeout, SendRegister, RegisterTimeout, Heartbeat, SendTo, client, history
<1>8. CASE UNCHANGED vars
  BY <1>8, Unseen DEF vars, client, history
<1> QED
  BY <1>1, <1>2, <1>3, <1>4, <1>5, <1>6, <1>7, <1>8 DEF Next

\* The server, its clients and the network implement VipLease: a register
\* without an address grants, a cleanup or a crash reclaims, an ack is adopted
\* only by whom the address was granted to or after it was reclaimed.
THEOREM LeaseImplemented == Spec => ImplementsLease
<1> QED
  BY InitLease, NextLease, Inductive, PTL DEF Spec, ImplementsLease, Lease!LeaseSpec
=============================================================================
