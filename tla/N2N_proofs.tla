----------------------------- MODULE N2N_proofs -----------------------------
(***************************************************************************)
(* Theorems of N2N, for every set of edges, pool and bound.                *)
(***************************************************************************)
EXTENDS N2N, TLAPS

Leasing == INSTANCE VipLease_proofs WITH
             Endpoints <- Edges, holder <- owner, working <- vip

USE N2NAssumption

-----------------------------------------------------------------------------
(* The operators the actions are built from. *)

\* The unspecified address is not one of the pool.
LEMMA NoVipOutside == NoVip \notin Vips
BY DEF NoVip, Vips

\* allocate returns an address of the pool that was not in use.
LEMMA FirstFreeIsFree == Free # {} => FirstFree \in Vips \ used
<1> SUFFICES ASSUME Free # {} PROVE FirstFree \in Free
  BY DEF Free
<1>1. Free \in SUBSET Nat
  BY DEF Free, Vips
<1>2. \E v \in Free : \A w \in Free : v <= w
  BY <1>1, Leasing!LeastExists
<1> QED
  BY <1>2 DEF FirstFree

\* Nothing is in flight that was not there or has not been sent.
LEMMA SentWithin ==
  ASSUME NEW base, NEW out, NEW m \in Sent(base, out)
  PROVE  m \in base \/ m \in out
BY DEF Sent

\* Taking a packet leaves what was in flight, the packet itself or not.
LEMMA TakenWithin ==
  ASSUME NEW m, NEW rest \in Taken(m)
  PROVE  rest \subseteq net
BY DEF Taken

\* The fields of a packet to the supernode, of one to an edge, and of a task.
LEMMA RequestFields ==
  ASSUME NEW m \in Request
  PROVE  /\ m.type \in {"register", "bye", "data"} /\ m.from \in Edges
         /\ m.type = "bye" => m.vip \in Vips
         /\ m.type = "data" => m.dst \in Vips /\ m.to = Super
BY DEF Request

\* The fields of what the supernode sends.
LEMMA AnswerFields ==
  ASSUME NEW m \in Answer
  PROVE  /\ m.type \in {"ack", "update", "peers", "data"} /\ m.to \in Edges
         /\ m.type = "ack" => m.vip \in Vips
         /\ m.type \in {"update", "peers"} => m.list \in SUBSET Entry
         /\ m.type = "data" => m.dst \in Vips
BY DEF Answer

\* The fields of an entry of a peer list.
LEMMA EntryFields ==
  ASSUME NEW p \in Entry
  PROVE  p.vip \in Vips /\ p.addr \in Edges
BY DEF Entry

\* The fields of a handler between its critical sections.
LEMMA TaskFields ==
  ASSUME NEW t \in Task
  PROVE  t.op \in {"install", "broadcast"} /\ t.vip \in Vips /\ t.addr \in Edges
BY DEF Task

\* The peer list a heartbeat is answered with.
LEMMA EntriesAre ==
  ASSUME TypeOK
  PROVE  Entries \in SUBSET Entry /\ \A p \in Entries : p.vip \in Registered /\ p.addr = peers[p.vip]
BY DEF TypeOK, Entries, Registered, Entry, Addrs

-----------------------------------------------------------------------------
(* Type correctness. *)

\* The overlay starts within its types.
LEMMA InitType == Init => TypeOK
BY NoVipOutside DEF Init, TypeOK, NoRoutes, Addrs

\* What cleanup, bye and a crash forget stays within the types.
LEMMA ForgetType ==
  ASSUME TypeOK, NEW S \in SUBSET Vips, Forget(S)
  PROVE  /\ used' \in SUBSET Vips /\ peers' \in [Vips -> Addrs]
         /\ owner' \in [Vips -> Addrs] /\ recycled' \in SUBSET Vips
BY DEF TypeOK, Forget, Addrs

\* The handlers of the supernode stay within the types.
LEMMA SupernodeType ==
  ASSUME TypeOK, NEW m \in net, IsRequest(m), SupernodeReceives(m)
  PROVE  TypeOK'
<1> USE RequestFields DEF IsRequest
<1>1. CASE HandleRegister(m)
  <2>1. net' \in SUBSET (Request \cup Answer)
    BY <1>1, TakenWithin DEF TypeOK, HandleRegister
  <2>2. CASE Free = {}
    BY <1>1, <2>1, <2>2 DEF TypeOK, HandleRegister, edge
  <2>3. CASE Free # {}
    <3>1. FirstFree \in Vips
      BY <2>3, FirstFreeIsFree
    <3>2. [op |-> "install", vip |-> FirstFree, addr |-> m.from] \in Task
      BY <3>1 DEF Task
    <3> QED
      BY <1>1, <2>1, <2>3, <3>1, <3>2 DEF TypeOK, HandleRegister, edge, Addrs
  <2> QED
    BY <2>2, <2>3
<1>2. CASE HandleBye(m)
  <2>1. net' \in SUBSET (Request \cup Answer)
    BY <1>2, TakenWithin DEF TypeOK, HandleBye
  <2> QED
    BY <1>2, <2>1, ForgetType, {m.vip} \cap Registered \in SUBSET Vips
       DEF TypeOK, HandleBye, edge, Registered
<1>3. CASE HandleData(m)
  BY <1>3, TakenWithin DEF TypeOK, HandleData, supernode, edge, history
<1> QED
  BY <1>1, <1>2, <1>3 DEF SupernodeReceives

\* The second halves of the handlers stay within the types.
LEMMA TaskType ==
  ASSUME TypeOK, NEW t \in tasks, SupernodeTask(t)
  PROVE  TypeOK'
<1>0. t \in Task
  BY DEF TypeOK
<1>1. CASE Install(t)
  <2>1. [type |-> "ack", to |-> t.addr, vip |-> t.vip] \in Answer
    BY <1>0, TaskFields DEF Answer
  <2>2. net' \in SUBSET (Request \cup Answer)
    BY <1>1, <2>1, SentWithin DEF TypeOK, Install
  <2>3. [t EXCEPT !.op = "broadcast"] \in Task
    BY <1>0 DEF Task
  <2> QED
    BY <1>0, <1>1, <2>2, <2>3, TaskFields DEF TypeOK, Install, edge, history, Addrs
<1>2. CASE Broadcast(t)
  <2> DEFINE news == {[vip |-> t.vip, addr |-> t.addr]}
             out == {[type |-> "update", to |-> a, list |-> news] :
                       a \in {peers[v] : v \in Registered} \ {t.addr}}
  <2>1. news \in SUBSET Entry
    BY <1>0, TaskFields DEF Entry
  <2>2. out \subseteq Answer
    <3> HIDE DEF news
    <3> QED
      BY <2>1 DEF TypeOK, Registered, Answer, Addrs
  <2>3. net' = Sent(net, out)
    BY <1>2 DEF Broadcast
  <2>4. net' \in SUBSET (Request \cup Answer)
    <3> HIDE DEF out
    <3> QED
      BY <2>2, <2>3, SentWithin DEF TypeOK
  <2> QED
    BY <1>2, <2>4 DEF TypeOK, Broadcast, edge, history
<1> QED
  BY <1>1, <1>2 DEF SupernodeTask

\* What an edge does with a packet stays within the types.
LEMMA EdgeType ==
  ASSUME TypeOK, NEW m \in net, ~IsRequest(m), EdgeReceives(m)
  PROVE  TypeOK'
<1>0. m \in Answer /\ m.to \in Edges
  BY AnswerFields DEF TypeOK, IsRequest
<1>1. CASE Adopt(m)
  BY <1>0, <1>1, AnswerFields, TakenWithin, NoVipOutside DEF TypeOK, Adopt, supernode, history
<1>2. CASE RegisterFails(m)
  BY <1>0, <1>2, TakenWithin DEF TypeOK, RegisterFails, supernode, history
<1>3. CASE Learn(m)
  <2> DEFINE new == [v \in Vips |->
                       IF v # vip[m.to] /\ \E p \in m.list : p.vip = v
                       THEN (CHOOSE p \in m.list : p.vip = v).addr
                       ELSE routes[m.to][v]]
  <2>1. m.list \in SUBSET Entry
    BY <1>0, <1>3, AnswerFields DEF Learn
  <2>2. new \in [Vips -> Addrs]
    BY <1>0, <2>1, EntryFields DEF TypeOK, Addrs
  <2>3. routes' = [routes EXCEPT ![m.to] = new]
    BY <1>3 DEF Learn
  <2>4. routes' \in [Edges -> [Vips -> Addrs]]
    <3> HIDE DEF new
    <3> QED
      BY <1>0, <2>2, <2>3 DEF TypeOK
  <2> QED
    BY <1>3, <2>4, TakenWithin DEF TypeOK, Learn, supernode, history
<1>4. CASE Receive(m)
  BY <1>4, TakenWithin DEF TypeOK, Receive, supernode, edge, history
<1>5. CASE Refuse(m)
  BY <1>5 DEF TypeOK, Refuse, supernode, edge, history
<1> QED
  BY <1>1, <1>2, <1>3, <1>4, <1>5 DEF EdgeReceives

\* Cleanup, crash and restart stay within the types.
LEMMA SupernodeLifeType ==
  ASSUME TypeOK, (\E S \in SUBSET Vips : Cleanup(S)) \/ Crash \/ Restart
  PROVE  TypeOK'
<1>1. CASE \E S \in SUBSET Vips : Cleanup(S)
  <2>1. PICK S \in SUBSET Vips : Cleanup(S)
    BY <1>1
  <2> QED
    BY <2>1, ForgetType DEF TypeOK, Cleanup, edge
<1>2. CASE Crash
  BY <1>2 DEF TypeOK, Crash, edge, NoRoutes, Addrs
<1>3. CASE Restart
  BY <1>3 DEF TypeOK, Restart, edge, history
<1> QED
  BY <1>1, <1>2, <1>3

\* What an edge does of its own stays within the types.
LEMMA EdgeStepType ==
  ASSUME TypeOK, NEW e \in Edges,
         \/ Start(e) \/ RegisterTimeout(e) \/ Heartbeat(e) \/ Stop(e) \/ Die(e)
         \/ \E v \in Vips : SendTo(e, v)
  PROVE  TypeOK'
<1>1. CASE Start(e)
  <2>1. [type |-> "register", from |-> e] \in Request
    BY DEF Request
  <2>2. net' \in SUBSET (Request \cup Answer)
    BY <1>1, <2>1, SentWithin DEF TypeOK, Start
  <2> QED
    BY <1>1, <2>2 DEF TypeOK, Start, supernode, history, NoRoutes, Addrs
<1>2. CASE RegisterTimeout(e)
  BY <1>2 DEF TypeOK, RegisterTimeout, supernode, history
<1>3. CASE Heartbeat(e)
  <2>1. [type |-> "peers", to |-> e, list |-> Entries] \in Answer
    BY EntriesAre DEF Answer
  <2>2. net' \in SUBSET (Request \cup Answer)
    BY <1>3, <2>1, SentWithin DEF TypeOK, Heartbeat
  <2> QED
    BY <1>3, <2>2 DEF TypeOK, Heartbeat, supernode, edge, history
<1>4. CASE Stop(e)
  <2>1. [type |-> "bye", from |-> e, vip |-> vip[e]] \in Request
    BY <1>4 DEF TypeOK, Stop, Off, Request
  <2>2. net' \in SUBSET (Request \cup Answer)
    BY <1>4, <2>1, SentWithin DEF TypeOK, Stop
  <2> QED
    BY <1>4, <2>2 DEF TypeOK, Stop, Off, supernode, history
<1>5. CASE Die(e)
  BY <1>5 DEF TypeOK, Die, Off, supernode, history
<1>6. CASE \E v \in Vips : SendTo(e, v)
  <2>1. PICK v \in Vips : SendTo(e, v)
    BY <1>6
  <2> DEFINE to == IF routes[e][v] = NoOne THEN Super ELSE routes[e][v]
             p  == [type |-> "data", from |-> e, dst |-> v, to |-> to]
  <2>2. p \in Request \cup Answer
    <3>1. to \in Edges \/ to = Super
      BY DEF TypeOK, Addrs
    <3> HIDE DEF to
    <3> QED
      BY <3>1 DEF Request, Answer
  <2>3. net' = Sent(net, {p})
    BY <2>1 DEF SendTo
  <2>4. net' \in SUBSET (Request \cup Answer)
    <3> HIDE DEF p
    <3> QED
      BY <2>2, <2>3, SentWithin DEF TypeOK
  <2> QED
    BY <2>1, <2>4 DEF TypeOK, SendTo, supernode, edge, history
<1> QED
  BY <1>1, <1>2, <1>3, <1>4, <1>5, <1>6

\* Every step stays within the types.
LEMMA NextType == TypeOK /\ [Next]_vars => TypeOK'
<1> SUFFICES ASSUME TypeOK, [Next]_vars PROVE TypeOK'
  OBVIOUS
<1>1. CASE \E m \in net : IsRequest(m) /\ SupernodeReceives(m)
  BY <1>1, SupernodeType
<1>2. CASE \E m \in net : ~IsRequest(m) /\ EdgeReceives(m)
  BY <1>2, EdgeType
<1>3. CASE \E m \in net : Lose(m)
  BY <1>3 DEF TypeOK, Lose, supernode, edge, history
<1>4. CASE \E t \in tasks : SupernodeTask(t)
  BY <1>4, TaskType
<1>5. CASE (\E S \in SUBSET Vips : Cleanup(S)) \/ Crash \/ Restart
  BY <1>5, SupernodeLifeType
<1>6. CASE \/ \E e \in Edges : Start(e) \/ RegisterTimeout(e) \/ Heartbeat(e) \/ Stop(e) \/ Die(e)
           \/ \E e \in Edges, v \in Vips : SendTo(e, v)
  BY <1>6, EdgeStepType
<1>7. CASE UNCHANGED vars
  BY <1>7 DEF TypeOK, vars, supernode, edge, history
<1> QED
  BY <1>1, <1>2, <1>3, <1>4, <1>5, <1>6, <1>7 DEF Next

\* Every variable keeps its type in every behaviour of the supernode, the edges
\* and the network, whatever the pool and the bounds.
THEOREM TypeCorrect == Spec => []TypeOK
<1> QED
  BY InitType, NextType, PTL DEF Spec
-----------------------------------------------------------------------------
(* An edge never routes its own address. *)

Own == NothingLearnt /\ NotViaSelf

\* At first no edge has an address or a route.
LEMMA InitOwn == Init => Own
BY DEF Init, Own, NothingLearnt, NotViaSelf

\* Every step keeps edges from routing their own address.
LEMMA NextOwn == TypeOK /\ Own /\ [Next]_vars => Own'
<1> SUFFICES ASSUME TypeOK, Own, [Next]_vars PROVE Own'
  OBVIOUS
<1> USE NoVipOutside DEF Own, NothingLearnt, NotViaSelf
<1>1. ASSUME UNCHANGED edge PROVE Own'
  BY <1>1 DEF edge
<1>2. ASSUME NEW m \in net, ~IsRequest(m), EdgeReceives(m) PROVE Own'
  <2>0. m \in Answer /\ m.to \in Edges
    BY <1>2, AnswerFields DEF TypeOK, IsRequest
  <2>1. CASE Adopt(m)
    BY <2>0, <2>1, AnswerFields DEF TypeOK, Adopt, NoRoutes
  <2>2. CASE RegisterFails(m)
    BY <2>0, <2>2 DEF TypeOK, RegisterFails
  <2>3. CASE Learn(m)
    <3> DEFINE known(v) == v # vip[m.to] /\ \E p \in m.list : p.vip = v
               told(v) == (CHOOSE p \in m.list : p.vip = v).addr
    <3>1. /\ routes' = [routes EXCEPT ![m.to] =
                          [v \in Vips |-> IF known(v) THEN told(v) ELSE routes[m.to][v]]]
          /\ UNCHANGED <<phase, vip>>
          /\ phase[m.to] = "running"
      BY <2>3 DEF Learn
    <3>2. vip[m.to] \in Vips
      BY <2>0, <3>1 DEF TypeOK
    <3>3. ~known(vip[m.to])
      OBVIOUS
    <3> HIDE DEF known, told
    <3>4. routes'[m.to][vip[m.to]] = routes[m.to][vip[m.to]]
      BY <2>0, <3>1, <3>2, <3>3 DEF TypeOK
    <3>5. \A e \in Edges \ {m.to} : routes'[e] = routes[e]
      BY <3>1 DEF TypeOK
    <3> QED
      BY <3>1, <3>4, <3>5
  <2>4. CASE Receive(m) \/ Refuse(m)
    BY <1>1, <2>4 DEF Receive, Refuse
  <2> QED
    BY <1>2, <2>1, <2>2, <2>3, <2>4 DEF EdgeReceives
<1>3. ASSUME NEW e \in Edges, Start(e) \/ RegisterTimeout(e) \/ Stop(e) \/ Die(e) PROVE Own'
  <2>1. CASE Start(e)
    BY <2>1 DEF TypeOK, Start
  <2>2. CASE RegisterTimeout(e)
    BY <2>2 DEF TypeOK, RegisterTimeout
  <2>3. CASE Off(e)
    BY <2>3 DEF TypeOK, Off
  <2> QED
    BY <1>3, <2>1, <2>2, <2>3 DEF Stop, Die
<1>4. CASE \E m \in net : IsRequest(m) /\ SupernodeReceives(m)
  BY <1>1, <1>4 DEF SupernodeReceives, HandleRegister, HandleBye, HandleData
<1>5. CASE \E t \in tasks : SupernodeTask(t)
  BY <1>1, <1>5 DEF SupernodeTask, Install, Broadcast
<1>6. CASE (\E S \in SUBSET Vips : Cleanup(S)) \/ Crash \/ Restart \/ (\E m \in net : Lose(m))
  BY <1>1, <1>6 DEF Cleanup, Crash, Restart, Lose
<1>7. CASE (\E e \in Edges : Heartbeat(e)) \/ \E e \in Edges, v \in Vips : SendTo(e, v)
  BY <1>1, <1>7 DEF Heartbeat, SendTo
<1>8. CASE UNCHANGED vars
  BY <1>1, <1>8 DEF vars
<1> QED
  BY <1>2, <1>3, <1>4, <1>5, <1>6, <1>7, <1>8 DEF Next

-----------------------------------------------------------------------------
(* Who may answer to an address. *)

Faithful == ClaimsInFlight /\ Claims /\ DirectFaithful /\ AllocatorAgrees /\ PoolAccounted

\* What Faithful says of one packet, one task and one edge.
PacketClaims(m) ==
  /\ m.type = "ack" => Holds(m.to, m.vip)
  /\ m.type \in {"update", "peers"} => \A p \in m.list : Holds(p.addr, p.vip)
  /\ m.type = "data" => m.to = Super \/ Holds(m.to, m.dst)

TaskClaims(t) == Holds(t.addr, t.vip)

EdgeClaims(e) ==
  /\ vip[e] = NoVip \/ Holds(e, vip[e])
  /\ \A v \in Vips : routes[e][v] = NoOne \/ Holds(routes[e][v], v)

Bearers ==
  /\ \A m \in net : PacketClaims(m)
  /\ \A t \in tasks : TaskClaims(t)
  /\ \A e \in Edges : EdgeClaims(e)
  /\ \A v \in Registered : Holds(peers[v], v)

\* The inductive invariant, by its parts.
LEMMA FaithfulIs == Faithful <=> Bearers /\ AllocatorAgrees /\ PoolAccounted
BY DEF Faithful, Bearers, PacketClaims, TaskClaims, EdgeClaims,
       ClaimsInFlight, Claims, DirectFaithful

\* The parts after a step are the invariant after it.
LEMMA FaithfulNext == Bearers' /\ AllocatorAgrees' /\ PoolAccounted' => Faithful'
BY DEF Faithful, Bearers, PacketClaims, TaskClaims, EdgeClaims,
       ClaimsInFlight, Claims, DirectFaithful

\* At first nobody names an endpoint for an address.
LEMMA InitFaithful == Init => Faithful
BY DEF Init, Faithful, ClaimsInFlight, Claims, DirectFaithful, AllocatorAgrees,
       PoolAccounted, Registered, NoRoutes

\* A step that leaves the allocator and its history alone keeps Faithful when
\* what it adds or changes bears claims that hold, and no entry goes.
LEMMA QuietStep ==
  ASSUME Faithful, UNCHANGED <<used, history>>,
         \A m \in net' : m \in net \/ PacketClaims(m),
         \A t \in tasks' : t \in tasks \/ TaskClaims(t),
         \A e \in Edges : vip'[e] \in {vip[e], NoVip} \/ Holds(e, vip'[e]),
         \A e \in Edges, v \in Vips :
           routes'[e][v] \in {routes[e][v], NoOne} \/ Holds(routes'[e][v], v),
         \A v \in Vips : peers'[v] = peers[v] \/ Holds(peers'[v], v),
         \A v \in Vips : peers[v] # NoOne => peers'[v] # NoOne,
         \A t \in tasks \ tasks' : t.op = "install" => peers'[t.vip] # NoOne
  PROVE  Faithful'
<1>0. Bearers /\ AllocatorAgrees /\ PoolAccounted
  BY FaithfulIs
<1>1. \A e, v : Holds(e, v)' <=> Holds(e, v)
  BY DEF Holds, history
<1>2. /\ \A m : PacketClaims(m) => PacketClaims(m)'
      /\ \A t : TaskClaims(t) => TaskClaims(t)'
  BY <1>1 DEF PacketClaims, TaskClaims
<1>3. \A e \in Edges : EdgeClaims(e)'
  BY <1>0, <1>1 DEF Bearers, EdgeClaims
<1>4. \A v \in Registered' : Holds(peers[v], v)'
  BY <1>0, <1>1 DEF Bearers, Registered
<1>5. Bearers'
  BY <1>0, <1>2, <1>3, <1>4 DEF Bearers
<1>6. AllocatorAgrees'
  BY <1>0 DEF AllocatorAgrees, history
<1>7. PoolAccounted'
  <2> SUFFICES ASSUME NEW v \in used', peers'[v] = NoOne
               PROVE  \E t \in tasks' : t.op = "install" /\ t.vip = v
    BY DEF PoolAccounted
  <2>1. v \in Vips /\ peers[v] = NoOne
    BY <1>0 DEF AllocatorAgrees
  <2>2. PICK t \in tasks : t.op = "install" /\ t.vip = v
    BY <1>0, <2>1 DEF PoolAccounted
  <2> QED
    BY <2>2
<1> QED
  BY <1>5, <1>6, <1>7, FaithfulNext

\* A step of the allocator keeps the claims of whoever bears one when every
\* claim that held still holds.
LEMMA BearersKept ==
  ASSUME TypeOK, Bearers, UNCHANGED edge, net' \subseteq net,
         \A t \in tasks' : t \in tasks \/ TaskClaims(t)',
         \A v \in Vips : peers'[v] \in {peers[v], NoOne},
         \A e \in Edges, v \in Vips : Holds(e, v) => Holds(e, v)'
  PROVE  Bearers'
<1>1. \A m \in net : PacketClaims(m)'
  <2> SUFFICES ASSUME NEW m \in net PROVE PacketClaims(m)'
    OBVIOUS
  <2>1. PacketClaims(m)
    BY DEF Bearers
  <2>2. CASE m \in Request
    BY <2>2, RequestFields DEF PacketClaims
  <2>3. CASE m \in Answer
    BY <2>1, <2>3, AnswerFields, EntryFields DEF PacketClaims
  <2> QED
    BY <2>2, <2>3 DEF TypeOK
<1>2. \A t \in tasks : TaskClaims(t)'
  BY TaskFields DEF TypeOK, Bearers, TaskClaims
<1>3. \A e \in Edges : EdgeClaims(e)'
  BY DEF TypeOK, Bearers, EdgeClaims, edge, Addrs
<1>4. \A v \in Registered' : Holds(peers[v], v)'
  BY DEF TypeOK, Bearers, Registered, Addrs
<1> QED
  BY <1>1, <1>2, <1>3, <1>4 DEF Bearers

\* What is forgotten is recycled in the same step, so that claims to it keep holding.
LEMMA ForgetFaithful ==
  ASSUME TypeOK, Faithful, UNCHANGED <<tasks, edge>>, net' \subseteq net,
         NEW S \in SUBSET Vips, Forget(S)
  PROVE  Faithful'
<1>0. Bearers /\ AllocatorAgrees /\ PoolAccounted
  BY FaithfulIs
<1>1. \A e \in Edges, v \in Vips : Holds(e, v) => Holds(e, v)'
  BY DEF TypeOK, Forget, Holds
<1>2. Bearers'
  BY <1>0, <1>1, BearersKept DEF Forget
<1>3. AllocatorAgrees'
  BY <1>0 DEF TypeOK, Forget, AllocatorAgrees
<1>4. PoolAccounted'
  BY <1>0 DEF TypeOK, Forget, PoolAccounted
<1> QED
  BY <1>2, <1>3, <1>4, FaithfulNext

\* The handlers of the supernode keep claims true: an allocation takes an address
\* nobody owns.
LEMMA SupernodeFaithful ==
  ASSUME TypeOK, Faithful, NEW m \in net, IsRequest(m), SupernodeReceives(m)
  PROVE  Faithful'
<1> USE RequestFields DEF IsRequest
<1>1. CASE HandleRegister(m)
  <2>0. net' \subseteq net
    BY <1>1, TakenWithin DEF HandleRegister
  <2>1. CASE Free = {}
    BY <1>1, <2>0, <2>1, QuietStep DEF HandleRegister, edge, history
  <2>2. CASE Free # {}
    <3>a. PICK f : f = FirstFree
      OBVIOUS
    <3> DEFINE install == [op |-> "install", vip |-> f, addr |-> m.from]
    <3>0. Bearers /\ AllocatorAgrees /\ PoolAccounted
      BY FaithfulIs
    <3>1. f \in Vips /\ owner[f] = NoOne
      BY <2>2, <3>a, <3>0, FirstFreeIsFree DEF AllocatorAgrees
    <3>2. /\ used' = used \cup {f} /\ owner' = [owner EXCEPT ![f] = m.from]
          /\ tasks' = tasks \cup {install}
          /\ UNCHANGED <<peers, edge, recycled>>
      BY <1>1, <2>2, <3>a DEF HandleRegister
    <3>3. \A e \in Edges, v \in Vips : Holds(e, v) => Holds(e, v)'
      BY <3>1, <3>2 DEF Holds, TypeOK
    <3>4. TaskClaims(install)'
      BY <3>1, <3>2 DEF TaskClaims, Holds, TypeOK
    <3>5. \A t \in tasks' : t \in tasks \/ TaskClaims(t)'
      BY <3>2, <3>4
    <3>6. Bearers'
      BY <2>0, <3>0, <3>2, <3>3, <3>5, BearersKept
    <3>7. AllocatorAgrees'
      BY <3>0, <3>1, <3>2 DEF TypeOK, AllocatorAgrees
    <3>8. PoolAccounted'
      <4>1. install \in tasks'
        BY <3>2
      <4> QED
        BY <3>0, <3>2, <4>1 DEF PoolAccounted
    <3> QED
      BY <3>6, <3>7, <3>8, FaithfulNext
  <2> QED
    BY <2>1, <2>2
<1>2. CASE HandleBye(m)
  <2>1. net' \subseteq net /\ UNCHANGED <<tasks, edge>> /\ Forget({m.vip} \cap Registered)
    BY <1>2, TakenWithin DEF HandleBye
  <2>2. {m.vip} \cap Registered \in SUBSET Vips
    BY DEF Registered
  <2> QED
    BY <2>1, <2>2, ForgetFaithful
<1>3. CASE HandleData(m)
  BY <1>3, TakenWithin, QuietStep DEF HandleData, supernode, edge, history
<1> QED
  BY <1>1, <1>2, <1>3 DEF SupernodeReceives

\* The second halves of the handlers pass on what their task claims.
LEMMA TaskFaithful ==
  ASSUME TypeOK, Faithful, NEW t \in tasks, SupernodeTask(t)
  PROVE  Faithful'
<1>0. t \in Task /\ TaskClaims(t)
  BY FaithfulIs DEF TypeOK, Bearers
<1>1. CASE Install(t)
  <2> DEFINE ack == [type |-> "ack", to |-> t.addr, vip |-> t.vip]
             next == [t EXCEPT !.op = "broadcast"]
  <2>1. PacketClaims(ack)
    BY <1>0 DEF PacketClaims, TaskClaims
  <2>2. \A m \in net' : m \in net \/ m = ack
    BY <1>1, SentWithin DEF Install
  <2>3. TaskClaims(next)
    BY <1>0 DEF Task, TaskClaims
  <2>4. tasks' = (tasks \ {t}) \cup {next} /\ peers' = [peers EXCEPT ![t.vip] = t.addr]
    BY <1>1 DEF Install
  <2> HIDE DEF ack, next
  <2>5. /\ \A v \in Vips : peers'[v] = peers[v] \/ Holds(peers'[v], v)
        /\ \A v \in Vips : peers[v] # NoOne => peers'[v] # NoOne
        /\ peers'[t.vip] # NoOne
    BY <1>0, <2>4, TaskFields DEF TypeOK, TaskClaims
  <2>6. /\ \A m \in net' : m \in net \/ PacketClaims(m)
        /\ \A u \in tasks' : u \in tasks \/ TaskClaims(u)
        /\ \A u \in tasks \ tasks' : u.op = "install" => peers'[u.vip] # NoOne
    BY <2>1, <2>2, <2>3, <2>4, <2>5
  <2> QED
    BY <1>1, <2>5, <2>6, QuietStep DEF Install, edge, history
<1>2. CASE Broadcast(t)
  <2> DEFINE news == {[vip |-> t.vip, addr |-> t.addr]}
             out == {[type |-> "update", to |-> a, list |-> news] :
                       a \in {peers[v] : v \in Registered} \ {t.addr}}
  <2>1. \A p \in news : Holds(p.addr, p.vip)
    BY <1>0 DEF TaskClaims
  <2>2. \A m \in out : PacketClaims(m)
    <3> HIDE DEF news
    <3> QED
      BY <2>1 DEF PacketClaims
  <2>3. net' = Sent(net, out) /\ tasks' = tasks \ {t}
    BY <1>2 DEF Broadcast
  <2>4. \A m \in net' : m \in net \/ PacketClaims(m)
    <3> HIDE DEF out
    <3> QED
      BY <2>2, <2>3, SentWithin
  <2>5. t.op = "broadcast"
    BY <1>2 DEF Broadcast
  <2> QED
    BY <1>2, <2>3, <2>4, <2>5, QuietStep DEF Broadcast, edge, history
<1> QED
  BY <1>1, <1>2 DEF SupernodeTask

\* What an edge learns was claimed by the packet it learns it from.
LEMMA EdgeFaithful ==
  ASSUME TypeOK, Faithful, NEW m \in net, ~IsRequest(m), EdgeReceives(m)
  PROVE  Faithful'
<1>0. m \in Answer /\ m.to \in Edges /\ PacketClaims(m)
  BY AnswerFields, FaithfulIs DEF TypeOK, IsRequest, Bearers
<1>1. CASE Adopt(m)
  <2>1. \A e \in Edges : vip'[e] = vip[e] \/ Holds(e, vip'[e])
    BY <1>0, <1>1 DEF Adopt, TypeOK, PacketClaims
  <2>2. net' \subseteq net
    BY <1>1, TakenWithin DEF Adopt
  <2> QED
    BY <1>1, <2>1, <2>2, QuietStep DEF Adopt, supernode, history
<1>2. CASE RegisterFails(m)
  BY <1>2, TakenWithin, QuietStep DEF RegisterFails, supernode, history
<1>3. CASE Learn(m)
  <2> DEFINE known(v) == v # vip[m.to] /\ \E p \in m.list : p.vip = v
             told(v) == (CHOOSE p \in m.list : p.vip = v).addr
  <2>1. \A v \in Vips : known(v) => Holds(told(v), v)
    BY <1>0, <1>3 DEF Learn, PacketClaims
  <2>2. /\ routes' = [routes EXCEPT ![m.to] =
                        [v \in Vips |-> IF known(v) THEN told(v) ELSE routes[m.to][v]]]
        /\ net' \subseteq net
        /\ UNCHANGED <<supernode, phase, vip, history>>
    BY <1>3, TakenWithin DEF Learn
  <2> HIDE DEF known, told
  <2>3. \A e \in Edges, v \in Vips : routes'[e][v] = routes[e][v] \/ Holds(routes'[e][v], v)
    BY <1>0, <2>1, <2>2 DEF TypeOK
  <2> QED
    BY <2>2, <2>3, QuietStep DEF supernode, history
<1>4. CASE Receive(m)
  BY <1>4, TakenWithin, QuietStep DEF Receive, supernode, edge, history
<1>5. CASE Refuse(m)
  BY <1>5, QuietStep DEF Refuse, supernode, edge, history
<1> QED
  BY <1>1, <1>2, <1>3, <1>4, <1>5 DEF EdgeReceives

\* A crash takes every address from its owner.
LEMMA CrashFaithful ==
  ASSUME TypeOK, Faithful, Crash
  PROVE  Faithful'
<1>0. Bearers /\ AllocatorAgrees /\ PoolAccounted
  BY FaithfulIs
<1>1. \A e \in Edges, v \in Vips : Holds(e, v) => Holds(e, v)'
  BY <1>0 DEF Crash, Holds, TypeOK, AllocatorAgrees, NoRoutes
<1>2. Bearers'
  BY <1>0, <1>1, BearersKept DEF Crash, NoRoutes
<1>3. AllocatorAgrees' /\ PoolAccounted'
  BY DEF Crash, AllocatorAgrees, PoolAccounted, NoRoutes
<1> QED
  BY <1>2, <1>3, FaithfulNext

\* An edge only says of itself what it holds.
LEMMA EdgeStepFaithful ==
  ASSUME TypeOK, Faithful, NEW e \in Edges,
         \/ Start(e) \/ RegisterTimeout(e) \/ Heartbeat(e) \/ Stop(e) \/ Die(e)
         \/ \E v \in Vips : SendTo(e, v)
  PROVE  Faithful'
<1>1. CASE Start(e)
  <2>1. \A m \in net' : m \in net \/ PacketClaims(m)
    BY <1>1, SentWithin DEF Start, PacketClaims
  <2>2. \A d \in Edges, v \in Vips : routes'[d][v] \in {routes[d][v], NoOne}
    BY <1>1 DEF Start, TypeOK, NoRoutes
  <2> QED
    BY <1>1, <2>1, <2>2, QuietStep DEF Start, supernode, history
<1>2. CASE RegisterTimeout(e)
  BY <1>2, QuietStep DEF RegisterTimeout, supernode, history
<1>3. CASE Heartbeat(e)
  <2> DEFINE answer == [type |-> "peers", to |-> e, list |-> Entries]
  <2>1. PacketClaims(answer)
    BY EntriesAre, FaithfulIs DEF PacketClaims, Bearers
  <2>2. \A m \in net' : m \in net \/ m = answer
    BY <1>3, SentWithin DEF Heartbeat
  <2> QED
    BY <1>3, <2>1, <2>2, QuietStep DEF Heartbeat, supernode, edge, history
<1>4. CASE Stop(e)
  <2>1. \A m \in net' : m \in net \/ PacketClaims(m)
    BY <1>4, SentWithin DEF Stop, PacketClaims
  <2>2. \A d \in Edges : vip'[d] \in {vip[d], NoVip}
    BY <1>4 DEF Stop, Off, TypeOK
  <2> QED
    BY <1>4, <2>1, <2>2, QuietStep DEF Stop, Off, supernode, history
<1>5. CASE Die(e)
  <2>1. \A d \in Edges : vip'[d] \in {vip[d], NoVip}
    BY <1>5 DEF Die, Off, TypeOK
  <2> QED
    BY <1>5, <2>1, QuietStep DEF Die, Off, supernode, history
<1>6. CASE \E v \in Vips : SendTo(e, v)
  <2>1. PICK v \in Vips : SendTo(e, v)
    BY <1>6
  <2> DEFINE to == IF routes[e][v] = NoOne THEN Super ELSE routes[e][v]
             p  == [type |-> "data", from |-> e, dst |-> v, to |-> to]
  <2>2. PacketClaims(p)
    BY FaithfulIs DEF PacketClaims, Bearers, EdgeClaims
  <2>3. \A m \in net' : m \in net \/ m = p
    BY <2>1, SentWithin DEF SendTo
  <2> QED
    BY <2>1, <2>2, <2>3, QuietStep DEF SendTo, supernode, edge, history
<1> QED
  BY <1>1, <1>2, <1>3, <1>4, <1>5, <1>6

\* Every step keeps the claims true.
LEMMA NextFaithful == TypeOK /\ Faithful /\ [Next]_vars => Faithful'
<1> SUFFICES ASSUME TypeOK, Faithful, [Next]_vars PROVE Faithful'
  OBVIOUS
<1>1. CASE \E m \in net : IsRequest(m) /\ SupernodeReceives(m)
  BY <1>1, SupernodeFaithful
<1>2. CASE \E m \in net : ~IsRequest(m) /\ EdgeReceives(m)
  BY <1>2, EdgeFaithful
<1>3. CASE \E m \in net : Lose(m)
  BY <1>3, QuietStep DEF Lose, supernode, edge, history
<1>4. CASE \E t \in tasks : SupernodeTask(t)
  BY <1>4, TaskFaithful
<1>5. CASE \E S \in SUBSET Vips : Cleanup(S)
  BY <1>5, ForgetFaithful DEF Cleanup
<1>6. CASE Crash
  BY <1>6, CrashFaithful
<1>7. CASE Restart
  BY <1>7, QuietStep DEF Restart, edge, history
<1>8. CASE \/ \E e \in Edges : Start(e) \/ RegisterTimeout(e) \/ Heartbeat(e) \/ Stop(e) \/ Die(e)
           \/ \E e \in Edges, v \in Vips : SendTo(e, v)
  BY <1>8, EdgeStepFaithful
<1>9. CASE UNCHANGED vars
  BY <1>9, QuietStep DEF vars, supernode, edge, history
<1> QED
  BY <1>1, <1>2, <1>3, <1>4, <1>5, <1>6, <1>7, <1>8, <1>9 DEF Next

\* The invariant of the module is what was just shown to be kept.
LEMMA IInvIs == IInv <=> TypeOK /\ Own /\ Faithful
BY DEF IInv, Own, Faithful

\* The inductive invariant: whatever names an endpoint for an address (an entry,
\* a peer list, an ack, a handler, a route) names the one it was allocated for,
\* unless the supernode took the address back.
THEOREM Inductive == Spec => []IInv
<1> QED
  BY InitType, InitOwn, InitFaithful, NextType, NextOwn, NextFaithful, IInvIs, PTL DEF Spec

-----------------------------------------------------------------------------
(* What the invariant gives. *)

\* Edge.peers and the host packets it directs: peer lists applied in any order
\* never lead to an endpoint the address was not allocated for.
THEOREM DirectFaithfulHolds == Spec => []DirectFaithful
<1>1. IInv => DirectFaithful
  BY DEF IInv
<1> QED
  BY <1>1, Inductive, PTL

\* handlePeerList and handleHeartbeatAck never make an edge route to itself.
THEOREM NotViaSelfHolds == Spec => []NotViaSelf
<1>1. IInv => NotViaSelf
  BY DEF IInv
<1> QED
  BY <1>1, Inductive, PTL

\* No address leaves the pool for good: handleBye or cleanup will find each one.
THEOREM PoolAccountedHolds == Spec => []PoolAccounted
<1>1. IInv => PoolAccounted
  BY DEF IInv
<1> QED
  BY <1>1, Inductive, PTL
-----------------------------------------------------------------------------
(* The supernode implements the address lease. *)

\* Initial states are initial states of the lease.
LEMMA InitLease == Init => Lease!LeaseInit
BY DEF Init, Lease!LeaseInit, NoRoutes

\* Steps that the lease does not see.
LEMMA Unseen ==
  ASSUME UNCHANGED <<owner, recycled, vip>>
  PROVE  [Lease!LeaseNext]_Lease!leaseVars
BY DEF Lease!leaseVars

\* Forgetting addresses is taking them back, to the lease.
LEMMA ForgetReclaims ==
  ASSUME NEW S \in SUBSET Vips, Forget(S), UNCHANGED vip
  PROVE  Lease!LeaseNext
BY DEF Forget, Lease!LeaseNext, Lease!Reclaim

\* Every step is a step of the lease or one it does not see.
LEMMA NextLease == IInv /\ [Next]_vars => [Lease!LeaseNext]_Lease!leaseVars
<1> SUFFICES ASSUME IInv, [Next]_vars PROVE [Lease!LeaseNext]_Lease!leaseVars
  OBVIOUS
<1>0. TypeOK /\ ClaimsInFlight /\ AllocatorAgrees
  BY DEF IInv
<1>1. CASE \E m \in net : IsRequest(m) /\ SupernodeReceives(m)
  <2>1. PICK m \in net : IsRequest(m) /\ SupernodeReceives(m)
    BY <1>1
  <2>2. m.from \in Edges
    BY <2>1, RequestFields DEF IsRequest
  <2>3. CASE HandleRegister(m)
    <3>1. CASE Free = {}
      BY <2>3, <3>1, Unseen DEF HandleRegister, edge
    <3>2. CASE Free # {}
      <4>1. FirstFree \in Vips /\ owner[FirstFree] = NoOne
        BY <1>0, <3>2, FirstFreeIsFree DEF AllocatorAgrees
      <4>2. Lease!Grant(FirstFree, m.from)
        BY <2>3, <3>2, <4>1 DEF HandleRegister, Lease!Grant, edge
      <4> QED
        BY <2>2, <4>1, <4>2 DEF Lease!LeaseNext
    <3> QED
      BY <3>1, <3>2
  <2>4. CASE HandleBye(m)
    <3>1. {m.vip} \cap Registered \in SUBSET Vips
      BY DEF Registered
    <3>2. Forget({m.vip} \cap Registered) /\ UNCHANGED vip
      BY <2>4 DEF HandleBye, edge
    <3> QED
      BY <3>1, <3>2, ForgetReclaims
  <2>5. CASE HandleData(m)
    BY <2>5, Unseen DEF HandleData, edge, history
  <2> QED
    BY <2>1, <2>3, <2>4, <2>5 DEF SupernodeReceives
<1>2. CASE \E m \in net : ~IsRequest(m) /\ EdgeReceives(m)
  <2>1. PICK m \in net : ~IsRequest(m) /\ EdgeReceives(m)
    BY <1>2
  <2>2. CASE Adopt(m)
    <3>1. m.to \in Edges /\ m.vip \in Vips
      BY <1>0, <2>1, <2>2, AnswerFields DEF TypeOK, IsRequest, Adopt
    <3>2. m.vip \in recycled \/ owner[m.vip] = m.to
      BY <1>0, <2>2 DEF ClaimsInFlight, Adopt, Holds
    <3>3. Lease!Adopt(m.to, m.vip)
      BY <2>2, <3>2 DEF Adopt, Lease!Adopt, history
    <3> QED
      BY <3>1, <3>3 DEF Lease!LeaseNext
  <2>3. CASE RegisterFails(m) \/ Learn(m) \/ Receive(m) \/ Refuse(m)
    BY <2>3, Unseen DEF RegisterFails, Learn, Receive, Refuse, edge, history
  <2> QED
    BY <2>1, <2>2, <2>3 DEF EdgeReceives
<1>3. CASE \E S \in SUBSET Vips : Cleanup(S)
  BY <1>3, ForgetReclaims DEF Cleanup, edge
<1>4. CASE Crash
  <2>1. owner' = [v \in Vips |-> IF v \in used THEN NoOne ELSE owner[v]]
    BY <1>0, <1>4 DEF TypeOK, AllocatorAgrees, Crash, NoRoutes
  <2>2. Lease!Reclaim(used)
    BY <1>4, <2>1 DEF Crash, Lease!Reclaim, edge
  <2> QED
    BY <1>0, <2>2 DEF TypeOK, Lease!LeaseNext
<1>5. CASE \E e \in Edges : Stop(e) \/ Die(e)
  <2>1. PICK e \in Edges : Off(e)
    BY <1>5 DEF Stop, Die
  <2>2. Lease!Leave(e)
    BY <2>1 DEF Off, Lease!Leave, history
  <2> QED
    BY <2>2 DEF Lease!LeaseNext
<1>6. CASE \/ Restart \/ \E m \in net : Lose(m)
           \/ \E t \in tasks : SupernodeTask(t)
  BY <1>6, Unseen DEF Restart, Lose, SupernodeTask, Install, Broadcast, edge, history
<1>7. CASE \/ \E e \in Edges : Start(e) \/ RegisterTimeout(e) \/ Heartbeat(e)
           \/ \E e \in Edges, v \in Vips : SendTo(e, v)
  BY <1>7, Unseen DEF Start, RegisterTimeout, Heartbeat, SendTo, edge, history
<1>8. CASE UNCHANGED vars
  BY <1>8, Unseen DEF vars, edge, history
<1> QED
  BY <1>1, <1>2, <1>3, <1>4, <1>5, <1>6, <1>7, <1>8 DEF Next

\* The supernode, its edges and the network implement VipLease: a register
\* grants, a goodbye, a cleanup or a crash reclaims, an ack is adopted only by
\* whom the address was granted to or after it was reclaimed.
THEOREM LeaseImplemented == Spec => ImplementsLease
<1> QED
  BY InitLease, NextLease, Inductive, PTL DEF Spec, ImplementsLease, Lease!LeaseSpec
\* Two edges work under one address only after the supernode took it back.
THEOREM SingleHolderHolds == Spec => []Lease!SingleHolder
<1>1. IInv => Lease!SingleHolder
  BY DEF IInv, TypeOK, Claims, Holds, Lease!SingleHolder
<1> QED
  BY <1>1, Inductive, PTL
=============================================================================
