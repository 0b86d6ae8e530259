# agent-netx in TLA+

agent-netx is a proxy and overlay-network toolbox in one Go binary: an HTTP,
SOCKS5 and transparent proxy with rules, proxy groups, TLS interception and
rewriting; a DNS server with fake addresses; three overlay networks (n2n,
stunvpv, WireGuard) bridged to a TUN device; a dashboard; an agent that drives
all of this and starts services of its own. This directory holds TLA+ models of
the parts of it that keep state under concurrency, the TLC runs that check
them, and proofs, checked by TLAPS, of the safety properties of all of them.

Contents: [inventory](#1-inventory) · [plan](#2-plan) · [modules](#3-modules)
· [runs and bounds](#4-runs-and-bounds) · [fairness](#5-fairness) ·
[proofs](#6-proofs) · [what the code does against its word](#7-what-the-code-does-against-its-word)
· [not modelled](#8-not-modelled)

Paths are relative to the repository (`src/`). `PROJECT.json` maps every
definition that models code to its lines, and lists runs, theorems, findings
and hazards.

Checking:

    tlc -workers 2 -config MCStunVpv.cfg MCStunVpv     # a run of section 4
    tlapm StunVpv_proofs.tla                           # proofs of section 6

## 1. Inventory

Components in the order of their weight here. "Hard" is what makes them hard to
test, "correct" what they have to keep.

### Overlay networks

**stunvpv server and client** (`stunvpv/server.go`, `client.go`, `config.go`).
State: the server's allocator (`used`, a lock of its own), `peers` by virtual
address, `vipIndex` by endpoint (one RWMutex); a client's `virtualIP`.
Operations: STUN binding, register (with and without an address), broadcast of
the peer list, relay of data, cleanup every minute of entries older than five;
a client's start (bind, register), 30-second heartbeat, send, receive, end.
Interaction: UDP; one goroutine per packet on the server.
Hard: handlers take their locks one after the other, packets are lost,
duplicated and reordered, a heartbeat re-registers without the allocator,
nothing survives the server.
Correct: an address has one holder; a frame says who really sent it and reaches
who really holds its destination; no address leaks; a forgotten client returns.

**n2n supernode and edge** (`n2n/supernode.go`, `edge.go`, `protocol.go`,
`config.go`). State: the supernode's allocator, `peers`, `addrIndex`; an edge's
`virtualIP` and `peers` (its routes). Operations: register, broadcast of the new
entry, heartbeat and its answer with the whole list, bye, cleanup; an edge's
start, learning of peers, direct sends, sends for want of a route, stop.
Hard: as above, and peer lists old and new overwrite each other, edges keep
their port over restarts, every register allocates.
Correct: as above; a route leads to the holder of its address; an edge does not
route its own; edges find each other.

**WireGuard and tinc** (`wireguard/`, `tinc/`). Two goroutines around a socket
and cryptography; no shared state but the connection.

**TUN bridge** (`tun/tun.go`, `peer.go`, `bridgeTUN` and `runTUN` in
`cmd/runtime.go`). State: the kernel device, a route, the inbound channel, two
loops, the stage of Start. Operations: open, route, loops, `WritePacket` from the
transports' goroutines, shutdown in four steps. Interaction: transports call
in, one context ends everything, several devices contend for one kernel device.
Hard: loops block in Read, a channel is closed by its receiver, the process may
end before the clean-up.
Correct: shutdown ends, leaves no device or route; a full channel drains.
**Platform code** (`tun_unix.go`, `tun_windows.go`, `dns.go`, `route.go`) calls `ip`,
`netsh` and `resolvconf`.

### Proxy

**Listener: doors** (`listener/http.go` Start and Stop, `tproxy_*.go`,
`runProxy`). State: three sockets, `closed`, `stopCh`, an error channel, the
kernel's rule and routes. Operations: bind one after the other, accept loops,
Stop from two callers, routing set up and torn down.
Hard: Stop at any point of Start; failures half way; what the kernel keeps for
the next process.
Correct: Start comes back, no door stays open, nothing is closed twice.

**Listener: connections and flows** (`http.go` handlers and relay, `flow.go`,
`mitm.go`). State: per connection two sockets and two copiers, the counters, the
Flow. Operations: read a request, intercept or fall back, hooks, URL actions,
dial, relay, emitDone.
Hard: eight ways out of one handler, copiers that close each other's ends,
counters read while something still moves, bytes consumed by whoever gave up.
Correct: a request is recorded once, with final counters; a tunnel is exact; a
relay ends when a side goes.
**Sinks** (`sqlite_sink.go`): a database keyed by flow ids.
**Certificates** (`mitm/ca.go`): a cache.

**Router, registry, groups** (`router/`, `proxy/registry.go`, `urltest.go`,
`failover_group.go`, `load_balance.go`, `round_robin.go`, `selector.go`, `chain.go`,
`buildRouter`). State: rules and mode; registered names; per group the best or
next member, the choice, the failures. Operations: pick by rule, add rules and
proxies, remove them, connect through groups of groups, mark failed, probe.
Hard: each look at the rules, the registry or a group has a lock of its own, and
things change in between; probes append their results without one; groups may lead
to themselves.
Correct: a connection goes through what its rule leads to or nowhere; failover
fails only when its members do; the best of a group is as good as any whose
result was recorded alone; every
connection comes back that no silent proxy holds.

**Outbound protocols** (`direct.go`, `http.go`, `https.go`, `http3.go`, `socks5.go`,
`shadowsocks.go`, `trojan.go`, `vless.go`, `vmess.go`, `upstream.go`, `frp.go`'s Connect).
State: a socket and what was read of the server's answer. Operations: Connect,
ConnectUDP, Latency, Chain.Connect.
Hard: answers in pieces, refusals, early payload, silence, at any of a dozen
reads. Correct: no socket is left open; the stream begins right behind the
answer; Connect comes back.

**DNS** (`dns/`). State: two sockets, a cache, a goroutine per query, a table of fake
addresses that nothing fills. Operations: receive, look in the cache, ask by one
of three resolvers, store, answer, clean up, stop.
Hard: concurrent fetches of one name, expiry against cleanup, slow servers.
Correct: no address is handed out that is older than an entry and a fetch.

**Forwarding and socat** (`forward/`, `cmd/socat.go`, `cmd/forward.go`, `proxy/frp.go`,
`cmd/frp.go`). State: connections with two copying goroutines each; UDP
sessions by client with an inbox each; one package-wide last client.
Operations: accept, what precedes the dial (SOCKS5, TLS, frp's header), copy,
join, receive, enqueue, answer, drop, close all.
Hard: half-closes, an inbox closed under a sender, sessions nobody reads.
Correct: what a side sent before its end arrives; a hang-up ends the relay; an
answer goes to who asked; a session in the table is served.

### Dashboard and agent

**Log ring and event stream** (`web/logs.go`, `handleLogs`). State: the latest
1000 entries, listeners' channels. Operations: write, subscribe, replay, stream,
unsubscribe. Hard: writers with old copies of the list, clients that do not
read. Correct: no gap between replay and stream; no client holds up a writer.
**Statistics, API, log file** (`web/stats.go`, `api.go`, `handlers.go`, `logfile.go`):
counters under a lock, tables, rotation.

**Service supervisor** (`agent/service*.go`, `cmd/stop.go`). State: pid files, a
table of processes, a goroutine per process. Operations: start, stop, restart,
from the agent and from command lines. Hard: files shared by processes, ends
that are noticed late. Correct: what lives stays listed, what died does not;
what runs can be stopped.

**Chat loop and terminal** (`agent/tui*.go`, `llm.go`, `hil.go`, `session*.go`). State:
the conversation, its session's file, the approvals, the readers of the keyboard.
Operations: a line or a command, thinking, tool calls with approval and
questions, interrupts, sessions new, switched, deleted, imported.
Hard: a reader left behind at the keyboard by every round of thinking, errors
half way through a round of calls, files written here and there.
Correct: every call in the history has its result; what was refused does not
run; the file holds the conversation.
**Tools and memory** (`agent/*tools.go`, `dynamic.go`, `memory.go`). State: `config.yml`,
`dynamic.yml`, the memory's file. Operations: two dozen tools that read, change and
write all of one. Hard: a write that fails is not always told of. Correct: what a tool
said it wrote is still there.

### Around

**Command line** (`cmd/`), **configuration** (`config/`), **system proxy
settings** (`sysproxy/`), **network diagnosis** (`netdiag/`): parsing, calls of
system tools, reports.

## 2. Plan

Written, most important first:

| module | about | composes / implements |
|---|---|---|
| `VipLease` | what an address allocator promises | abstract |
| `StunVpv` | server, clients, network | implements `VipLease` |
| `N2N` | supernode, edges, network | implements `VipLease` |
| `TunBridge` | devices, transports, context, process | several bridges in one process |
| `ServiceSupervisor` | agent, command lines, processes, pid file | several callers |
| `LogRing` | writers, ring, streaming clients | `logs.go` and `handlers.go` |
| `Listener` | Start, Stop, accept loops, kernel routing | `http.go`, `tproxy_linux.go`, `runProxy` |
| `Connections` | handlers, interception, relay, Flow, peers | `http.go`, `mitm.go`, `flow.go` |
| `Outbound` | every Connect as a script of calls, chains, servers | `proxy/` |
| `Routing` | rules, registry, groups of groups, probes, changes meanwhile | `router.go`, the groups, `buildRouter` |
| `AgentTools`, `AgentLoop` | what the tools write; the terminal that runs them | `AgentLoop` extends `AgentTools` |
| `Relays`, `UdpSessions`, `DnsServer` | forwarders of connections, of datagrams, the DNS server | composed in `Forwarders`: a process runs one of them |

What is left is small or plain: the log file's rotation under writers, the flow
database's identifiers over restarts, rewriting and the datagrams of the listener's
UDP association, the Windows back-end of the transparent door, the start of all
subsystems by `agent-netx start`.

Proved, for every value of the constants (section 6): the safety properties of all
modules, invariants, action properties and the two refinements. What is left to
TLC alone is liveness.

## 3. Modules

Conventions. One action per handler, or per stretch of one between two critical
sections. An action whose name says what is wrong with it and that no
next-state relation uses (`FreeByPeers`, `RelayByReceiver`, `ShutdownKeepsOpen`) is a
plausible slip that the runs are expected to notice; it stands before the
definition it is a slip of, and `PROJECT.json` says which property it breaks.

### VipLease

An address is granted to an endpoint, taken back, adopted, left. Neither server
tells an endpoint that its address was taken back, so the promise is about the
addresses that never were: `SingleHolder`, two endpoints work under one address
only if it was once taken back.

### StunVpv

| state | code |
|---|---|
| `used` | `ipAllocator.used` |
| `peers`, `vipIndex` | `Server.peers` (of an entry only its RelayAddr), `Server.vipIndex` |
| `tasks` | handler goroutines between two critical sections: an address allocated and not installed, a broadcast to be sent, a relay whose destination is looked up |
| `phase`, `vip` | the point `Client.Start` has come to, `virtualIP` |
| `net` | packets in flight |
| `owner`, `recycled` | history only: for whom an address was allocated, what was ever taken back |

`HandleRegisterNew` then `Install` then `Broadcast` is `handleRegister` with its two
locks and its goroutine; `HandleRegisterOwn` the same handler for a heartbeat,
which names its address; `HandleData` then `Relay` is `handleRelayData`; `Cleanup`
takes any set of entries, since heartbeats may get lost for as long as it
likes; `Crash` and `Restart` keep nothing. A delivered packet may stay in flight
(a duplicate), any packet may vanish, and a client takes whatever comes first
for the answer it waits for, as `stunBind` and `register` do.

### N2N

The same form. `HandleRegister`, `Install`, `Broadcast` are `handleRegister` and its
broadcast; `Heartbeat` is `sendHeartbeat` and the supernode's answer in one step (the
request carries nothing that could get old, the answer is a packet and may be
late); `Learn` is `handlePeerList` and `handleHeartbeatAck`; `SendTo` chooses the route
or the supernode; `HandleData` is the case the supernode's switch does not have.
An edge keeps its port, so it may be started again and meet its own late packets.
`Edge.Stop`, whose goodbye `HandleBye` answers, is part of the package's interface;
the program itself ends edges by their context, which is `Die`.

### TunBridge

Devices of one process: `stage` is where `TunDevice.Start` and its shutdown are,
`reader` and `writer` the loops, `inbound` and `queue` the channel, `holder` and
`route` the kernel's, `transport` and `handlers` the overlay's Start and the
goroutines that are about to call `WritePacket`, `main` and `cancelled` the process.
`Full` selects `agent-netx start` (returns on the interrupt or the first error) or
a subcommand (returns with its transport). Packets are counted, not looked at.

### ServiceSupervisor

One service (services share no state): which processes live, what the pid file
says (it is created empty, then written: `Blank`), the agent's table, its waiting
goroutine per process, and where each caller is in Stop or ServiceStart. A
command line is a caller without a table and without waiters. Pids are not
reused.

### LogRing

An entry is its number. `Enter` is the part of `Write` under the lock; `File`, `SendEntry`,
`Written` come after it, with a copy of the list of listeners. `Subscribe`, `Replay`,
`Stream`, `Leave` are `handleLogs`; `Leave` removes by index, as the code does, and so
may remove somebody else's channel, or panic into net/http's recovery.

### Listener

`start` is the door that Start binds, or what it does after; `stopper`, `taken` and
`found` are the one Stop that counts, what it copied under the lock and where Start
was then; `rules` is the kernel's and outlives the process; `runs` counts
processes. Which doors are configured, and whether the routing is
(`routed`), is chosen in the initial state.

### Connections

One handler per connection, the copiers of its relay, its two peers. The bytes
of a direction are numbered pieces, 0 is what the proxy itself says, so that
order, gaps and duplicates are visible in `got`. `mitm` says whether a connection is
up for interception and what became of it; `flow` how often emitDone was called
and with which counters. What the configuration decides (hooks, actions, rules)
and the environment does (dials, handshakes, sends, closes) is
nondeterministic. Listener and Connections meet in two places only: a connection
arrives from an accept loop, and a panic ends the process (`ProcessEnds`: a URL action on a
transparent connection, `DomainTooLong` in a SOCKS5 request); a module
that composes the two was tried and multiplied their states without adding
behaviour.

### Outbound

A protocol is a sequence of calls, those of its Connect behind the dial in the order
of the code: a write, a read of so many bytes, a skip whose error nobody looks
at, the reading of an HTTP head, each with what a failure does to the socket.
A call that fails, and an answer that refuses, are two ways out of it (`Ways`): `keeps` has
those that leave the socket open. `hops` are the protocols of a chain, `at` the hop and
call Connect has come to, `tries` the addresses still to dial, `lost` the sockets that were
dropped open, by the hop, the call and the way out. The server counts the bytes it owes, has
sent, and sends of the target's stream unasked; `server.blanks` has the places of that stream
where a blank line ends, for which `DoReadUntilBlank` may take the answer's.
Requests, keys and ciphers are left out.

### Routing

A configuration and what happens to it is a record (`setup`), chosen in the initial
state. `Built` is what the registration in two passes comes to (`Earlier`: the proxies,
then the groups; the last entry of a name stays, `Latest`), `Pick` the rules, a
connection a stack of the groups it is in: `Get` is the look at the registry, then one
action per kind of group (`Select`, `UseBest`, `Rotate`, `Balance`, `Try`, `Hop`), `DialProxy` the
configured proxy. `made` keeps what was made, since a chain holds on to its hops
after their removal. `probe` is the round of a url-test group's goroutines: for each member
where its goroutine is, what it measured, and the members whose appends to the shared slice
ran while its own did (`met`). An append that met no other leaves its element (`Own`). Of those that met,
`Mixed` is every element that their writes to one slot, or a slice's header of two, may leave:
the name, latency and error of any of them, or the zero value; or what they left cannot be
read (`Torn`). The assumption behind it: memory that a header of too great a length shows
is zero, or not mapped. A proxy may take a connection and never answer (`silent`).

### AgentTools and AgentLoop

`AgentTools` has one operator per tool: the files it may leave behind. `files.told` is
history: what tools reported as written. A write may fail, with the file as it was or cut
off: config.yml's is reported then, the memory's is not, and `files.saved` says whether the
agent's last one got through. `AgentLoop` is `tui.run`: `pc` is where it
reads, thinks, confirms, asks or runs; `reader` the goroutine that reads the
keyboard while the model thinks, `stray` those that were left in their Read: how many want
one key more, how many a key and then another, how many there ever were, and how many
refusals they took. `box` is what a person wants at a confirmation, the first letter that
arrived, whether a refusal was taken, and what else approved: an arrow key's A, a read that
failed. `left.terminal` says whether the day has a terminal, one for input only, or none, where
`confirmTool` says yes by itself. A key goes to whoever reads; the terminal's reads are served one after the other. A message is
its role and, for an assistant's, its number of calls.

### Relays, UdpSessions, DnsServer, Forwarders

`Relays`: a connection has a near and a far side; `copier` names a goroutine for the side
it reads. `hello` and `request` are what precedes the dial in `dynamic`, `tls` and
`frps`. `Returns` joins the copies as each of socat, forward and frp does. A side half-closes or
goes away at any step. `UdpSessions`: `loop` is the receiving goroutine between the
parts of enqueue, `sess` the sessions ever made (the table leads to some of them),
`pump` the reader of a SOCKS5 association and who hands answers back; a process that panics
is "crashed" by a send on a closed channel, or at its "nilAddr". `DnsServer`: `query` are
the goroutines of the queries; an answer is known by when its server gave it. `Forwarders`
is one process that runs one of the commands; they share nothing, and the sum of
the three keeps them in one run.

## 4. Runs and bounds

| run | instance | distinct states | shows |
|---|---|---|---|
| `stunvpv_safety` | 2 clients, 2 addresses, 1 packet, 2 tasks, 1 frame; symmetric | 1.2 million | `SingleHolder`, `PoolAccounted`, `RelayFaithful`, `ImplementsLease` |
| `stunvpv_live` | 2 clients, 1 address, 1 task | 14,585 | `Rejoins` |
| `n2n` | 2 edges, 2 addresses, 1 packet, 1 task, 1 frame | 58,868 | `DirectFaithful`, `NotViaSelf`, `ImplementsLease`, `Discovers` |
| `tun_bridge` | a bridge and runTUN's device, channel and handlers of 1 | 40,089 | `LeavesNothing`, `Ends`, `Drains` |
| `services` | the agent and a command line, 3 processes | 323,739 | `EntryHasWaiter`, `LiveEntryKept`, `DeadUnlisted` |
| `logring` | 2 writers, 2 clients, ring 2, replay 1, channel 1, 3 entries | 809,000 | `NoGap`, `WritesFinish` |
| `listener` | every subset of doors, with and without routing, 2 processes | 9,562 | `DoorsClosed`, `StartReturns` |
| `connections` | 1 connection after the other, 2 pieces per peer | 98,632 | `FlowOnce`, `RecordSettled`, `TunnelExact`, `RelayEnds` |
| `outbound` | every protocol alone, every chain of two, 2 bytes of payload | 136,082 | `SocketsSettled`, `StreamExact`, `Returns` |
| `routing` | 16 configurations, 2 connections at a time, depth 3 | 494,867 | `RouteKept`, `FailoverFinds`, `BestMeasured`, `ConnectsEnd` |
| `agent_loop` | 7 days, 2 sessions, files of 4 messages; symmetric | 3.1 million | `HistoryPaired`, `ConversationKept`, `DenialKept`, `NothingForgotten` |
| `forwarding` | 7 relays with 1 connection of 2 chunks a side; 3 forwarders of 2 datagrams from 2 clients, inbox 1; 3 resolvers, 2 queries for 1 name, 3 ticks | 415,103 | `StreamWhole`, `HangUpPassed`, `AnswersGoHome`, `SessionServed`, `PanicsAtEndOnly`, `AnswersFresh` |

Why these bounds.

- `MaxNet` 1 already gives loss, duplication, delay past any other step, and
  delivery to a later life of the receiver, because a delivered packet may stay.
  What it does not give is two different packets overtaking each other on the
  wire; reordering of their handlers is what `MaxTasks` gives.
- `MaxTasks` 2 is needed in StunVpv: with one, two registers are never between allocation
  and installation together, and an allocator that looked at the entries rather
  than at `used` would pass. N2N's run, which has liveness to check, makes do with
  one; its invariants are proved for every number (section 6).
- Two addresses for two clients, and one for the liveness run of stunvpv, so that
  the pool is exhausted, reused, and an index entry lost with somebody else's.
- `MaxHandlers` and `Cap` (`ChanCap` of the ring) 1: one full channel and one goroutine that meets it.
- Three processes of a service: one that is being replaced, one that replaces it
  and one from the command line in between.
- A ring of two with a replay of one, three entries and channels of one: the
  ring overflows, the replay is shorter than the ring, channels fill. Three
  clients (one writer, two entries) were run as well, since removal by index
  harms third parties: `NoGap` holds of those who are listed.
- Two processes of a listener: what the first leaves in the kernel is what the
  second finds.
- Chains of two have a first, a last and a hand-over between them; a longer one
  repeats the middle. One byte of payload is enough to be swallowed or to be taken for
  the answer's; of two, the first alone, the second alone or both may end with a blank line.
- The configurations of `routing` (`SmallSetups`) have each kind of group over two
  members, a group within a group on either side of each other, a circle, a
  dynamic file, bad rules, a selector with a default; of the url-test groups one has three
  members, so that two appends meet while a third does not; two connections meet each other and one change between any two
  of their steps.
- The days of `agent_loop` (`SmallDays`) offer the tools by what they touch: approvals
  and questions with a reader left behind, the same at a terminal for input only and at none,
  sessions, the configuration, the memory; the last two with writes that fail.
  Files of four messages are trimmed within and between rounds of two calls.
- Relayed connections share nothing. Two chunks a side make "all" differ from "some";
  two clients, an inbox of one and two datagrams give a full inbox, an answer for
  somebody else and a second session of a client whose first has gone. Two queries
  and a life of one tick give two fetches of one name with an expiry between.
- Connections of one process share nothing but the process (rules, hooks and
  statistics are nondeterministic or left out), so one at a time is enough, and it
  may be followed by others; two pieces make order and loss visible.

The type invariants of the modules serve their proofs; the runs do without them.

Deadlock checking is off where something does end: `TunBridge` and `Listener` (the
process exits, or panics), `Connections` (after a panic; peers need not do
anything), `Outbound` (Connect returns, once), `Routing` (the connections of a setup are
made, or the process has crashed), `AgentLoop` (the day is over) and the forwarders
(interrupted, or all their datagrams and queries done with).

## 5. Fairness

Weak fairness of goroutines that are ready is the Go scheduler's. Beyond it:

- StunVpv and N2N. A dead server is started again. A running client sends
  heartbeats for ever (every 30 seconds), and since neither all packets are lost
  nor the server always down when one comes, heartbeat and handling are strongly
  fair; `net = {}` in N2N's heartbeat is "the path was free", which the bound would
  otherwise make up to chance. Packets get taken off the queue for good at some
  time (`m \notin net'`): duplication is finite. No fairness for loss, crashes,
  cleanup, hosts that send, or clients that stop.
- TunBridge. Goroutines run, and a Read or Write returns once its device is
  closed. Nothing about traffic or interrupts.
- ServiceSupervisor. Goroutines and callers come to their end. Nothing about who
  calls or dies.
- LogRing. A writer that is past the disk goes on; the disk itself and the
  clients' connections are owed nothing.
- Listener. Start's own steps and the context's goroutine. No Accept need fail;
  nobody need cancel.
- Connections. The copiers and the handler's return. A copier's step becomes
  possible when its source sends or goes; whether it does is free.

- Outbound. Connect goes on when it can; a server answers what it was asked,
  and what it sent is delivered. Without the second nothing returns: section 7.
- Routing. Each connection goes on. `DialProxy` is part of it: a proxy that is not silent
  answers or refuses in the end, which TCP and a server in order give. Of a silent one nothing is
  assumed, and a connection that has come to it (`Held`) is one that `ConnectsEnd` lets go.
- Relays. The copiers and the handler's return. No side need send or leave.

## 6. Proofs

Every theorem is about its module's specification and every value of the constants, from the assumptions
that the modules make on them. These ask no more than the code has:

- bounds are natural numbers, and sizes of what the code allocates positive
  (`MaxRuns`, `TTL`, `MaxFetch`, `Patience`, the sizes of `LogRing`, of which its proofs need none);
- "nobody" is not somebody (`NoOne`, `None`, `NoSession`), and the agent is not one of the
  command lines;
- the bridges of `Solo` are bridges, and `Full` is a truth value;
- the days of the agent have their fields, and a session's file may have at least three
  messages (`Keep`; the code's limit is 200): an imported session fits;
- a configuration (`SetupOK`) names its proxies and groups and their members from `Proxies`,
  `Groups` and `Builtin`, and has at most one url-test group, since the model has one round of
  probes. There are two proxies, two groups and two hosts, which `Routing` fixes; the members
  of a group, the entries, rules, connections and the depth of the stack are any number. Two steps
  of `Onward` are as many as two groups need (`ReachCloses`), so a third group would make
  `Leads` longer.

| module | theorem | states |
|---|---|---|
| `VipLease_proofs` | `LeaseSingleHolder` | the promise of the abstract lease |
| `StunVpv_proofs` | `TypeCorrect`, `Inductive` | `[]TypeOK`, `[]IInv` |
| | `SingleHolderHolds`, `PoolAccountedHolds`, `RelayFaithfulHolds` | the properties of the run |
| | `LeaseImplemented` | `Spec => ImplementsLease` |
| `N2N_proofs` | `TypeCorrect`, `Inductive` | |
| | `DirectFaithfulHolds`, `NotViaSelfHolds`, `PoolAccountedHolds` | the first two are properties of the run |
| | `LeaseImplemented`, `SingleHolderHolds` | the latter: the lease's promise, by way of the refinement's invariant |
| `Lifecycles_proofs` | `ServiceInvariant`, `EntriesWaited`, `LiveEntriesKept` | `EntryHasWaiter`, `LiveEntryKept` of `ServiceSupervisor` |
| | `BridgesInvariant`, `KernelClean` | `LeavesNothing` of `TunBridge` |
| | `ListenerInvariant`, `DoorsGetClosed` | `DoorsClosed` of `Listener` |
| | `RingInvariant`, `NoEntryMissed` | `NoGap` of `LogRing` |
| `Connections_proofs` | `ConnectionsInvariant`, `FlowsEndOnce`, `RecordsAreSettled`, `TunnelsAreExact` | `FlowOnce`, `RecordSettled`, `TunnelExact` |
| `Outbound_proofs` | `SocketsInvariant`, `SocketsAreSettled` | `SocketsSettled` |
| | `StreamsInvariant`, `StreamsAreExact` | `StreamExact` |
| | `RoutesInvariant`, `RoutesAreKept`, `FailoverTriesAll`, `BestIsMeasured` | `RouteKept`, `FailoverFinds`, `BestMeasured` of `Routing` |
| `Forwarders_proofs` | `ForwardersInvariant` | |
| | `StreamsWhole` | `StreamWhole` of `Relays` |
| | `AnswersReturn`, `SessionsServed`, `NoEarlyPanic` | `AnswersGoHome`, `SessionServed`, `PanicsAtEndOnly` of `UdpSessions` |
| | `CacheFresh` | `AnswersFresh` of `DnsServer` |
| `AgentLoop_proofs` | `ConversationInvariant`, `HistoriesArePaired`, `ConversationIsKept` | `HistoryPaired`, `ConversationKept` |
| | `DenialsAreKept`, `NothingIsForgotten` | `DenialKept`, `NothingForgotten` |

`Lifecycles_proofs` extends four modules that share neither state nor constants; each of
its theorems is about the specification of one; the same holds of `Outbound` and `Routing` in
`Outbound_proofs`. `VipLease_proofs` also has the one lemma on sets
that both allocators need, that a nonempty set of numbers has a least element.

### The overlays

None of the properties is inductive: that two clients do not work
under one address says nothing about the ack still in flight that will make them,
about a handler that holds an allocated address, or about an index by which a
frame will be signed. What is inductive says it of all of them at once.
`Holds(c, v)` means that `v` was allocated for endpoint `c`, or was once taken back;
`IInv` says that everyone and everything that names an endpoint for an address
(a task, an ack, a register, a client, a route, a peer list, an entry, an index)
names one that holds it (`ClaimsInFlight`, `ClaimsHeld`, `Entries`, `DirectFaithful`);
that the allocator's set is the set of addresses with an owner
(`AllocatorAgrees`); and that what is in use is in an entry or a handler's
hands (`PoolAccounted`). Then

- an allocation takes an address nobody owns: if anyone still claims it, it was
  recycled, and recycled claims hold for ever;
- a cleanup, a goodbye or a crash takes addresses from their owners and puts them
  in `recycled` in the same step, so that all claims to them keep holding;
- every other step (`QuietStep`) only passes on claims that were there.

N2N needs two facts more: an edge that registers has learnt nothing yet
(`NothingLearnt`), or the address it adopts might be among its routes
(`NotViaSelf`); and the broadcast is made of its task's address and endpoint, not of
the entry as it is by then.

The implementation proofs take each action to a lease action or a stutter:
allocation to `Grant`, cleanup, bye and crash to `Reclaim`, the adoption of an ack to
`Adopt` (whose guard is the claim of the ack), stopping to `Leave`.

### Starts and stops

- *Services.* An entry of the agent's table has its waiting goroutine; that alone is
  not inductive, since ServiceStart lists a process before it starts the
  goroutine. `StartsUnwaited`: between the two the process is the caller's own and has none
  yet. `WaitedDead`: a goroutine that is past its wait is one of a dead process. From it
  follows the action property `LiveEntryKept`, since a waiter that takes an entry away has seen
  its process end.
- *Bridges.* `Held`: the kernel device is held by exactly the bridge that has it open, and
  a route is there only while some bridge has still to remove it.
- *Doors.* `StopFoundAll`: once the Stop that counts has looked, and Start was through
  with its doors by then, no door gets opened any more, and each one that is open
  is among those it took and has yet to close. A Stop that looked earlier
  promises nothing, which is one of the divergences of section 7.
- *Log ring.* `NoGap` is about clients that stream. It has to be strengthened to those that
  have subscribed and not yet replayed (`Owed`): what they miss later they miss there.
  Until the replay nothing was shown (`Quiet`), and a writer that numbered its entry after
  the subscription has the client in its copy of the list. That a client of the
  list is not removed in another's place is not promised: the property is about
  those listed.

### Connections

A step moves one connection, save the panic of a transparent handler, which ends
them all; so the invariant is one of a connection. `Booked`: where its handler
is says whether there is a Flow, whether it was emitted, what the interception
may have come to, and whether copiers run; a Flow that was emitted has copiers that have
come to their end and the counters as they are. `Carried`, for tunnels that are not
intercepted: the far end has what the copier has read, but for one piece that it
holds (`Whole`), for as long as the far end is there; when it has gone, some prefix.

### Outbound protocols

`Sockets` needs of the scripts only which ways out of which calls keep a socket (`Excused`:
every one of HTTP3's, the failed read of Trojan's answer, the TLS of an https upstream), and
that a refused Trojan answer is none of them. `Streams`
needs their lengths. `Marks(p)` says, for each protocol, how much has been read before each
call, `Owed` how much the server's answers so far amount to; the lemma `ScriptFollows`
checks, protocol by protocol and for each form of an address, that each call leads from its mark to the
next and the last to the whole of the answers. The induction then is the same for all
protocols: the reader is at its call's mark (`Reads`), and the server has sent nothing
behind an answer unless it was the last (`Serves`). The wait of an http upstream has no mark behind
it: it ends at the answer's end or at a later blank line of the payload (`Whole`), and
nowhere else. The SOCKS5 upstreams skip, so that they have at most
read the answer; those that read ahead (`ReadsAhead`) are left out, as in the property.

### Routing

`RoutesInv` has a part for what was made, one for what was measured, and one of each connection.

- *Made* (`MadeOK`). Whatever the order of the entries, each name stands for its last entry
  (`BuiltOf`); proxies lead nowhere, a chain's hops were made before it, and the groups that
  need a member have one. A proxy that is added later leads nowhere and changes nothing
  that leads anywhere (`AddMade`).
- *Measured* (`ProbeOK`). `BestMeasured` is about the members whose appends met no other: their
  elements are there, each with its own measurement, so the best is no slower than
  any of them. It is one of theirs, or a mixed element was sorted before them; then the name it
  has is of a member whose append met another's, or none. What the invariant adds is that
  only members measure, and that who has not measured has met nobody.
- *Ways* (`ConnOK`). A connection's stack is of groups that were made, each with nothing but
  members before it (`Shaped`). `OnRoute`: all of them, and what is asked for next, are what the rule's
  target leads to. `Falls`: the group at the bottom of the stack, when it is a failover group that has been
  there all the time, has its live members before it, and the one it has tried and lost
  is not live; while other groups are on top of it the one it tries is no proxy at all.
  Changes meanwhile either leave a way alone (`ConnStays`) or make a member unsteady
  (`AllUnsteady`), which leaves fewer that have to be found.

A step of a connection moves that one only (`OneMoves`), so each is proved of a record.
That `Leads` is closed after two steps (`ReachCloses`) is where the number of groups matters.

### Forwarders

One process runs one of them, so three invariants stand side by side.

- *Relays* (`CallOK`). Each copier runs only from the start of the relay; the first that is
  over is noted, and while it is unnoted neither side has been closed by the
  relay (`OpenOK`). So a copy that ends first has ended for a reason that lies outside
  (`EndsOK`): a side is gone, or the source ended its half and all of it was passed on.
- *Datagrams* (`SocatOK`). Every number in an inbox, in a goroutine's hands, in a socket's
  two directions or on its way home belongs to the session's client (`SessOK`, `FarOK`,
  `BackOK`, `HomeOK`), and a session of the table is of the client it is under (`TableOK`);
  an inbox is closed only by the sweep at the end (`SweptOK`), whence no send panics before.
- *DNS.* Besides `AnswersFresh` itself: an entry of the cache, while it lives, and a fetch under way are of bounded
  age (`EntriesFresh`, `FetchesFresh`). The bound adds up from the three.

### The agent's loop

Four invariants, none of which needs another. `TalkInv`: in `msgs` every call is
followed by as many results as it has calls, but for the `todo` that are still owed while
tools run (`History(msgs, Pending)`); every stored session is such a history with
nothing owed; both until something was `cut`, which records that trimming, an
interrupt, or a failed call, took a part of a round. No stored file is longer than `Keep`, so that loading
one cuts nothing.
`Strays`: a reader that was left behind wants a key, or wants its last one, or has
taken at most one refusal; so the three numbers together never exceed that of the
readers. `ApprovalInv`: in an open box a person who wants to skip has not typed yet, or their
letter is the first that arrived, or it was lost to a reader left behind, or an arrow came before it;
and a tool that runs had a box with a wish in it, or needed none (`Unasked`).
`Told(files)`: what tools reported as remembered is in what
the `Memory` object at hand holds; when its last write got through (`saved`), all of it is in the
file, which `run_remote` adds to or, when its own write is cut off, marks as not saved; what
they reported as set is in `config.yml` as long as that was never `broken`, and an absent file has lost
nothing.

### Checked by TLC only

All liveness (`Rejoins`, `Discovers`, `Ends`, `Drains`, `DeadUnlisted`, `WritesFinish`,
`StartReturns`, `RelayEnds`, `Returns`, `ConnectsEnd`, `HangUpPassed`), which is out of the
prover's reach.

## 7. What the code does against its word

Divergences met while modelling. The models follow the code; where a property
stops short of one, its comment or the hazard in `PROJECT.json` says so.

**Overlays**

- The supernode relays nothing: its switch has no case for data
  (`n2n/supernode.go:132`), though `MANUAL.md:372` and `1619` say it relays when a
  direct path fails. `N2N!HandleData` drops the frame.
- `n2n`: the ack's list has a length of two bytes, of which one is read: it is
  always taken for empty. Heartbeats do not bring a forgotten edge back.
- A packet that a transport hands to a bridge after its shutdown is sent on a
  closed channel and ends the process (`tun/tun.go:222`, `234`), where
  `cmd/runtime.go:60` says that both stop together. `TunBridge!WritePacket` has the panic.
- `cmd/root.go:335`: start returns on the interrupt without waiting for the
  clean-up that 277 announces; the first subsystem that fails ends all, against
  285; with TUN and an overlay the device is opened twice, and one of the two fails.

**Listener**

- `listener/http.go`. A Stop before Start has made its channel is lost, and Start
  blocks, against the comment at 146; a door bound after Stop looked stays open. A failed
  transparent bind closes a nil listener and panics (118) where Start's comment
  promises an error. Failed routing leaves the other doors to the context.
  SOCKS5's accept error only gets logged.
- `listener/tproxy_linux.go:326` deletes a rule where it means the IPv4 route:
  the next installation meets it and fails.
- Interception (`http.go:341-375`) reads the response's status line and headers for
  the Flow and passes on what follows them: the client never sees them, though
  the comment says they "are read first by relay()". It also waits for the origin's
  head before it relays the rest of a request's body, and `http.go:386` tells the
  client of a failed interception a second time that its tunnel stands; a ClientHello
  may be gone by then.
- A URL action on a transparent connection closes a nil origin: panic. So does a SOCKS5 request
  for a domain of more than 249 bytes, which `readSOCKS5Request` reads beyond its buffer's 256
  (532). Of the greeting exactly three bytes are read (514): with two methods in it, the
  request behind it is misread.
- A plain request loses the bytes that were buffered behind its headers. A
  client that a hook turned away is not told, though lines 254-256 say so, and
  sinks do get its Flow, though 59-61 say they do not. relay counts each byte as
  it is read and as it is written. A client that closes its sending half loses
  the response.
- Flow ids restart at 1 with the process and rows are replaced by id
  (`flow.go:222`, `sqlite_sink.go:128`).

**Outbound protocols**

- `proxy/chain.go:49`: "A 10s per-hop timeout keeps a dead hop from hanging the
  whole chain." The timeout is the dial's; the handshakes behind it read without a
  deadline (`http.go:84`, `socks5.go:48`, `vless.go:79`, `vmess.go:68`, `trojan.go:57`).
  `Returns` therefore assumes servers that answer, and fails without that.
- Trojan closes its socket when the answer refuses, and leaves it open when the answer cannot be
  read (`trojan.go:57`). An upstream's failed TLS uses a nil connection (`upstream.go:127`). Nobody
  closes the RoundTripper of HTTP3 (`http3.go:36`), whatever comes of its Connect: with
  it the QUIC connection and its socket stay. `SocketsSettled` names these and allows no other.
- An http upstream's handshake ends when all that was read ends with a blank line
  (`upstream.go:315`): if payload comes glued to the answer, and ends with one itself, it is
  swallowed. Behind glued payload that does not, it waits for more and fails
  at its deadline.
- The SOCKS5 answer is read by more bytes than it may have (`socks5.go:112`, `122`),
  and the HTTP answer through a reader that is then dropped (`http.go:83`): the
  stream's first bytes can be lost. `StreamExact` states which protocols are exact.

**Router and groups**

- `MergeDynamic` decodes into a copy (`config/config.go:778`): with a `dynamic.yml`
  the start panics (`buildRouter`, `cmd/runtime.go:33`).
- A proxy that takes the connection and stays silent holds the caller for good, against
  `chain.go:49`, and as a member of a url-test group the start of the router.
- `proxy-groups` are validated and never registered. `AddRule`, `AddProxy`, `RemoveProxy`,
  `SetChoice`, `PickBest`, and the fake addresses' `Allocate` and `AddStatic` have no
  caller in the program; the models take the first four as the package's interface.
- `proxy/urltest.go:107` stops the ticker when Probe returns: members are probed
  once. `failed` is read by `PickBest` only, so a group whose best has died keeps it.
  The probes append to one slice without a lock (123, 127): an element may be lost, be of two
  members' results, or be zero, which sorts first and leaves a group whose best has no
  name. With nothing measured the first
  member is that of a map's iteration.
- `SetChoice` takes any name, the group's own included; a circle of groups recurses
  until the stack is full. `AddRule` lets through a port range that `New` refuses. A
  chain keeps hops that were removed. `AddProxy` looks, unlocks and adds.

**Forwarding, socat, DNS**

- `forward` with TLS has no certificate: no handshake succeeds.
- A direct UDP forward sends what arrives at its socket to the destination, answers
  included, though its comment says replies are relayed back to the client. A
  proxied one has one package-wide last client, and one failed write ends the
  goroutine that answers; a destination that does not resolve is a nil address, whose name
  `socks5UDPConn.WriteTo` asks for (`proxy/socks5.go:314`): a panic, where
  `forward/forward.go:194` says that the write fails loudly and is logged.
- `proxy/udp.go:39`, `67` put the address type where SOCKS5 has the fragment byte, and the
  association's reply of ten bytes is awaited as eleven. `socks5UDPConn.Close` closes
  its channel before the socket whose reader sends on it: panic.
- `cmd/socat.go`: a UDP session whose read failed stays in the table with nobody to serve it;
  one that waits for an answer waits for ever; `enqueue` sends to an inbox that
  `closeAll` may have closed; `SessionServed` and `PanicsAtEndOnly` state what is left.
  The statistics at the interrupt lack the connections still open.
- In the relays of `forward` the first direction that ends closes the other. socat passes no half-close on.
  frp's listener is never closed, nor is the remote by `handleFRPClient`.
- `dns/`: DNS over TLS reads without a deadline; a TCP client's deadline does not
  reach the resolver; of two fetches of a name the older may be stored last.
  `AnswersFresh` allows for it.

**Agent and dashboard**

- The goroutine that waited for a process removes the pid file of its successor
  (`agent/service.go:80`), which can then not be stopped by name, as `MANUAL.md:1322`
  has it. `ServiceSupervisor!WaiterErases` does that.
- `web/logs.go:117` unsubscribes by an index that is old by then; `/api/logs` replays
  50 entries where `docs/web.architecture.json:173` says 1000.
- The reader of the keyboard that a round of thinking left behind takes the next
  key: "n" and Enter in a confirmation run the tool, where `agent/tui.go:835` offers
  `n=跳过`. `DenialKept` bounds the refusals so lost: one for each reader left behind.
- `confirmTool` approves when the keyboard cannot be read (838) and when standard input is no
  terminal (829); the A of an arrow key approves everything from then on (850). The comment at
  746 has auto for the default mode; `modeIdx` 0 is manual.
- `Memory.save` drops the errors of its write (`agent/memory.go:70`), and `remember` reports
  success all the same; so does `saveCurrentSession` (`agent/tui.go:196`), which
  `ConversationKept` leaves out.
- Input queued at an interrupt is drawn at the prompt and forgotten (602 promises
  that it is prefilled). "本会话" approvals outlive `/new` and `/session`. Without a terminal
  `readLine` returns the end of the file as an empty line (1325), and an empty line ends the program.
- An answer to `ask` is delivered a second time as a line of the user, and "q" among
  them quits.
- An error after a round of tools takes back one result instead of the round (657). A session that
  `session_save` made is empty, and `/new` or `/clear` after switching to it panics.
  After `/clear` the file keeps the old turns.
- `extra_tools.go:199`: a configuration that cannot be read for any reason is taken for
  none and overwritten. `run_remote` has a `Memory` of its own, at the default path whatever is
  configured (`tools.go:944`), whose host the agent's next Set forgets. `add_rule` is defined twice.

## 8. Not modelled

Within the modules: P2PConnect (no edge starts one), `Supernode.addrIndex` (nothing
reads it), encryption and communities of n2n; `Server.handleBye` of stunvpv (no caller)
and the peer list of its clients (displayed only); `TunDevice.Stop` (no caller) and the contents of
packets; reuse of pids; handlers that read tables; `listener/tproxy_windows.go`; the
datagrams of the listener's UDP association, rewriting, the log of intercepted requests; the
place where Accept peeks at a transparent connection without a deadline, which
holds the next one up; the table of fake addresses, which nothing fills; the reverse proxy of `forward`,
which is the library's; `PickBest`; requests, keys and ciphers of the outbound
protocols; what a model of language says, and how the terminal draws it.

Whole components, with the reason: statistics and API (counters under one lock, tables
read); the log file's rotation and the flow database (small, and left to their
hazards); certificates, tinc and WireGuard (cryptography and byte formats around one
connection); platform code of TUN, system proxy and network diagnosis (calls of the system's
tools); command line and configuration (parsing whose outcome the models choose
in their initial states). `PROJECT.json` gives the reason for each.
