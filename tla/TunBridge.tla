----------------------------- MODULE TunBridge -----------------------------
(***************************************************************************)
(* The TUN devices of one agent-netx process (tun/tun.go) and what they    *)
(* share: the kernel device of the configured name, the route of the       *)
(* overlay, the context, and the process itself (cmd/).                    *)
(*                                                                         *)
(* A bridge is a TunDevice. One that bridgeTUN starts serves a transport   *)
(* (an n2n edge, a stunvpv or WireGuard client), whose goroutines, one per *)
(* packet, call WritePacket; one that runTUN starts (`Solo') serves none.  *)
(* `agent-netx start' runs both kinds in one process; the subcommands run  *)
(* one transport, or one Solo bridge, in the foreground.                   *)
(*                                                                         *)
(* Packets have no content here: the inbound channel is its length.        *)
(* TunDevice.Stop has no caller; everything stops through the context.     *)
(***************************************************************************)
EXTENDS Naturals, FiniteSets

CONSTANTS Bridges,     \* TunDevices of the process
          Solo,        \* those without a transport
          None,        \* "no bridge"
          Full,        \* agent-netx start, not a subcommand
          Cap,         \* capacity of the inbound channel (1024 there)
          MaxHandlers  \* bound: goroutines of a transport that handle a packet

ASSUME TunBridgeAssumption ==
  /\ Solo \subseteq Bridges /\ None \notin Bridges
  /\ Full \in BOOLEAN /\ Cap \in Nat /\ MaxHandlers \in Nat

VARIABLES
  main,       \* the process: "running", "exited" or "panicked"
  cancelled,  \* the context
  holder,     \* the bridge that has the kernel device open, or None
  route,      \* the route of the overlay's addresses is there
  stage,      \* where each bridge's Start is
  reader,     \* readLoop
  writer,     \* writeLoop
  inbound,    \* TunDevice.inbound: "nil", "open" or "closed"
  queue,      \* packets in it
  transport,  \* the Start of each bridge's transport
  handlers    \* its goroutines that are about to call WritePacket

process == <<main, cancelled>>
kernel  == <<holder, route>>
loops   == <<reader, writer>>
overlay == <<transport, handlers>>
bridgeVars == <<process, kernel, stage, loops, inbound, queue, overlay>>

Stages == {"opening", "opened", "running", "closing", "closed", "cleaned", "returned", "failed"}

BridgesTypeOK ==
  /\ main \in {"running", "exited", "panicked"}
  /\ cancelled \in BOOLEAN
  /\ holder \in Bridges \cup {None}
  /\ route \in BOOLEAN
  /\ stage \in [Bridges -> Stages]
  /\ reader \in [Bridges -> {"off", "reading", "sending", "ended"}]
  /\ writer \in [Bridges -> {"off", "idle", "writing", "ended"}]
  /\ inbound \in [Bridges -> {"nil", "open", "closed"}]
  /\ queue \in [Bridges -> 0 .. Cap]
  /\ transport \in [Bridges -> {"registering", "running", "returned", "failed"}]
  /\ handlers \in [Bridges -> 0 .. MaxHandlers]

\* bridgeTUN and runTUN have called Start, in a goroutine of its own.
BridgesInit ==
  /\ main = "running" /\ cancelled = FALSE
  /\ holder = None /\ route = FALSE
  /\ stage = [b \in Bridges |-> "opening"]
  /\ reader = [b \in Bridges |-> "off"]
  /\ writer = [b \in Bridges |-> "off"]
  /\ inbound = [b \in Bridges |-> "nil"]
  /\ queue = [b \in Bridges |-> 0]
  /\ transport = [b \in Bridges |-> IF b \in Solo THEN "returned" ELSE "registering"]
  /\ handlers = [b \in Bridges |-> 0]

Comes(b, s) == stage' = [stage EXCEPT ![b] = s]

-----------------------------------------------------------------------------
(* Start. *)

\* openTun: the kernel has one device of the name, and one who may open it.
Open(b) ==
  /\ stage[b] = "opening" /\ holder = None
  /\ holder' = b
  /\ Comes(b, "opened")
  /\ UNCHANGED <<process, route, loops, inbound, queue, overlay>>

\* It is taken, or there are no rights or no driver: Start returns the error.
OpenFails(b) ==
  /\ stage[b] = "opening"
  /\ Comes(b, "failed")
  /\ UNCHANGED <<process, kernel, loops, inbound, queue, overlay>>

\* AddRoute, whose failure is logged only, then the channel and the two loops.
Launch(b) ==
  /\ stage[b] = "opened"
  /\ route' \in {route, TRUE}
  /\ inbound' = [inbound EXCEPT ![b] = "open"]
  /\ reader' = [reader EXCEPT ![b] = "reading"]
  /\ writer' = [writer EXCEPT ![b] = "idle"]
  /\ Comes(b, "running")
  /\ UNCHANGED <<process, holder, queue, overlay>>

\* Mutants, here and below, are slips the runs must notice; no action uses them.
ShutdownKeepsOpen(b) ==
  /\ stage[b] = "running" /\ cancelled
  /\ Comes(b, "closing")
  /\ UNCHANGED <<process, kernel, loops, inbound, queue, overlay>>

\* shutdown, once the context is done: close the device ...
Shutdown(b) ==
  /\ stage[b] = "running" /\ cancelled
  /\ holder' = None
  /\ Comes(b, "closing")
  /\ UNCHANGED <<process, route, loops, inbound, queue, overlay>>

\* ... close the channel ...
CloseInbound(b) ==
  /\ stage[b] = "closing"
  /\ inbound' = [inbound EXCEPT ![b] = "closed"]
  /\ Comes(b, "closed")
  /\ UNCHANGED <<process, kernel, loops, queue, overlay>>

CleanupNothing(b) ==
  /\ stage[b] = "closed"
  /\ Comes(b, "cleaned")
  /\ UNCHANGED <<process, kernel, loops, inbound, queue, overlay>>

\* ... remove the route ...
Cleanup(b) ==
  /\ stage[b] = "closed"
  /\ route' = FALSE
  /\ Comes(b, "cleaned")
  /\ UNCHANGED <<process, holder, loops, inbound, queue, overlay>>

\* ... and wait for the loops.
Await(b) ==
  /\ stage[b] = "cleaned" /\ reader[b] = "ended" /\ writer[b] = "ended"
  /\ Comes(b, "returned")
  /\ UNCHANGED <<process, kernel, loops, inbound, queue, overlay>>

-----------------------------------------------------------------------------
(* The loops. *)

\* readLoop blocks in Read until there is a packet or the device is closed.
Read(b) ==
  /\ reader[b] = "reading" /\ holder = b
  /\ reader' = [reader EXCEPT ![b] = "sending"]
  /\ UNCHANGED <<process, kernel, stage, writer, inbound, queue, overlay>>

ReadFails(b) ==
  /\ reader[b] = "reading" /\ (holder # b \/ cancelled)
  /\ reader' = [reader EXCEPT ![b] = "ended"]
  /\ UNCHANGED <<process, kernel, stage, writer, inbound, queue, overlay>>

\* What it read goes to Peer.SendTo, or nowhere.
Send(b) ==
  /\ reader[b] = "sending"
  /\ reader' = [reader EXCEPT ![b] = "reading"]
  /\ UNCHANGED <<process, kernel, stage, writer, inbound, queue, overlay>>

\* writeLoop's select takes a packet when there is one ...
Take(b) ==
  /\ writer[b] = "idle" /\ queue[b] > 0
  /\ queue' = [queue EXCEPT ![b] = @ - 1]
  /\ writer' = [writer EXCEPT ![b] = "writing"]
  /\ UNCHANGED <<process, kernel, stage, reader, inbound, overlay>>

\* ... and ends when the channel is closed and empty, or the context is done.
WriterDone(b) ==
  /\ writer[b] = "idle"
  /\ cancelled \/ (inbound[b] = "closed" /\ queue[b] = 0)
  /\ writer' = [writer EXCEPT ![b] = "ended"]
  /\ UNCHANGED <<process, kernel, stage, reader, inbound, queue, overlay>>

WriteOrEnd(b) ==
  /\ writer[b] = "writing"
  /\ writer' \in {[writer EXCEPT ![b] = "idle"], [writer EXCEPT ![b] = "ended"]}
  /\ UNCHANGED <<process, kernel, stage, reader, inbound, queue, overlay>>

\* Write to the device; an error ends the loop only when the device is closed or
\* the context is done, else the packet is lost.
Write(b) ==
  /\ writer[b] = "writing"
  /\ \/ holder = b /\ writer' = [writer EXCEPT ![b] = "idle"]
     \/ (holder # b \/ cancelled) /\ writer' = [writer EXCEPT ![b] = "ended"]
  /\ UNCHANGED <<process, kernel, stage, reader, inbound, queue, overlay>>

-----------------------------------------------------------------------------
(* The transport. *)

Registered(b) ==
  /\ transport[b] = "registering"
  /\ transport' \in {[transport EXCEPT ![b] = "running"], [transport EXCEPT ![b] = "failed"]}
  /\ UNCHANGED <<process, kernel, stage, loops, inbound, queue, handlers>>

\* Its read loop starts a goroutine for a packet ...
Receive(b) ==
  /\ transport[b] = "running" /\ handlers[b] < MaxHandlers
  /\ handlers' = [handlers EXCEPT ![b] = @ + 1]
  /\ UNCHANGED <<process, kernel, stage, loops, inbound, queue, transport>>

\* ... and looks at the context every two seconds.
TransportReturns(b) ==
  /\ transport[b] = "running" /\ cancelled
  /\ transport' = [transport EXCEPT ![b] = "returned"]
  /\ UNCHANGED <<process, kernel, stage, loops, inbound, queue, handlers>>

\* WritePacket from a handler: nothing waits. A channel that is not there yet, or
\* full, loses the packet; sending on a closed one is a panic, in a goroutine
\* nobody recovers. (Start assigns the field without a lock: a handler may find
\* it nil after the assignment.)
WritePacket(b) ==
  /\ handlers[b] > 0
  /\ handlers' = [handlers EXCEPT ![b] = @ - 1]
  /\ \/ inbound[b] # "closed" /\ UNCHANGED <<main, queue>>
     \/ inbound[b] = "open" /\ queue[b] < Cap /\ queue' = [queue EXCEPT ![b] = @ + 1] /\ UNCHANGED main
     \/ inbound[b] = "closed" /\ main' = "panicked" /\ UNCHANGED queue
  /\ UNCHANGED <<cancelled, kernel, stage, loops, inbound, transport>>

-----------------------------------------------------------------------------
(* The process. *)

Interrupt ==
  /\ ~cancelled
  /\ cancelled' = TRUE
  /\ UNCHANGED <<main, kernel, stage, loops, inbound, queue, overlay>>

\* start returns on the interrupt or on the first error of a transport or of
\* runTUN (bridgeTUN logs those of its device); a subcommand returns with its
\* transport, or its Solo bridge. Nobody waits for a bridge, and its goroutines
\* end with the process.
Foreground ==
  IF Full
  THEN cancelled \/ \E b \in Bridges : transport[b] = "failed" \/ (b \in Solo /\ stage[b] = "failed")
  ELSE \E b \in Bridges : IF b \in Solo THEN stage[b] \in {"returned", "failed"}
                          ELSE transport[b] \in {"returned", "failed"}

Exit ==
  /\ Foreground
  /\ main' = "exited"
  /\ UNCHANGED <<cancelled, kernel, stage, loops, inbound, queue, overlay>>

Starting(b) == Open(b) \/ OpenFails(b) \/ Launch(b)

Stopping(b) == Shutdown(b) \/ CloseInbound(b) \/ Cleanup(b) \/ Await(b)

Reading(b) == Read(b) \/ ReadFails(b) \/ Send(b)

Writing(b) == Take(b) \/ WriterDone(b) \/ Write(b)

BridgesNext ==
  /\ main = "running"
  /\ \/ \E b \in Bridges : Starting(b) \/ Stopping(b) \/ Reading(b) \/ Writing(b)
     \/ \E b \in Bridges : Registered(b) \/ Receive(b) \/ WritePacket(b) \/ TransportReturns(b)
     \/ Interrupt \/ Exit

BridgesSpec == BridgesInit /\ [][BridgesNext]_bridgeVars

\* Goroutines run, and a Read or Write of a closed device returns. Nothing is
\* owed by the kernel's traffic, the overlay's, or whoever interrupts.
BridgesFairness ==
  \A b \in Bridges :
    /\ WF_bridgeVars(main = "running" /\ (Starting(b) \/ Stopping(b)))
    /\ WF_bridgeVars(main = "running" /\ ReadFails(b) /\ holder # b)
    /\ WF_bridgeVars(main = "running" /\ Send(b))
    /\ WF_bridgeVars(main = "running" /\ Writing(b))

BridgesFairSpec == BridgesSpec /\ BridgesFairness

-----------------------------------------------------------------------------
(* Properties. *)

\* When every Start has returned, nothing of the bridges is left in the kernel:
\* the device is closed and the route gone, in whatever order several bridges
\* came to it and left it.
Ended == {"returned", "failed"}

LeavesNothing ==
  (\A b \in Bridges : stage[b] \in Ended) => holder = None /\ ~route

\* A cancelled process is not held up by a bridge: no loop blocks shutdown for
\* good, whatever it was doing when the context was cancelled.
Ends == cancelled ~> (main # "running" \/ \A b \in Bridges : stage[b] \in Ended)

\* Backpressure is temporary: a full inbound channel drains, though the device
\* may refuse single packets.
Drains ==
  \A b \in Bridges : queue[b] = Cap ~> (queue[b] < Cap \/ cancelled \/ main # "running")
=============================================================================
