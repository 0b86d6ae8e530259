------------------------- MODULE Lifecycles_proofs -------------------------
(***************************************************************************)
(* What starts and stops beside the tunnels keeps its books: the agent's   *)
(* service, the bridges to the kernel device, the doors of the listener    *)
(* and the web log's stream, each for every value of its constants.        *)
(*                                                                         *)
(* The four components share neither state nor constants: each theorem is  *)
(* about the specification of one and says nothing of the others.          *)
(***************************************************************************)
EXTENDS ServiceSupervisor, TunBridge, Listener, LogRing, SequenceTheorems, TLAPS

-----------------------------------------------------------------------------
(* The service and its pid file (ServiceSupervisor) *)

USE SupervisorAssumption DEF SupervisorAssumption

\* The agent's call is about a process that has no goroutine yet, and a goroutine
\* that is past its wait is one of a process that has ended.
StartsUnwaited ==
  at[Agent].step \in {"list", "record", "write", "wait"} =>
    target[Agent] \in 1..born /\ waiter[target[Agent]] = "none"

WaitedDead ==
  \A p \in Pids :
    /\ waiter[p] \in {"erase", "unlist", "ended"} => p \notin alive
    /\ waiter[p] # "none" => p <= born

SupInv == SupervisorTypeOK /\ EntryHasWaiter /\ StartsUnwaited /\ WaitedDead

\* The service starts with no process, no file and nobody waiting.
LEMMA SupInitInv == SupervisorInit => SupInv
<1> SUFFICES ASSUME SupervisorInit PROVE SupInv
  OBVIOUS
<1> USE DEF SupervisorInit, NoPid
<1>1. SupervisorTypeOK
  BY DEF SupervisorTypeOK, Steps, Callers, Blank
<1>2. at[Agent].step = "idle"
  BY DEF Callers
<1>3. EntryHasWaiter /\ StartsUnwaited /\ WaitedDead
  BY <1>2 DEF EntryHasWaiter, StartsUnwaited, WaitedDead, Pids
<1> QED
  BY <1>1, <1>3 DEF SupInv

\* Each step of a caller, of a process and of a waiting goroutine keeps the books of service.go.
LEMMA SupNextInv == SupInv /\ [SupervisorNext]_supervisorVars => SupInv'
<1> SUFFICES ASSUME SupInv, [SupervisorNext]_supervisorVars PROVE SupInv'
  OBVIOUS
<1> USE DEF At, Goto, Return, procs, pidfile, callers, NoPid,
   Blank, Pids, DeletePID
<1>0. SupervisorTypeOK /\ EntryHasWaiter /\ StartsUnwaited /\ WaitedDead
  BY DEF SupInv
<1>a. Agent \in Callers
  BY DEF Callers
<1>1. ASSUME NEW c \in Callers, Call(c) PROVE SupInv'
  <2>1. /\ at[c].step = "idle" /\ UNCHANGED <<procs, pidfile, table, waiter, target>>
        /\ \E a \in [step : {"check", "stop"}, then : {"idle", "check"}] : at' = [at EXCEPT ![c] = a]
    BY <1>1 DEF Call
  <2>2. SupervisorTypeOK'
    BY <1>0, <2>1 DEF SupervisorTypeOK, Steps
  <2>3. EntryHasWaiter' /\ StartsUnwaited' /\ WaitedDead'
    BY <1>0, <1>a, <2>1 DEF SupervisorTypeOK, EntryHasWaiter, StartsUnwaited, WaitedDead
  <2> QED
    BY <2>2, <2>3 DEF SupInv
<1>2. ASSUME NEW c \in Callers, ReadFile(c) PROVE SupInv'
  <2>1. /\ at[c].step = "stop" /\ UNCHANGED <<procs, pidfile, table, waiter>>
        /\ target' = [target EXCEPT ![c] = IF file = Blank THEN NoPid ELSE file]
        /\ \E s \in {"idle", "check", "drop", "kill"} : at' = [at EXCEPT ![c].step = s]
    BY <1>0, <1>2 DEF ReadFile, SupervisorTypeOK
  <2>a. (IF file = Blank THEN NoPid ELSE file) \in 0..born
    BY <1>0 DEF SupervisorTypeOK
  <2>b. target' \in [Callers -> 0..born]
    BY <1>0, <2>1, <2>a DEF SupervisorTypeOK
  <2>2. SupervisorTypeOK'
    BY <1>0, <2>1, <2>b DEF SupervisorTypeOK, Steps
  <2>3. EntryHasWaiter' /\ StartsUnwaited' /\ WaitedDead'
    BY <1>0, <1>a, <2>1 DEF SupervisorTypeOK, EntryHasWaiter, StartsUnwaited, WaitedDead
  <2> QED
    BY <2>2, <2>3 DEF SupInv
<1>3. ASSUME NEW c \in Callers, Kill(c) PROVE SupInv'
  <2>1. /\ at[c].step = "kill" /\ UNCHANGED <<born, pidfile, table, waiter, target>>
        /\ alive' \subseteq alive
        /\ \E s \in {"erase", "drop"} : at' = [at EXCEPT ![c].step = s]
    BY <1>3 DEF Kill
  <2>2. SupervisorTypeOK'
    BY <1>0, <2>1 DEF SupervisorTypeOK, Steps
  <2>3. EntryHasWaiter' /\ StartsUnwaited' /\ WaitedDead'
    BY <1>0, <1>a, <2>1 DEF SupervisorTypeOK, EntryHasWaiter, StartsUnwaited, WaitedDead
  <2> QED
    BY <2>2, <2>3 DEF SupInv
<1>4. ASSUME NEW c \in Callers, Erase(c) PROVE SupInv'
  <2>1. /\ at[c].step \in {"erase", "drop"} /\ UNCHANGED <<procs, table, waiter, target>>
        /\ file' = NoPid /\ opened' = {}
        /\ \E s \in {"unlist", "idle", "check"} : at' = [at EXCEPT ![c].step = s]
    BY <1>0, <1>4 DEF Erase, SupervisorTypeOK
  <2>2. SupervisorTypeOK'
    BY <1>0, <2>1 DEF SupervisorTypeOK, Steps
  <2>3. EntryHasWaiter' /\ StartsUnwaited' /\ WaitedDead'
    BY <1>0, <1>a, <2>1 DEF SupervisorTypeOK, EntryHasWaiter, StartsUnwaited, WaitedDead
  <2> QED
    BY <2>2, <2>3 DEF SupInv
<1>5. ASSUME NEW c \in Callers, Unlist(c) PROVE SupInv'
  <2>1. /\ at[c].step = "unlist" /\ UNCHANGED <<procs, pidfile, waiter, target>>
        /\ table' = IF c = Agent THEN NoPid ELSE table
        /\ \E s \in {"idle", "check"} : at' = [at EXCEPT ![c].step = s]
    BY <1>0, <1>5 DEF Unlist, SupervisorTypeOK
  <2>2. SupervisorTypeOK'
    BY <1>0, <2>1 DEF SupervisorTypeOK, Steps
  <2>3. EntryHasWaiter' /\ StartsUnwaited' /\ WaitedDead'
    BY <1>0, <1>a, <2>1 DEF SupervisorTypeOK, EntryHasWaiter, StartsUnwaited, WaitedDead
  <2> QED
    BY <2>2, <2>3 DEF SupInv
<1>6. ASSUME NEW c \in Callers, Check(c) \/ SpawnFails(c) PROVE SupInv'
  <2>1. /\ at[c].step \in {"check", "spawn"} /\ UNCHANGED <<procs, pidfile, table, waiter, target>>
        /\ \E s \in {"idle", "spawn"} : at' = [at EXCEPT ![c].step = s]
    BY <1>6 DEF Check, SpawnFails
  <2>2. SupervisorTypeOK'
    BY <1>0, <2>1 DEF SupervisorTypeOK, Steps
  <2>3. EntryHasWaiter' /\ StartsUnwaited' /\ WaitedDead'
    BY <1>0, <1>a, <2>1 DEF SupervisorTypeOK, EntryHasWaiter, StartsUnwaited, WaitedDead
  <2> QED
    BY <2>2, <2>3 DEF SupInv
<1>7. ASSUME NEW c \in Callers, Spawn(c) PROVE SupInv'
  <2>1. /\ at[c].step = "spawn" /\ born < MaxProcs /\ UNCHANGED <<pidfile, table, waiter>>
        /\ born' = born + 1 /\ alive' = alive \cup {born + 1}
        /\ target' = [target EXCEPT ![c] = born + 1]
        /\ at' = [at EXCEPT ![c].step = "list"]
    BY <1>7 DEF Spawn, Spawned
  <2>2. SupervisorTypeOK'
    BY <1>0, <2>1 DEF SupervisorTypeOK, Steps
  <2>3. waiter[born + 1] = "none"
    BY <1>0, <2>1 DEF SupervisorTypeOK, WaitedDead
  <2>4. EntryHasWaiter'
    BY <1>0, <1>a, <2>1 DEF SupervisorTypeOK, EntryHasWaiter
  <2>5. StartsUnwaited'
    BY <1>0, <1>a, <2>1, <2>3 DEF SupervisorTypeOK, StartsUnwaited
  <2>6. WaitedDead'
    BY <1>0, <2>1, <2>3 DEF SupervisorTypeOK, WaitedDead
  <2> QED
    BY <2>2, <2>4, <2>5, <2>6 DEF SupInv
<1>8. ASSUME NEW c \in Callers, List(c) PROVE SupInv'
  <2>1. /\ at[c].step = "list" /\ UNCHANGED <<procs, pidfile, waiter, target>>
        /\ table' = IF c = Agent THEN target[c] ELSE table
        /\ at' = [at EXCEPT ![c].step = "record"]
    BY <1>8 DEF List
  <2>2. SupervisorTypeOK'
    BY <1>0, <2>1 DEF SupervisorTypeOK, Steps
  <2>3. EntryHasWaiter' /\ StartsUnwaited' /\ WaitedDead'
    BY <1>0, <1>a, <2>1 DEF SupervisorTypeOK, EntryHasWaiter, StartsUnwaited, WaitedDead
  <2> QED
    BY <2>2, <2>3 DEF SupInv
<1>9. ASSUME NEW c \in Callers, RecordPID(c) PROVE SupInv'
  <2>1. /\ UNCHANGED <<procs, table, waiter, target>>
        /\ at[c].step = "record" /\ file' = Blank /\ opened' = opened \cup {c}
        /\ at' = [at EXCEPT ![c].step = "write"]
    BY <1>9 DEF RecordPID
  <2>2. SupervisorTypeOK'
    BY <1>0, <2>1 DEF SupervisorTypeOK, Steps
  <2>3. EntryHasWaiter' /\ StartsUnwaited' /\ WaitedDead'
    BY <1>0, <1>a, <2>1 DEF SupervisorTypeOK, EntryHasWaiter, StartsUnwaited, WaitedDead
  <2> QED
    BY <2>2, <2>3 DEF SupInv
<1>14. ASSUME NEW c \in Callers, WritePID(c) PROVE SupInv'
  <2>1. /\ UNCHANGED <<procs, table, waiter, target>>
        /\ at[c].step = "write" /\ file' \in {file, target[c]} /\ opened' = opened \ {c}
        /\ at' = [at EXCEPT ![c].step = "wait"]
    BY <1>14 DEF WritePID
  <2>a. file' \in (0..born) \cup {Blank}
    BY <1>0, <2>1 DEF SupervisorTypeOK
  <2>b. /\ at' \in [Callers -> [step : Steps, then : {"idle", "check"}]]
        /\ \A e \in Callers : e # c => at'[e] = at[e]
    BY <1>0, <2>1 DEF SupervisorTypeOK, Steps
  <2>c. opened' \subseteq {e \in Callers : at'[e].step = "write"}
    BY <1>0, <2>1, <2>b DEF SupervisorTypeOK
  <2>2. SupervisorTypeOK'
    BY <1>0, <2>1, <2>a, <2>b, <2>c DEF SupervisorTypeOK
  <2>3. EntryHasWaiter' /\ StartsUnwaited' /\ WaitedDead'
    BY <1>0, <1>a, <2>1 DEF SupervisorTypeOK, EntryHasWaiter, StartsUnwaited, WaitedDead
  <2> QED
    BY <2>2, <2>3 DEF SupInv
<1>10. ASSUME NEW c \in Callers, StartWaiter(c) PROVE SupInv'
  <2>1. /\ at[c].step = "wait" /\ UNCHANGED <<procs, pidfile, table, target>>
        /\ waiter' = IF c = Agent /\ waiter[target[c]] = "none"
                     THEN [waiter EXCEPT ![target[c]] = "waiting"] ELSE waiter
        /\ at' = [at EXCEPT ![c].step = "idle"]
    BY <1>10 DEF StartWaiter
  <2>2. SupervisorTypeOK'
    BY <1>0, <2>1 DEF SupervisorTypeOK, Steps
  <2>3. CASE c = Agent
    <3>1. target[Agent] \in 1..born /\ waiter' = [waiter EXCEPT ![target[Agent]] = "waiting"]
          /\ at'[Agent].step = "idle"
      BY <1>0, <1>a, <2>1, <2>3 DEF SupervisorTypeOK, StartsUnwaited
    <3>2. EntryHasWaiter' /\ StartsUnwaited' /\ WaitedDead'
      BY <1>0, <1>a, <2>1, <3>1 DEF SupervisorTypeOK, EntryHasWaiter, StartsUnwaited, WaitedDead
    <3> QED
      BY <2>2, <3>2 DEF SupInv
  <2>4. CASE c # Agent
    <3>1. EntryHasWaiter' /\ StartsUnwaited' /\ WaitedDead'
      BY <1>0, <1>a, <2>1, <2>4 DEF SupervisorTypeOK, EntryHasWaiter, StartsUnwaited, WaitedDead
    <3> QED
      BY <2>2, <3>1 DEF SupInv
  <2> QED
    BY <2>3, <2>4
<1>11. ASSUME NEW p \in Pids, Dies(p) PROVE SupInv'
  <2>1. alive' \subseteq alive /\ UNCHANGED <<born, pidfile, table, waiter, callers>>
    BY <1>11 DEF Dies
  <2> QED
    BY <1>0, <2>1 DEF SupInv, SupervisorTypeOK, EntryHasWaiter, StartsUnwaited, WaitedDead
<1>12. ASSUME NEW p \in Pids, WaiterStep(p) PROVE SupInv'
  <2>1. /\ UNCHANGED <<procs, callers>> /\ table' \in {table, NoPid}
        /\ file' \in {file, NoPid} /\ opened' \subseteq opened
        /\ \/ /\ waiter[p] = "waiting" /\ p \notin alive /\ table' = table
              /\ waiter' = [waiter EXCEPT ![p] = "erase"]
           \/ waiter[p] = "erase" /\ waiter' = [waiter EXCEPT ![p] = "unlist"] /\ table' = table
           \/ waiter[p] = "unlist" /\ waiter' = [waiter EXCEPT ![p] = "ended"] /\ (table = p => table' = NoPid)
    BY <1>12 DEF WaiterStep, Waited, WaiterErases, WaiterUnlists
  <2>2. SupervisorTypeOK'
    BY <1>0, <2>1 DEF SupervisorTypeOK
  <2>3. EntryHasWaiter'
    BY <1>0, <2>1 DEF SupervisorTypeOK, EntryHasWaiter
  <2>4. StartsUnwaited' /\ WaitedDead'
    BY <1>0, <2>1 DEF SupervisorTypeOK, StartsUnwaited, WaitedDead
  <2> QED
    BY <2>2, <2>3, <2>4 DEF SupInv
<1>13. CASE UNCHANGED supervisorVars
  BY <1>0, <1>13 DEF supervisorVars, SupInv, SupervisorTypeOK, EntryHasWaiter, StartsUnwaited, WaitedDead
<1> QED
  BY <1>1, <1>2, <1>3, <1>4, <1>5, <1>6, <1>7, <1>8, <1>9, <1>10, <1>11, <1>12, <1>13, <1>14
     DEF SupervisorNext, StopStep, StartStep

\* Whatever the agent, the command lines and the processes do, in whatever order:
\* the types, who waits for whom, and who is dead.
THEOREM ServiceInvariant == SupervisorSpec => []SupInv
BY SupInitInv, SupNextInv, PTL DEF SupervisorSpec

\* ServiceStart never lists a process for which it does not also start, or is not
\* about to start, the goroutine that waits for it (service.go).
THEOREM EntriesWaited == SupervisorSpec => []EntryHasWaiter
<1>1. SupInv => EntryHasWaiter
  BY DEF SupInv
<1> QED
  BY <1>1, ServiceInvariant, PTL

\* An entry of the table for a process that runs goes away only by the agent's own
\* Stop or by the listing of the next one, never by the goroutine of an earlier process.
THEOREM LiveEntriesKept == SupervisorSpec => LiveEntryKept
<1>1. SupInv /\ [SupervisorNext]_supervisorVars =>
        [table # NoPid /\ table \in alive /\ table' # table => At(Agent, "unlist") \/ At(Agent, "list")]_supervisorVars
  <2> SUFFICES ASSUME SupInv, SupervisorNext, table # NoPid, table \in alive, table' # table
               PROVE  At(Agent, "unlist") \/ At(Agent, "list")
    BY DEF supervisorVars, procs, pidfile, callers
  <2>1. CASE \E c \in Callers : Call(c) \/ StopStep(c) \/ StartStep(c)
    BY <2>1 DEF Call, StopStep, StartStep, ReadFile, Kill, Erase,
       Unlist, Check, Spawn, Spawned,
       SpawnFails, List, RecordPID, WritePID, StartWaiter, At
  <2>2. CASE \E p \in Pids : Dies(p) \/ WaiterStep(p)
    BY <2>2 DEF Dies, WaiterStep, Waited, WaiterErases, WaiterUnlists, SupInv,
       WaitedDead
  <2> QED
    BY <2>1, <2>2 DEF SupervisorNext
<1> QED
  BY <1>1, ServiceInvariant, PTL DEF SupervisorSpec, LiveEntryKept

-----------------------------------------------------------------------------
(* The bridges to the kernel device (TunBridge) *)

HIDE SupervisorAssumption
USE TunBridgeAssumption DEF TunBridgeAssumption

\* The device is held by the one bridge between its Open and its Shutdown, and
\* the route is there only while a bridge is between its Launch and its Cleanup.
Held ==
  /\ \A b \in Bridges : stage[b] \in {"opened", "running"} <=> holder = b
  /\ route => \E b \in Bridges : stage[b] \in {"running", "closing", "closed"}

TunInv == BridgesTypeOK /\ Held

\* At first nobody holds the device.
LEMMA TunInitInv == BridgesInit => TunInv
<1> SUFFICES ASSUME BridgesInit PROVE TunInv
  OBVIOUS
<1>1. BridgesTypeOK
  <2>1. /\ stage \in [Bridges -> Stages] /\ holder \in Bridges \cup {None}
        /\ reader \in [Bridges -> {"off", "reading", "sending", "ended"}]
        /\ writer \in [Bridges -> {"off", "idle", "writing", "ended"}]
        /\ inbound \in [Bridges -> {"nil", "open", "closed"}]
    BY DEF BridgesInit, Stages
  <2>2. transport \in [Bridges -> {"registering", "running", "returned", "failed"}]
    BY DEF BridgesInit
  <2>3. queue \in [Bridges -> 0 .. Cap] /\ handlers \in [Bridges -> 0 .. MaxHandlers]
    BY DEF BridgesInit
  <2>4. main \in {"running", "exited", "panicked"} /\ cancelled \in BOOLEAN /\ route \in BOOLEAN
    BY DEF BridgesInit
  <2> QED
    BY <2>1, <2>2, <2>3, <2>4 DEF BridgesTypeOK
<1>2. Held
  BY DEF BridgesInit, Held
<1> QED
  BY <1>1, <1>2 DEF TunInv

\* Opening, launching, shutting down and cleaning up move the device and the route
\* together; the loops of a bridge touch neither.
LEMMA TunNextInv == TunInv /\ [BridgesNext]_bridgeVars => TunInv'
<1> SUFFICES ASSUME TunInv, [BridgesNext]_bridgeVars PROVE TunInv'
  OBVIOUS
<1> USE DEF Comes, process, kernel, loops, overlay
<1>0. BridgesTypeOK /\ Held
  BY DEF TunInv
<1>1. ASSUME NEW b \in Bridges, Starting(b) \/ Stopping(b) PROVE TunInv'
  <2>1. CASE Open(b)
    <3>1. BridgesTypeOK'
      BY <1>0, <2>1 DEF Open, BridgesTypeOK, Stages
    <3>2. Held'
      BY <1>0, <2>1 DEF Open, BridgesTypeOK, Held
    <3> QED
      BY <3>1, <3>2 DEF TunInv
  <2>2. CASE OpenFails(b)
    <3>1. BridgesTypeOK'
      BY <1>0, <2>2 DEF OpenFails, BridgesTypeOK, Stages
    <3>2. Held'
      BY <1>0, <2>2 DEF OpenFails, BridgesTypeOK, Held
    <3> QED
      BY <3>1, <3>2 DEF TunInv
  <2>3. CASE Launch(b)
    <3>1. BridgesTypeOK'
      BY <1>0, <2>3 DEF Launch, BridgesTypeOK, Stages
    <3>2. Held'
      BY <1>0, <2>3 DEF Launch, BridgesTypeOK, Held
    <3> QED
      BY <3>1, <3>2 DEF TunInv
  <2>4. CASE Shutdown(b)
    <3>1. BridgesTypeOK'
      BY <1>0, <2>4 DEF Shutdown, BridgesTypeOK, Stages
    <3>2. Held'
      BY <1>0, <2>4 DEF Shutdown, BridgesTypeOK, Held
    <3> QED
      BY <3>1, <3>2 DEF TunInv
  <2>5. CASE CloseInbound(b)
    <3>1. BridgesTypeOK'
      BY <1>0, <2>5 DEF CloseInbound, BridgesTypeOK, Stages
    <3>2. Held'
      BY <1>0, <2>5 DEF CloseInbound, BridgesTypeOK, Held
    <3> QED
      BY <3>1, <3>2 DEF TunInv
  <2>6. CASE Cleanup(b)
    <3>1. BridgesTypeOK'
      BY <1>0, <2>6 DEF Cleanup, BridgesTypeOK, Stages
    <3>2. Held'
      BY <1>0, <2>6 DEF Cleanup, BridgesTypeOK, Held
    <3> QED
      BY <3>1, <3>2 DEF TunInv
  <2>7. CASE Await(b)
    <3>1. BridgesTypeOK'
      BY <1>0, <2>7 DEF Await, BridgesTypeOK, Stages
    <3>2. Held'
      BY <1>0, <2>7 DEF Await, BridgesTypeOK, Held
    <3> QED
      BY <3>1, <3>2 DEF TunInv
  <2> QED
    BY <1>1, <2>1, <2>2, <2>3, <2>4, <2>5, <2>6, <2>7 DEF Starting, Stopping
<1>2. CASE UNCHANGED <<holder, route, stage>> /\ BridgesNext
  <2>1. Held'
    BY <1>0, <1>2 DEF Held
  <2>2. ASSUME NEW b \in Bridges, Reading(b) PROVE BridgesTypeOK'
    BY <1>0, <2>2 DEF Reading, Read, ReadFails, Send, BridgesTypeOK
  <2>3. ASSUME NEW b \in Bridges, Writing(b) PROVE BridgesTypeOK'
    BY <1>0, <2>3 DEF Writing, Take, WriterDone, Write, BridgesTypeOK
  <2>4. ASSUME NEW b \in Bridges, Registered(b) \/ TransportReturns(b) PROVE BridgesTypeOK'
    BY <1>0, <2>4 DEF Registered, TransportReturns, BridgesTypeOK
  <2>5. ASSUME NEW b \in Bridges, Receive(b) PROVE BridgesTypeOK'
    BY <1>0, <2>5 DEF Receive, BridgesTypeOK
  <2>6. ASSUME NEW b \in Bridges, WritePacket(b) PROVE BridgesTypeOK'
    BY <1>0, <2>6 DEF WritePacket, BridgesTypeOK
  <2>7. CASE Interrupt \/ Exit
    BY <1>0, <2>1, <2>7 DEF Interrupt, Exit, BridgesTypeOK, TunInv
  <2> QED
    BY <1>1, <1>2, <2>1, <2>2, <2>3, <2>4, <2>5, <2>6, <2>7 DEF BridgesNext, TunInv
<1>3. ASSUME NEW b \in Bridges,
             Reading(b) \/ Writing(b) \/ Registered(b) \/ Receive(b) \/ WritePacket(b) \/ TransportReturns(b)
      PROVE  UNCHANGED <<holder, route, stage>>
  BY <1>3 DEF Reading, Read, ReadFails, Send, Writing, Take,
     WriterDone, Write, Registered, Receive,
     WritePacket, TransportReturns
<1>4. CASE UNCHANGED bridgeVars
  BY <1>0, <1>4 DEF bridgeVars, TunInv, BridgesTypeOK, Held
<1>5. ASSUME Interrupt \/ Exit PROVE UNCHANGED <<holder, route, stage>>
  BY <1>5 DEF Interrupt, Exit
<1> QED
  BY <1>1, <1>2, <1>3, <1>4, <1>5 DEF BridgesNext

\* The types of the bridges, and that what the kernel holds is some bridge's to give back.
THEOREM BridgesInvariant == BridgesSpec => []TunInv
BY TunInitInv, TunNextInv, PTL DEF BridgesSpec

\* When every Start of tun.go has come to its end, by whatever way, neither the device nor the
\* route is left behind in the kernel.
THEOREM KernelClean == BridgesSpec => []LeavesNothing
<1>1. TunInv => LeavesNothing
  BY DEF TunInv, BridgesTypeOK, Held, LeavesNothing, Ended
<1> QED
  BY <1>1, BridgesInvariant, PTL

-----------------------------------------------------------------------------
(* The doors of the listener (Listener) *)

HIDE TunBridgeAssumption
USE ListenerAssumption DEF ListenerAssumption

\* A Stop found every door that is open, if Start had got through its doors or
\* had given up by then: Start opens none from there on.
StopFoundAll ==
  closed /\ found \in {"waiting", "returned"} =>
    /\ start \in {"waiting", "stopping", "returned"}
    /\ \A d \in Doors : door[d] = "open" => stopper # "done" /\ d \in taken
    /\ stopper = "done" /\ routed => "rule" \notin rules

\* The stop channel is closed by the one Stop that counts.
ClosedOnce == stopCh = "closed" => stopper = "done"

LisInv == ListenerTypeOK /\ StopFoundAll /\ ClosedOnce

\* A listener begins with no door and no Stop.
LEMMA LisInitInv == ListenerInit => LisInv
<1> SUFFICES ASSUME ListenerInit PROVE LisInv
  OBVIOUS
<1>1. ListenerTypeOK
  <2>1. door \in [Doors -> {"none", "unbound", "open", "closed"}]
        /\ loop \in [Doors -> {"off", "accepting", "ended"}]
    BY DEF ListenerInit
  <2>2. closed = FALSE /\ stopper = "nobody" /\ ctxDone = FALSE /\ routed \in BOOLEAN
    BY DEF ListenerInit
  <2>3. start \in Places /\ found \in Places /\ result = "none" /\ stopCh = "nil" /\ errs \in 0..2
        /\ taken \in SUBSET Doors /\ rules \in SUBSET Rules /\ runs \in 1..MaxRuns
    BY DEF ListenerInit, Places
  <2> QED
    BY <2>1, <2>2, <2>3 DEF ListenerTypeOK
<1>2. StopFoundAll /\ ClosedOnce
  BY DEF ListenerInit, StopFoundAll, ClosedOnce
<1> QED
  BY <1>1, <1>2 DEF LisInv

\* A Stop begins: it takes the doors Start has opened so far.
LEMMA BeginStopInv ==
  ASSUME LisInv, NEW who \in {"start", "context"}, ~closed, BeginStop(who),
         start' \in Places, start \in {"waiting", "returned"} => start' \in {"waiting", "stopping", "returned"},
         result' \in {"none", "nil", "error"}, errs' \in 0..2,
         UNCHANGED <<stopCh, door, loop, ctxDone, rules, runs, routed>>
  PROVE  LisInv'
<1>0. ListenerTypeOK /\ ClosedOnce
  BY DEF LisInv
<1>1. ListenerTypeOK'
  BY <1>0 DEF BeginStop, ListenerTypeOK
<1>2. StopFoundAll'
  BY <1>0 DEF BeginStop, StopFoundAll, ListenerTypeOK
<1>3. ClosedOnce'
  BY <1>0 DEF BeginStop, ClosedOnce, ListenerTypeOK
<1> QED
  BY <1>1, <1>2, <1>3 DEF LisInv

\* It ends: what it took is closed, and the mark's rule is gone.
LEMMA FinishStopInv ==
  ASSUME LisInv, NEW who \in {"start", "context"}, FinishStop(who),
         start' \in {start, "returned"},
         UNCHANGED <<result, loop, errs, ctxDone>>
  PROVE  LisInv'
<1>0. ListenerTypeOK /\ ClosedOnce /\ StopFoundAll
  BY DEF LisInv
<1>1. stopper = who /\ stopper' = "done" /\ door' = Closed(taken) /\ closed
      /\ UNCHANGED <<closed, taken, found, runs, routed>>
  BY <1>0 DEF FinishStop, ListenerTypeOK
<1>2. stopCh' \in {"nil", "open", "closed"}
  BY <1>0, <1>1 DEF FinishStop, ClosedOnce, ListenerTypeOK
<1>3. rules' \subseteq rules /\ (routed => "rule" \notin rules')
  BY DEF FinishStop
<1>4. door' \in [Doors -> {"none", "unbound", "open", "closed"}]
      /\ \A d \in Doors : door'[d] = "open" => d \notin taken /\ door[d] = "open"
  BY <1>0, <1>1 DEF Closed, ListenerTypeOK
<1>5. ListenerTypeOK'
  BY <1>0, <1>1, <1>2, <1>3, <1>4 DEF ListenerTypeOK, Places
<1>6. StopFoundAll'
  BY <1>0, <1>1, <1>3, <1>4 DEF StopFoundAll
<1>7. ClosedOnce'
  BY <1>1 DEF ClosedOnce
<1> QED
  BY <1>5, <1>6, <1>7 DEF LisInv

\* Start before it has got through its doors: no Stop has found more.
LEMMA StartsOn ==
  ASSUME LisInv, start \notin {"waiting", "stopping", "returned"}, UNCHANGED <<stopping, ctxDone, runs, routed>>,
         start' \in Places, result' \in {"none", "nil", "error"}, stopCh' \in {stopCh, "open"},
         errs' = errs, rules' \in SUBSET Rules,
         door' \in [Doors -> {"none", "unbound", "open", "closed"}],
         loop' \in [Doors -> {"off", "accepting", "ended"}]
  PROVE  LisInv'
<1>0. ListenerTypeOK /\ ClosedOnce /\ StopFoundAll
  BY DEF LisInv
<1>1. UNCHANGED <<closed, stopper, taken, found>>
  BY DEF stopping
<1>2. ListenerTypeOK'
  BY <1>0, <1>1 DEF ListenerTypeOK
<1>3. StopFoundAll' /\ ClosedOnce'
  BY <1>0, <1>1 DEF StopFoundAll, ClosedOnce
<1> QED
  BY <1>2, <1>3 DEF LisInv

\* Start, door by door, its failures and its own Stop.
LEMMA StartStepInv ==
  ASSUME LisInv, StartGoesOn
  PROVE  LisInv'
<1>0. ListenerTypeOK /\ ClosedOnce /\ StopFoundAll
  BY DEF LisInv
<1>t. /\ result \in {"none", "nil", "error"} /\ door \in [Doors -> {"none", "unbound", "open", "closed"}]
      /\ loop \in [Doors -> {"off", "accepting", "ended"}] /\ rules \in SUBSET Rules /\ errs \in 0..2
  BY <1>0 DEF ListenerTypeOK
<1>a. \A s : After(s) \in Places
  BY DEF After, Places
<1> USE DEF starting, serving
<1>1. CASE Begin
  BY <1>1, <1>t, StartsOn DEF Begin, Places
<1>2. CASE Skip
  <2>1. start \notin {"waiting", "stopping", "returned"} /\ start' = After(start)
        /\ result' \in {"nil", result} /\ UNCHANGED <<stopCh, serving, ctxDone, stopping, rules, runs, routed>>
    BY <1>2 DEF Skip, Doors
  <2> QED
    BY <1>a, <1>t, <2>1, StartsOn
<1>3. ASSUME NEW d \in Doors, Bind(d) PROVE LisInv'
  <2>1. start \notin {"waiting", "stopping", "returned"}
    BY <1>3 DEF Bind, Doors
  <2>2. door' \in [Doors -> {"none", "unbound", "open", "closed"}]
        /\ loop' \in [Doors -> {"off", "accepting", "ended"}]
    BY <1>3, <1>t DEF Bind
  <2>3. start' \in Places
    BY <1>3, <1>a DEF Bind, Places
  <2>4. UNCHANGED <<result, stopCh, errs, ctxDone, stopping, rules, runs, routed>>
    BY <1>3 DEF Bind
  <2> QED
    BY <1>t, <2>1, <2>2, <2>3, <2>4, StartsOn
<1>4. ASSUME NEW d \in Doors, BindFails(d) PROVE LisInv'
  <2>1. start = d /\ start \notin {"waiting", "stopping", "returned"}
        /\ UNCHANGED <<stopCh, serving, ctxDone, rules, runs, routed>>
    BY <1>4 DEF BindFails, Doors
  <2>2. CASE UNCHANGED stopping /\ start' \in {"returned", "panicked"} /\ result' \in {"error", result}
    BY <1>t, <2>1, <2>2, StartsOn DEF Places
  <2>3. CASE ~closed /\ start' = "stopping" /\ result' = "error" /\ BeginStop("start")
    BY <1>t, <2>1, <2>3, BeginStopInv DEF Places
  <2> QED
    BY <1>4, <2>2, <2>3 DEF BindFails, Doors
<1>5. CASE Route
  <2>1. rules' \in SUBSET Rules /\ loop' \in [Doors -> {"off", "accepting", "ended"}]
        /\ start = "routing" /\ start' = "waiting"
        /\ UNCHANGED <<result, stopCh, door, errs, ctxDone, stopping, runs, routed>>
    BY <1>5, <1>t DEF Route, Rules, Doors
  <2> QED
    BY <1>t, <2>1, StartsOn DEF Places
<1>6. CASE RouteFails
  <2>1. rules' \in SUBSET Rules /\ door' \in [Doors -> {"none", "unbound", "open", "closed"}]
        /\ start = "routing" /\ start' = "returned" /\ result' = "error"
        /\ UNCHANGED <<stopCh, loop, errs, ctxDone, stopping, runs, routed>>
    BY <1>6, <1>t DEF RouteFails
  <2> QED
    BY <1>t, <2>1, StartsOn DEF Places
<1>7. CASE Woken \/ (Failed /\ closed)
  <2>1. start = "waiting" /\ start' = "returned" /\ result' \in {"nil", "error"} /\ errs' \in 0..2
        /\ UNCHANGED <<stopCh, door, loop, ctxDone, closed, stopper, taken, found, rules, runs, routed>>
    BY <1>7, <1>t DEF Woken, Failed, stopping
  <2>2. ListenerTypeOK'
    BY <1>0, <2>1 DEF ListenerTypeOK, Places
  <2>3. StopFoundAll' /\ ClosedOnce'
    BY <1>0, <2>1 DEF StopFoundAll, ClosedOnce
  <2> QED
    BY <2>2, <2>3 DEF LisInv
<1>8. CASE Failed /\ ~closed
  <2>1. start = "waiting" /\ start' = "stopping" /\ result' = "error" /\ errs' \in 0..2 /\ BeginStop("start")
        /\ UNCHANGED <<stopCh, door, loop, ctxDone, rules, runs, routed>>
    BY <1>8, <1>t DEF Failed
  <2> QED
    BY <1>8, <2>1, BeginStopInv DEF Places
<1>9. CASE OwnStop
  BY <1>9, FinishStopInv DEF OwnStop
<1> QED
  BY <1>1, <1>2, <1>3, <1>4, <1>5, <1>6, <1>7, <1>8, <1>9 DEF StartGoesOn

\* Steps of Start, of the context's goroutine, of the accept loops, and a new process.
LEMMA LisNextInv == LisInv /\ [ListenerNext]_listenerVars => LisInv'
<1> SUFFICES ASSUME LisInv, [ListenerNext]_listenerVars PROVE LisInv'
  OBVIOUS
<1>0. ListenerTypeOK /\ ClosedOnce /\ StopFoundAll
  BY DEF LisInv
<1> USE DEF starting, serving, stopping
<1>1. CASE Cancel
  <2>1. UNCHANGED <<starting, serving, stopping, rules, runs, routed>> /\ ctxDone' \in BOOLEAN
    BY <1>1 DEF Cancel
  <2> QED
    BY <1>0, <2>1 DEF LisInv, ListenerTypeOK, StopFoundAll, ClosedOnce
<1>2. CASE ContextStops
  <2>1. start \in Places /\ result \in {"none", "nil", "error"} /\ errs \in 0..2
    BY <1>0 DEF ListenerTypeOK
  <2> QED
    BY <1>2, <2>1, BeginStopInv DEF ContextStops
<1>3. CASE ContextFinishes
  BY <1>3, FinishStopInv DEF ContextFinishes
<1>4. ASSUME NEW d \in Doors, AcceptFails(d) PROVE LisInv'
  <2>1. /\ door' = [door EXCEPT ![d] = "closed"] /\ loop' = [loop EXCEPT ![d] = "ended"]
        /\ UNCHANGED <<starting, ctxDone, stopping, rules, runs, routed>>
    BY <1>4 DEF AcceptFails
  <2>2. errs' \in 0..2
    BY <1>0, <1>4 DEF AcceptFails, ListenerTypeOK
  <2>3. ListenerTypeOK'
    BY <1>0, <2>1, <2>2 DEF ListenerTypeOK
  <2>4. StopFoundAll' /\ ClosedOnce'
    BY <1>0, <2>1 DEF StopFoundAll, ClosedOnce, ListenerTypeOK
  <2> QED
    BY <2>3, <2>4 DEF LisInv
<1>5. CASE Rerun
  <2>1. ListenerTypeOK'
    <3>1. runs' \in 1..MaxRuns
      BY <1>0, <1>5 DEF Rerun, ListenerTypeOK
    <3>2. door' \in [Doors -> {"none", "unbound", "open", "closed"}]
      BY <1>5 DEF Rerun
    <3>3. loop' \in [Doors -> {"off", "accepting", "ended"}]
      BY <1>5 DEF Rerun
    <3>4. closed' = FALSE /\ stopper' = "nobody" /\ ctxDone' = FALSE /\ UNCHANGED <<rules, routed>>
      BY <1>5 DEF Rerun
    <3>5. start' \in Places /\ found' \in Places /\ result' = "none" /\ stopCh' = "nil" /\ errs' \in 0..2
          /\ taken' \in SUBSET Doors
      BY <1>5 DEF Rerun, Places
    <3> QED
      BY <1>0, <3>1, <3>2, <3>3, <3>4, <3>5 DEF ListenerTypeOK
  <2>2. StopFoundAll' /\ ClosedOnce'
    BY <1>5 DEF Rerun, StopFoundAll, ClosedOnce
  <2> QED
    BY <2>1, <2>2 DEF LisInv
<1>6. CASE UNCHANGED listenerVars
  BY <1>0, <1>6 DEF listenerVars, LisInv, ListenerTypeOK, StopFoundAll, ClosedOnce
<1> QED
  BY <1>1, <1>2, <1>3, <1>4, <1>5, <1>6, StartStepInv DEF ListenerNext

\* The types of the listener, what a Stop has found, and that the stop channel is closed once.
THEOREM ListenerInvariant == ListenerSpec => []LisInv
BY LisInitInv, LisNextInv, PTL DEF ListenerSpec

\* A Stop that came when Start had got through its doors leaves none of them open and, where
\* routes are configured, not the mark's rule either (Listener.Stop), in every process.
THEOREM DoorsGetClosed == ListenerSpec => []DoorsClosed
<1>1. LisInv => DoorsClosed
  BY DEF LisInv, ListenerTypeOK, StopFoundAll, DoorsClosed, Over
<1> QED
  BY <1>1, ListenerInvariant, PTL

-----------------------------------------------------------------------------
(* The log and its stream (LogRing) *)

HIDE ListenerAssumption

\* What the argument needs of the types.
Typed ==
  /\ last \in Nat /\ listeners \in Seq(Clients)
  /\ DOMAIN writing = Writers
  /\ \A w \in Writers : /\ DOMAIN writing[w] = {"at", "entry", "rest"}
                        /\ writing[w].rest \in Seq(Clients)
  /\ chan \in [Clients -> Seq(Nat)]
  /\ \A w \in Writers : writing[w].entry \in Nat
  /\ DOMAIN phase = Clients /\ DOMAIN shown = Clients
  /\ index \in [Clients -> Nat] /\ \A c \in Clients : phase[c] # "off" => index[c] # 0
  /\ since \in [Clients -> Nat] /\ full \in [Clients -> BOOLEAN]

\* Nothing was shown before the replay, ...
Quiet == \A c \in Clients : phase[c] \in {"off", "subscribed"} => shown[c] = {}

Owed(c) ==
  c \in ToSet(listeners) /\ phase[c] \in {"subscribed", "streaming"} /\ ~full[c]

Gapless(c) == since[c] + 1 .. last \subseteq shown[c] \cup Coming(c)

RingInv == Typed /\ Quiet /\ \A c \in Clients : Owed(c) => Gapless(c)

\* Append adds one element, ...
LEMMA ToSetAppend ==
  ASSUME NEW S, NEW s \in Seq(S), NEW e \in S
  PROVE  ToSet(Append(s, e)) = ToSet(s) \cup {e}
<1>1. /\ Append(s, e) \in Seq(S) /\ Len(Append(s, e)) = Len(s) + 1
      /\ \A i \in 1 .. Len(s) : Append(s, e)[i] = s[i]
      /\ Append(s, e)[Len(s) + 1] = e /\ Len(s) \in Nat
  BY AppendProperties, LenProperties
<1>2. DOMAIN s = 1 .. Len(s) /\ DOMAIN Append(s, e) = 1 .. Len(s) + 1
  BY <1>1, LenProperties
<1>3. ASSUME NEW x \in ToSet(Append(s, e)) PROVE x \in ToSet(s) \cup {e}
  <2>1. PICK i \in 1 .. Len(s) + 1 : x = Append(s, e)[i]
    BY <1>2, <1>3 DEF ToSet
  <2>2. CASE i = Len(s) + 1
    BY <1>1, <2>1, <2>2
  <2>3. CASE i \in 1 .. Len(s)
    BY <1>1, <1>2, <2>1, <2>3 DEF ToSet
  <2> QED
    BY <1>1, <2>1, <2>2, <2>3
<1>4. ASSUME NEW i \in 1 .. Len(s) PROVE s[i] \in ToSet(Append(s, e))
  <2>1. i \in DOMAIN Append(s, e) /\ s[i] = Append(s, e)[i]
    BY <1>1, <1>2
  <2> QED
    BY <2>1 DEF ToSet
<1>5. e \in ToSet(Append(s, e))
  <2>1. Len(s) + 1 \in DOMAIN Append(s, e)
    BY <1>1, <1>2
  <2> QED
    BY <1>1, <2>1 DEF ToSet
<1> QED
  BY <1>2, <1>3, <1>4, <1>5 DEF ToSet

\* ... Tail takes at most the first one away, ...
LEMMA ToSetTail ==
  ASSUME NEW S, NEW s \in Seq(S), s # <<>>
  PROVE  /\ Tail(s) \in Seq(S) /\ Head(s) \in S
         /\ ToSet(s) \subseteq ToSet(Tail(s)) \cup {Head(s)}
<1>1. /\ Tail(s) \in Seq(S) /\ Head(s) \in S /\ Head(s) = s[1]
      /\ Len(Tail(s)) = Len(s) - 1 /\ \A i \in 1 .. Len(Tail(s)) : Tail(s)[i] = s[i + 1]
  BY HeadTailProperties
<1>2. DOMAIN s = 1 .. Len(s) /\ DOMAIN Tail(s) = 1 .. Len(s) - 1 /\ Len(s) \in Nat
  BY <1>1, LenProperties
<1>3. ASSUME NEW i \in 1 .. Len(s) PROVE s[i] \in ToSet(Tail(s)) \cup {Head(s)}
  <2>1. CASE i = 1
    BY <1>1, <2>1
  <2>2. CASE i # 1
    <3>1. i - 1 \in DOMAIN Tail(s)
      BY <1>2, <2>2
    <3>2. Tail(s)[i - 1] = s[i]
      BY <1>1, <1>2, <2>2
    <3> QED
      BY <3>1, <3>2 DEF ToSet
  <2> QED
    BY <2>1, <2>2
<1> QED
  BY <1>1, <1>2, <1>3 DEF ToSet

\* ... and RemoveAt adds none.
LEMMA ToSetRemoveAt ==
  ASSUME NEW S, NEW s \in Seq(S), NEW i \in Nat \ {0}, i <= Len(s)
  PROVE  RemoveAt(s, i) \in Seq(S) /\ ToSet(RemoveAt(s, i)) \subseteq ToSet(s)
<1> DEFINE T == ToSet(s)
<1>0. DOMAIN s = 1 .. Len(s) /\ Len(s) \in Nat /\ \A j \in 1 .. Len(s) : s[j] \in T /\ s[j] \in S
  BY LenProperties, ElementOfSeq DEF ToSet
<1>a. T \subseteq S
  BY <1>0 DEF ToSet
<1>1. s \in Seq(T)
  BY <1>0, SeqDef
<1> HIDE DEF T
<1>2. SubSeq(s, 1, i - 1) \in Seq(T) /\ SubSeq(s, i + 1, Len(s)) \in Seq(T)
  <2>1. \A j \in 1 .. i - 1 : s[j] \in T
    BY <1>0
  <2>2. \A j \in i + 1 .. Len(s) : s[j] \in T
    BY <1>0
  <2> QED
    BY <1>0, <1>1, <2>1, <2>2, SubSeqProperties, SMTT(30)
<1>3. RemoveAt(s, i) \in Seq(T)
  BY <1>2, ConcatProperties DEF RemoveAt
<1>4. ToSet(RemoveAt(s, i)) \subseteq T
  BY <1>3, ElementOfSeq, LenProperties DEF ToSet
<1>5. RemoveAt(s, i) \in Seq(S)
  BY <1>3, <1>a, SeqDef, LenProperties, ElementOfSeq
<1> QED
  BY <1>4, <1>5 DEF T

\* Nobody listens at first.
LEMMA RingInitInv == RingInit => RingInv
<1> SUFFICES ASSUME RingInit PROVE RingInv
  OBVIOUS
<1>1. Typed
  <2>1. <<>> \in Seq(Clients) /\ <<>> \in Seq(Nat)
    BY EmptySeq
  <2> QED
    BY <2>1 DEF RingInit, Typed, Idle
<1>2. Quiet
  BY DEF RingInit, Quiet
<1>3. \A c \in Clients : ~Owed(c)
  BY DEF RingInit, Owed
<1> QED
  BY <1>1, <1>2, <1>3 DEF RingInv

\* What is on its way to a client stays so while its channel and the writers
\* that owe it an entry only grow.
LEMMA ComingGrows ==
  ASSUME NEW c \in Clients, ToSet(chan[c]) \subseteq ToSet(chan'[c]),
         \A w \in Writers : c \in ToSet(writing[w].rest) =>
           \/ c \in ToSet(writing'[w].rest) /\ writing'[w].entry = writing[w].entry
           \/ writing[w].entry \in ToSet(chan'[c])
  PROVE  Coming(c) \subseteq Coming(c)'
BY DEF Coming

\* A client misses nothing as long as nothing is written and nothing taken from it.
LEMMA StillGapless ==
  ASSUME NEW c \in Clients, Gapless(c), UNCHANGED last, since'[c] = since[c],
         shown[c] \cup Coming(c) \subseteq shown'[c] \cup Coming(c)'
  PROVE  Gapless(c)'
BY DEF Gapless

\* A new entry is on its way to every client whose channel is listed when it enters the ring.
LEMMA EnterInv ==
  ASSUME RingInv, NEW w \in Writers, Enter(w)
  PROVE  RingInv'
<1> USE DEF client, stream
<1>0. Typed /\ Quiet
  BY DEF RingInv
<1>1. /\ last' = last + 1 /\ UNCHANGED <<listeners, phase, index, since, chan, shown, full>>
      /\ writing' = [writing EXCEPT ![w] = [at |-> "file", entry |-> last + 1, rest |-> listeners]]
      /\ writing[w] = Idle
  BY DEF Enter
<1>2. Typed'
  BY <1>0, <1>1 DEF Typed
<1>3. Quiet'
  BY <1>0, <1>1 DEF Quiet
<1>4. ASSUME NEW c \in Clients, Owed(c)' PROVE Gapless(c)'
  <2>1. Owed(c) /\ c \in ToSet(listeners)
    BY <1>1, <1>4 DEF Owed
  <2>2. Gapless(c)
    BY <2>1 DEF RingInv
  <2>3. writing'[w].rest = listeners /\ writing'[w].entry = last + 1
        /\ \A v \in Writers : v # w => writing'[v] = writing[v]
    BY <1>0, <1>1 DEF Typed
  <2>4. ToSet(writing[w].rest) = {}
    BY <1>1 DEF ToSet, Idle
  <2>5. Coming(c) \subseteq Coming(c)'
    BY <1>1, <2>3, <2>4, ComingGrows
  <2>6. last + 1 \in Coming(c)'
    BY <2>1, <2>3 DEF Coming
  <2>7. since'[c] + 1 .. last' \subseteq (since[c] + 1 .. last) \cup {last + 1}
    BY <1>0, <1>1 DEF Typed
  <2> QED
    BY <1>1, <2>2, <2>5, <2>6, <2>7 DEF Gapless
<1> QED
  BY <1>2, <1>3, <1>4 DEF RingInv

\* Send moves an entry from the copy of the list into the channel, or marks that it was lost.
LEMMA WriteStepInv ==
  ASSUME RingInv, NEW w \in Writers, WriteStep(w)
  PROVE  RingInv'
<1> USE DEF client, stream, ring
<1>0. Typed /\ Quiet
  BY DEF RingInv
<1>1. CASE File(w)
  <2>1. /\ UNCHANGED <<last, listeners, phase, index, since, chan, shown, full>>
        /\ writing' = [writing EXCEPT ![w].at = "sending"]
    BY <1>1 DEF File
  <2>2. \A v \in Writers : writing'[v].rest = writing[v].rest /\ writing'[v].entry = writing[v].entry
    BY <1>0, <2>1 DEF Typed
  <2>3. Typed'
    BY <1>0, <2>1, <2>2 DEF Typed
  <2>4. ASSUME NEW c \in Clients, Owed(c)' PROVE Gapless(c)'
    <3>1. Owed(c) /\ Gapless(c)
      BY <2>1, <2>4 DEF RingInv, Owed
    <3>2. Coming(c) \subseteq Coming(c)'
      BY <2>1, <2>2, ComingGrows
    <3> QED
      BY <2>1, <3>1, <3>2, StillGapless
  <2> QED
    BY <1>0, <2>1, <2>3, <2>4 DEF RingInv, Quiet
<1>2. CASE Written(w)
  <2>1. /\ UNCHANGED <<last, listeners, phase, index, since, chan, shown, full>>
        /\ writing' = [writing EXCEPT ![w] = Idle] /\ writing[w].rest = <<>>
    BY <1>2 DEF Written
  <2>2. \A v \in Writers : v # w => writing'[v] = writing[v]
    BY <2>1 DEF Typed
  <2>3. Typed'
    <3>1. <<>> \in Seq(Clients)
      BY EmptySeq
    <3> QED
      BY <1>0, <2>1, <3>1 DEF Typed, Idle
  <2>4. ASSUME NEW c \in Clients, Owed(c)' PROVE Gapless(c)'
    <3>1. Owed(c) /\ Gapless(c)
      BY <2>1, <2>4 DEF RingInv, Owed
    <3>2. ToSet(writing[w].rest) = {}
      BY <2>1 DEF ToSet
    <3>3. Coming(c) \subseteq Coming(c)'
      BY <2>1, <2>2, <3>2, ComingGrows
    <3> QED
      BY <2>1, <3>1, <3>3, StillGapless
  <2> QED
    BY <1>0, <2>1, <2>3, <2>4 DEF RingInv, Quiet
<1>3. CASE SendEntry(w)
  <2> DEFINE h == Head(writing[w].rest)
  <2>1. /\ UNCHANGED <<last, listeners, phase, index, since, shown>>
        /\ writing' = [writing EXCEPT ![w].rest = Tail(@)] /\ writing[w].rest # <<>>
        /\ \/ chan' = [chan EXCEPT ![h] = Append(@, writing[w].entry)] /\ UNCHANGED full
           \/ full' = [full EXCEPT ![h] = TRUE] /\ UNCHANGED chan
    BY <1>3 DEF SendEntry
  <2>2. h \in Clients /\ Tail(writing[w].rest) \in Seq(Clients)
        /\ ToSet(writing[w].rest) \subseteq ToSet(Tail(writing[w].rest)) \cup {h}
    BY <1>0, <2>1, ToSetTail DEF Typed
  <2> HIDE DEF h
  <2>3. /\ writing'[w].rest = Tail(writing[w].rest) /\ writing'[w].entry = writing[w].entry
        /\ \A v \in Writers : v # w => writing'[v] = writing[v]
    BY <1>0, <2>1 DEF Typed
  <2>4. /\ Append(chan[h], writing[w].entry) \in Seq(Nat)
        /\ ToSet(Append(chan[h], writing[w].entry)) = ToSet(chan[h]) \cup {writing[w].entry}
    <3>1. chan[h] \in Seq(Nat) /\ writing[w].entry \in Nat
      BY <1>0, <2>2 DEF Typed
    <3> QED
      BY <3>1, AppendProperties, ToSetAppend
  <2>5. Typed'
    <3>1. chan' \in [Clients -> Seq(Nat)] /\ full' \in [Clients -> BOOLEAN]
      BY <1>0, <2>1, <2>2, <2>4 DEF Typed
    <3> QED
      BY <1>0, <2>1, <2>2, <2>3, <3>1 DEF Typed
  <2>6. ASSUME NEW c \in Clients, Owed(c)' PROVE Gapless(c)'
    <3>1. Owed(c) /\ Gapless(c)
      BY <1>0, <2>1, <2>2, <2>6 DEF RingInv, Owed, Typed
    <3>2. h = c => ToSet(chan'[c]) = ToSet(chan[c]) \cup {writing[w].entry}
      BY <1>0, <2>1, <2>2, <2>4, <2>6 DEF Typed, Owed
    <3>3. h # c => chan'[c] = chan[c]
      BY <1>0, <2>1, <2>2 DEF Typed
    <3>4. ToSet(chan[c]) \subseteq ToSet(chan'[c])
      BY <3>2, <3>3
    <3>5. Coming(c) \subseteq Coming(c)'
      BY <2>2, <2>3, <3>2, <3>4, ComingGrows
    <3> QED
      BY <2>1, <3>1, <3>5, StillGapless
  <2> QED
    BY <1>0, <2>1, <2>5, <2>6 DEF RingInv, Quiet
<1> QED
  BY <1>1, <1>2, <1>3 DEF WriteStep

\* Subscribing owes a client nothing yet; its replay and its stream only add to what it was
\* shown; whoever leaves takes a channel off the list and adds none.
LEMMA ClientStepInv ==
  ASSUME RingInv, NEW d \in Clients, Subscribe(d) \/ Replay(d) \/ Stream(d) \/ Leave(d)
  PROVE  RingInv'
<1> USE DEF client, stream, ring
<1>0. Typed /\ Quiet
  BY DEF RingInv
<1>1. CASE Subscribe(d)
  <2>1. /\ phase[d] = "off" /\ phase' = [phase EXCEPT ![d] = "subscribed"]
        /\ listeners' = Append(listeners, d) /\ index' = [index EXCEPT ![d] = Len(listeners) + 1] /\ since' = [since EXCEPT ![d] = last]
        /\ UNCHANGED <<last, writing, chan, shown, full>>
    BY <1>1 DEF Subscribe
  <2>2. listeners' \in Seq(Clients) /\ ToSet(listeners') = ToSet(listeners) \cup {d}
    BY <1>0, <2>1, AppendProperties, ToSetAppend DEF Typed
  <2>3. Typed'
    BY <1>0, <2>1, <2>2 DEF Typed
  <2>4. Quiet'
    BY <1>0, <2>1 DEF Typed, Quiet
  <2>5. ASSUME NEW c \in Clients, Owed(c)' PROVE Gapless(c)'
    <3>1. CASE c = d
      <4>1. since'[c] + 1 .. last' = {}
        BY <1>0, <2>1, <3>1 DEF Typed
      <4> QED
        BY <4>1 DEF Gapless
    <3>2. CASE c # d
      <4>1. since'[c] = since[c] /\ Owed(c) /\ Gapless(c)
        BY <1>0, <2>1, <2>2, <2>5, <3>2 DEF RingInv, Owed, Typed
      <4>2. Coming(c) \subseteq Coming(c)'
        BY <2>1, ComingGrows
      <4> QED
        BY <2>1, <4>1, <4>2, StillGapless
    <3> QED
      BY <3>1, <3>2
  <2> QED
    BY <2>3, <2>4, <2>5 DEF RingInv
<1>2. CASE Replay(d)
  <2>1. /\ phase[d] = "subscribed" /\ phase' = [phase EXCEPT ![d] = "streaming"]
        /\ \E s : shown' = [shown EXCEPT ![d] = s]
        /\ UNCHANGED <<last, listeners, writing, index, since, chan, full>>
    BY <1>2 DEF Replay
  <2>2. Typed' /\ Quiet'
    BY <1>0, <2>1 DEF Typed, Quiet
  <2>3. ASSUME NEW c \in Clients, Owed(c)' PROVE Gapless(c)'
    <3>1. Owed(c) /\ Gapless(c)
      BY <1>0, <2>1, <2>3 DEF RingInv, Owed, Typed
    <3>2. Coming(c) \subseteq Coming(c)'
      BY <2>1, ComingGrows
    <3>3. shown[c] \subseteq shown'[c]
      BY <1>0, <2>1 DEF Quiet, Typed
    <3> QED
      BY <2>1, <3>1, <3>2, <3>3, StillGapless
  <2> QED
    BY <2>2, <2>3 DEF RingInv
<1>3. CASE Stream(d)
  <2>1. /\ phase[d] = "streaming" /\ chan[d] # <<>>
        /\ shown' = [shown EXCEPT ![d] = @ \cup {Head(chan[d])}]
        /\ chan' = [chan EXCEPT ![d] = Tail(@)]
        /\ UNCHANGED <<last, listeners, writing, phase, index, since, full>>
    BY <1>3 DEF Stream
  <2>2. Tail(chan[d]) \in Seq(Nat) /\ ToSet(chan[d]) \subseteq ToSet(Tail(chan[d])) \cup {Head(chan[d])}
    BY <1>0, <2>1, ToSetTail DEF Typed
  <2>3. Typed' /\ Quiet'
    BY <1>0, <2>1, <2>2 DEF Typed, Quiet
  <2>4. ASSUME NEW c \in Clients, Owed(c)' PROVE Gapless(c)'
    <3>1. Owed(c) /\ Gapless(c)
      BY <2>1, <2>4 DEF RingInv, Owed
    <3>2. shown[c] \subseteq shown'[c] /\ ToSet(chan[c]) \subseteq shown'[c] \cup ToSet(chan'[c])
      BY <1>0, <2>1, <2>2 DEF Typed
    <3>3. shown[c] \cup Coming(c) \subseteq shown'[c] \cup Coming(c)'
      BY <2>1, <3>2 DEF Coming
    <3> QED
      BY <2>1, <3>1, <3>3, StillGapless
  <2> QED
    BY <2>3, <2>4 DEF RingInv
<1>4. CASE Leave(d)
  <2>1. /\ phase[d] = "streaming" /\ phase' = [phase EXCEPT ![d] = "gone"]
        /\ UNCHANGED <<last, writing, index, since, chan, shown, full>>
        /\ \/ listeners' = listeners
           \/ index[d] \in Nat \ {0} /\ index[d] <= Len(listeners) /\ listeners' = RemoveAt(listeners, index[d])
    BY <1>4, <1>0 DEF Leave, Typed
  <2>2. listeners' \in Seq(Clients) /\ ToSet(listeners') \subseteq ToSet(listeners)
    BY <1>0, <2>1, ToSetRemoveAt DEF Typed
  <2>3. Typed' /\ Quiet'
    BY <1>0, <2>1, <2>2 DEF Typed, Quiet
  <2>4. ASSUME NEW c \in Clients, Owed(c)' PROVE Gapless(c)'
    <3>1. Owed(c) /\ Gapless(c)
      BY <1>0, <2>1, <2>2, <2>4 DEF RingInv, Owed, Typed
    <3>2. Coming(c) \subseteq Coming(c)'
      BY <2>1, ComingGrows
    <3> QED
      BY <2>1, <3>1, <3>2, StillGapless
  <2> QED
    BY <2>3, <2>4 DEF RingInv
<1> QED
  BY <1>1, <1>2, <1>3, <1>4

\* All steps of LogRing.
LEMMA RingNextInv == RingInv /\ [RingNext]_ringVars => RingInv'
<1> SUFFICES ASSUME RingInv, [RingNext]_ringVars PROVE RingInv'
  OBVIOUS
<1>1. CASE RingNext
  BY <1>1, EnterInv, WriteStepInv, ClientStepInv DEF RingNext
<1>2. CASE UNCHANGED ringVars
  <2>1. UNCHANGED <<last, listeners, writing, phase, index, since, chan, shown, full>>
    BY <1>2 DEF ringVars, ring, client, stream
  <2>2. Typed' /\ Quiet'
    BY <2>1 DEF RingInv, Typed, Quiet
  <2>3. ASSUME NEW c \in Clients, Owed(c)' PROVE Gapless(c)'
    <3>1. Owed(c) /\ Gapless(c)
      BY <2>1, <2>3 DEF RingInv, Owed
    <3>2. Coming(c) \subseteq Coming(c)'
      BY <2>1, ComingGrows
    <3> QED
      BY <2>1, <3>1, <3>2, StillGapless
  <2> QED
    BY <2>2, <2>3 DEF RingInv
<1> QED
  BY <1>1, <1>2

\* Every client that is listed and whose channel never was full has, or is sent, each entry
\* since it subscribed, also before its replay.
THEOREM RingInvariant == RingSpec => []RingInv
BY RingInitInv, RingNextInv, PTL DEF RingSpec

\* handleLogs leaves no gap between what it replays and what it streams, though writers send
\* with copies of the list and in any order (web/logs.go, web/handlers.go).
THEOREM NoEntryMissed == RingSpec => []NoGap
<1>1. ASSUME RingInv PROVE NoGap
  <2>1. \A c \in ToSet(listeners) : c \in Clients
    BY <1>1, LenProperties, ElementOfSeq DEF RingInv, Typed, ToSet
  <2> QED
    BY <1>1, <2>1 DEF RingInv, Owed, Gapless, NoGap
<1> QED
  BY <1>1, RingInvariant, PTL
=============================================================================
