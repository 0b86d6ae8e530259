------------------------- MODULE ServiceSupervisor -------------------------
(***************************************************************************)
(* Detached services (agent/service.go, cmd/stop.go): the processes of one *)
(* service, the pid file that names one of them, and those who start and   *)
(* stop them.                                                              *)
(*                                                                         *)
(* The agent runs for long: its `service' tool calls ServiceStart and Stop,*)
(* one call at a time, it lists the process it started in procTable, and a *)
(* goroutine per process it started waits for its end.  The command line,  *)
(* `stop' and `restart', is a process of its own each time, with an empty  *)
(* procTable, that has exited before any process it started ends.          *)
(*                                                                         *)
(* Services share no state (table and pid files are by name): one is       *)
(* modelled.  Pids are not reused.                                         *)
(***************************************************************************)
EXTENDS Naturals, FiniteSets

CONSTANTS Agent,    \* the agent's caller of ServiceStart and Stop
          Clis,     \* command lines
          MaxProcs  \* bound: processes ever started

ASSUME SupervisorAssumption == Agent \notin Clis /\ MaxProcs \in Nat

Pids == 1 .. MaxProcs

NoPid == 0

Blank == MaxProcs + 1  \* a pid file that was created and not yet written

Callers == {Agent} \cup Clis

VARIABLES
  born,    \* number of processes started so far: pids 1 .. born
  alive,   \* those that run
  file,    \* what the pid file says, or NoPid if there is none
  opened,  \* callers that hold the present file open, to write to it
  table,   \* the agent's procTable: the process it lists, or NoPid
  waiter,  \* the agent's goroutine for each process it started
  at,      \* where each caller is in Stop or ServiceStart
  target   \* the pid it is about

procs   == <<born, alive>>
pidfile == <<file, opened>>
callers == <<at, target>>
supervisorVars == <<procs, pidfile, table, waiter, callers>>

Steps == {"idle"}
         \cup {"stop", "kill", "drop", "erase", "unlist"}                   \* Stop
         \cup {"check", "spawn", "list", "record", "write", "wait"}  \* ServiceStart

SupervisorTypeOK ==
  /\ born \in 0 .. MaxProcs
  /\ alive \in SUBSET (1 .. born)
  /\ file \in (0 .. born) \cup {Blank}
  /\ opened \subseteq {c \in Callers : at[c].step = "write"}
  /\ table \in 0 .. born
  /\ waiter \in [Pids -> {"none", "waiting", "erase", "unlist", "ended"}]
  /\ at \in [Callers -> [step : Steps, then : {"idle", "check"}]]
  /\ target \in [Callers -> 0 .. born]

SupervisorInit ==
  /\ born = 0 /\ alive = {}
  /\ file = NoPid /\ opened = {}
  /\ table = NoPid
  /\ waiter = [p \in Pids |-> "none"]
  /\ at = [c \in Callers |-> [step |-> "idle", then |-> "idle"]]
  /\ target = [c \in Callers |-> NoPid]

At(c, s) == at[c].step = s

Goto(c, s) == at' = [at EXCEPT ![c].step = s]

\* What follows Stop: nothing, or the start half of a restart, whatever Stop said.
Return(c) == Goto(c, at[c].then)

\* A process whose parent has not waited for it is still there to be signalled.
Exists(p) == p \in alive \/ waiter[p] = "waiting"

Dies(p) ==
  /\ p \in alive
  /\ alive' = alive \ {p}
  /\ UNCHANGED <<born, pidfile, table, waiter, callers>>

-----------------------------------------------------------------------------
(* Stop. *)

Call(c) ==
  /\ At(c, "idle")
  /\ \E a \in IF c = Agent THEN {[step |-> "check", then |-> "idle"], [step |-> "stop", then |-> "idle"]}
              ELSE {[step |-> "stop", then |-> "idle"], [step |-> "stop", then |-> "check"]} :
       at' = [at EXCEPT ![c] = a]
  /\ UNCHANGED <<procs, pidfile, table, waiter, target>>

\* The pid file is read: without one the service "is not running"; neither is it
\* with one that names no process, and that one is removed.
ReadFile(c) ==
  /\ At(c, "stop")
  /\ target' = [target EXCEPT ![c] = IF file = Blank THEN NoPid ELSE file]
  /\ \/ file = NoPid /\ Return(c)
     \/ file = Blank /\ Goto(c, "drop")
     \/ file \in Pids /\ Goto(c, "kill")
  /\ UNCHANGED <<procs, pidfile, table, waiter>>

\* KillPID fails when there is no such process; the file goes all the same.
Kill(c) ==
  /\ At(c, "kill")
  /\ Goto(c, IF Exists(target[c]) THEN "erase" ELSE "drop")
  /\ alive' = alive \ {target[c]}
  /\ UNCHANGED <<born, pidfile, table, waiter, target>>

\* DeletePID removes the file, whatever it says by now and whoever writes to it.
DeletePID == file' = NoPid /\ opened' = {}

Erase(c) ==
  /\ \/ At(c, "erase") /\ Goto(c, "unlist")
     \/ At(c, "drop") /\ Return(c)
  /\ DeletePID
  /\ UNCHANGED <<procs, table, waiter, target>>

\* The caller's own procTable loses its entry.
Unlist(c) ==
  /\ At(c, "unlist")
  /\ table' = IF c = Agent THEN NoPid ELSE table
  /\ Return(c)
  /\ UNCHANGED <<procs, pidfile, waiter, target>>

-----------------------------------------------------------------------------
(* ServiceStart. *)

\* A listed process that was not waited for is "already running".
Running == table # NoPid /\ waiter[table] \in {"none", "waiting"}

Check(c) ==
  /\ At(c, "check")
  /\ Goto(c, IF c = Agent /\ Running THEN "idle" ELSE "spawn")
  /\ UNCHANGED <<procs, pidfile, table, waiter, target>>

Spawned(c) ==
  /\ At(c, "spawn") /\ born < MaxProcs
  /\ born' = born + 1
  /\ alive' = alive \cup {born'}
  /\ target' = [target EXCEPT ![c] = born']
  /\ Goto(c, "list")
  /\ UNCHANGED <<pidfile, table>>

\* Mutants, here and below, are slips the runs must notice; no action uses them.
SpawnWaited(c) ==
  /\ Spawned(c)
  /\ waiter' = IF c = Agent THEN [waiter EXCEPT ![born'] = "waiting"] ELSE waiter

Spawn(c) == Spawned(c) /\ UNCHANGED waiter

SpawnFails(c) ==
  /\ At(c, "spawn")
  /\ Goto(c, "idle")
  /\ UNCHANGED <<procs, pidfile, table, waiter, target>>

List(c) ==
  /\ At(c, "list")
  /\ table' = IF c = Agent THEN target[c] ELSE table
  /\ Goto(c, "record")
  /\ UNCHANGED <<procs, pidfile, waiter, target>>

\* RecordPID creates the file, or empties it, and then writes the pid to it.
RecordPID(c) ==
  /\ At(c, "record")
  /\ file' = Blank /\ opened' = opened \cup {c}
  /\ Goto(c, "write")
  /\ UNCHANGED <<procs, table, waiter, target>>

WritePID(c) ==
  /\ At(c, "write")
  /\ file' = IF c \in opened THEN target[c] ELSE file
  /\ opened' = opened \ {c}
  /\ Goto(c, "wait")
  /\ UNCHANGED <<procs, table, waiter, target>>

\* The goroutine that waits. A command line exits instead.
StartWaiter(c) ==
  /\ At(c, "wait")
  /\ waiter' = IF c = Agent /\ waiter[target[c]] = "none"
               THEN [waiter EXCEPT ![target[c]] = "waiting"] ELSE waiter
  /\ Goto(c, "idle")
  /\ UNCHANGED <<procs, pidfile, table, target>>

-----------------------------------------------------------------------------
(* The waiting goroutine of a process of the agent's. *)

Waited(p) ==
  /\ waiter[p] = "waiting" /\ p \notin alive
  /\ waiter' = [waiter EXCEPT ![p] = "erase"]
  /\ UNCHANGED <<procs, pidfile, table, callers>>

WaiterErasesOrEnds(p) ==
  /\ waiter[p] = "erase"
  /\ DeletePID
  /\ waiter' = [waiter EXCEPT ![p] = IF file = NoPid THEN "ended" ELSE "unlist"]
  /\ UNCHANGED <<procs, table, callers>>

\* DeletePID by name: the file may name a younger process by now.
WaiterErases(p) ==
  /\ waiter[p] = "erase"
  /\ DeletePID
  /\ waiter' = [waiter EXCEPT ![p] = "unlist"]
  /\ UNCHANGED <<procs, table, callers>>

WaiterUnlistsAny(p) ==
  /\ waiter[p] = "unlist"
  /\ table' = NoPid
  /\ waiter' = [waiter EXCEPT ![p] = "ended"]
  /\ UNCHANGED <<procs, pidfile, callers>>

\* The entry goes only if it is still the one of this process.
WaiterUnlists(p) ==
  /\ waiter[p] = "unlist"
  /\ table' = IF table = p THEN NoPid ELSE table
  /\ waiter' = [waiter EXCEPT ![p] = "ended"]
  /\ UNCHANGED <<procs, pidfile, callers>>

-----------------------------------------------------------------------------

StopStep(c) == ReadFile(c) \/ Kill(c) \/ Erase(c) \/ Unlist(c)

StartStep(c) ==
  Check(c) \/ Spawn(c) \/ SpawnFails(c) \/ List(c) \/ RecordPID(c)
  \/ WritePID(c) \/ StartWaiter(c)

WaiterStep(p) == Waited(p) \/ WaiterErases(p) \/ WaiterUnlists(p)

SupervisorNext ==
  \/ \E c \in Callers : Call(c) \/ StopStep(c) \/ StartStep(c)
  \/ \E p \in Pids : Dies(p) \/ WaiterStep(p)

SupervisorSpec == SupervisorInit /\ [][SupervisorNext]_supervisorVars

\* Goroutines run; who calls, and which process dies, is nobody's duty.
SupervisorFairness ==
  /\ \A p \in Pids : WF_supervisorVars(WaiterStep(p))
  /\ \A c \in Callers : WF_supervisorVars(StopStep(c) \/ StartStep(c))

SupervisorFairSpec == SupervisorSpec /\ SupervisorFairness

-----------------------------------------------------------------------------
(* Properties. *)

\* The agent lists no process it has forgotten about: an entry's goroutine is
\* still to remove it, or the call that made it is still to start the goroutine.
\* Otherwise the entry would stay for ever.
EntryHasWaiter ==
  table # NoPid =>
    \/ waiter[table] \in {"waiting", "erase", "unlist"}
    \/ target[Agent] = table /\ at[Agent].step \in {"record", "write", "wait"}

\* The entry of a live process is removed by the agent's Stop alone, never by the
\* goroutine of an older process of the service that ends late.
LiveEntryKept ==
  [][table # NoPid /\ table \in alive /\ table' # table => At(Agent, "unlist") \/ At(Agent, "list")]_supervisorVars

\* A process that ended does not stay listed, whatever became of its pid file.
DeadUnlisted == \A p \in Pids : (table = p /\ p \notin alive) ~> table # p
=============================================================================
