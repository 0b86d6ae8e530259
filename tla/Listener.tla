------------------------------ MODULE Listener ------------------------------
(***************************************************************************)
(* The life of the proxy listener (Start, Stop and the accept loops of     *)
(* listener/http.go, the routing of listener/tproxy_linux.go) in runProxy  *)
(* (cmd/runtime.go): Start binds one door after the other and then waits,  *)
(* Stop may come from the context's goroutine at any moment of that.       *)
(***************************************************************************)
EXTENDS Naturals, FiniteSets, Sequences

CONSTANT MaxRuns  \* bound: processes, one after the other, on one host

ASSUME ListenerAssumption == MaxRuns \in Nat \ {0}

VARIABLES
  routed,     \* tproxy-mark and tproxy-table are configured: routes are ours
  start,      \* where Start is: the door it binds, or further on
  result,     \* what it returned
  door,       \* the doors' sockets; "none" without a port in the configuration
  loop,       \* their accept loops
  stopCh,     \* "nil", "open" or "closed"
  errs,       \* errors in the channel (its capacity is 2)
  ctxDone,    \* the context of runProxy
  closed,     \* the listener's own flag
  stopper,    \* in whose call the one Stop that counts is running
  taken,      \* the doors it has found
  found,      \* and where Start was then
  rules,      \* the kernel's: the mark's rule, a route for IPv4, one for IPv6
  runs        \* processes so far

starting == <<start, result, stopCh>>
serving  == <<door, loop, errs>>
stopping == <<closed, stopper, taken, found>>
listenerVars == <<starting, serving, ctxDone, stopping, rules, runs, routed>>

Doors == {"http", "socks5", "tproxy"}

Rules == {"rule", "ipv4", "ipv6"}

Places == {"new", "http", "socks5", "tproxy", "routing", "waiting", "stopping",
           "returned", "panicked"}

ListenerTypeOK ==
  /\ start \in Places /\ found \in Places
  /\ result \in {"none", "nil", "error"}
  /\ door \in [Doors -> {"none", "unbound", "open", "closed"}]
  /\ loop \in [Doors -> {"off", "accepting", "ended"}]
  /\ stopCh \in {"nil", "open", "closed"}
  /\ errs \in 0 .. 2
  /\ ctxDone \in BOOLEAN /\ closed \in BOOLEAN
  /\ stopper \in {"nobody", "context", "start", "done"}
  /\ taken \in SUBSET Doors
  /\ rules \in SUBSET Rules /\ runs \in 1 .. MaxRuns /\ routed \in BOOLEAN
  /\ closed <=> stopper # "nobody"

ListenerInit ==
  /\ start = "new" /\ result = "none" /\ stopCh = "nil"
  /\ door \in [Doors -> {"none", "unbound"}] /\ routed \in BOOLEAN
  /\ loop = [d \in Doors |-> "off"]
  /\ errs = 0
  /\ ctxDone = FALSE
  /\ closed = FALSE /\ stopper = "nobody" /\ taken = {} /\ found = "new"
  /\ rules = {} /\ runs = 1

-----------------------------------------------------------------------------
(* Stop, in two steps: what it copies under the lock, and what it does then. *)

BeginStop(who) ==
  /\ closed' = TRUE /\ stopper' = who
  /\ taken' = {d \in Doors : door[d] \in {"open", "closed"}}
  /\ found' = start

\* A mutant, a slip the runs must notice; no action uses it.
ClosedButTProxy(ds) ==
  [d \in Doors |-> IF d \in ds \ {"tproxy"} THEN "closed" ELSE door[d]]

Closed(ds) == [d \in Doors |-> IF d \in ds THEN "closed" ELSE door[d]]

\* teardownTProxyRouting deletes "rule ... local" where the IPv4 route was meant.
FinishStop(who) ==
  /\ stopper = who
  /\ stopper' = "done"
  /\ door' = Closed(taken)
  /\ rules' = IF routed THEN rules \ {"rule", "ipv6"} ELSE rules
  /\ stopCh' = CASE found = "new" -> stopCh [] stopCh = "closed" -> "twice" [] OTHER -> "closed"
  /\ UNCHANGED <<closed, taken, found, runs, routed>>

-----------------------------------------------------------------------------
(* Start. *)

After(s) == CASE s = "new" -> "http" [] s = "http" -> "socks5" [] s = "socks5" -> "tproxy"
              [] OTHER -> IF \A d \in Doors : door[d] = "none" THEN "returned" ELSE "waiting"

Begin ==
  /\ start = "new"
  /\ start' = "http" /\ stopCh' = "open"
  /\ UNCHANGED <<result, serving, ctxDone, stopping, rules, runs, routed>>

Skip ==
  /\ start \in Doors /\ door[start] = "none"
  /\ start' = After(start)
  /\ result' = IF start' = "returned" THEN "nil" ELSE result
  /\ UNCHANGED <<stopCh, serving, ctxDone, stopping, rules, runs, routed>>

\* The door is open, Stop can find it, and its accept loop runs; the transparent
\* one has its routing installed first.
Bind(d) ==
  /\ start = d /\ door[d] # "none"
  /\ door' = [door EXCEPT ![d] = "open"]
  /\ IF d = "tproxy"
     THEN start' = "routing" /\ UNCHANGED loop
     ELSE start' = After(d) /\ loop' = [loop EXCEPT ![d] = "accepting"]
  /\ UNCHANGED <<result, stopCh, errs, ctxDone, stopping, rules, runs, routed>>

\* The port is taken, or the kernel refuses. Nothing is bound before "http"; at
\* "socks5" Start calls Stop; at "tproxy" it closes a listener that is not there.
BindFails(d) ==
  /\ start = d /\ door[d] # "none"
  /\ CASE d = "http"   -> start' = "returned" /\ result' = "error" /\ UNCHANGED stopping
       [] d = "tproxy" -> start' = "panicked" /\ UNCHANGED <<result, stopping>>
       [] OTHER -> /\ result' = "error"
                   /\ IF closed THEN start' = "returned" /\ UNCHANGED stopping
                                ELSE start' = "stopping" /\ BeginStop("start")
  /\ UNCHANGED <<stopCh, serving, ctxDone, rules, runs, routed>>

\* The rule and the IPv4 route must be new to the kernel; the other is optional.
Route ==
  /\ start = "routing" /\ (routed => {"rule", "ipv4"} \cap rules = {})
  /\ start' = "waiting"
  /\ loop' = [loop EXCEPT !["tproxy"] = "accepting"]
  /\ rules' \in IF routed THEN {rules \cup {"rule", "ipv4"}, Rules} ELSE {rules}
  /\ UNCHANGED <<result, stopCh, door, errs, ctxDone, stopping, runs, routed>>

\* One of the two could not be made, or is there already. Only this door is closed.
RouteFails ==
  /\ start = "routing" /\ routed
  /\ start' = "returned" /\ result' = "error"
  /\ door' = [door EXCEPT !["tproxy"] = "closed"]
  /\ rules' = rules \ {"rule", "ipv6"}
  /\ UNCHANGED <<stopCh, loop, errs, ctxDone, stopping, runs, routed>>

\* The select that Start ends in.
Woken ==
  /\ start = "waiting" /\ stopCh = "closed"
  /\ start' = "returned" /\ result' = "nil"
  /\ UNCHANGED <<stopCh, serving, ctxDone, stopping, rules, runs, routed>>

FailedIgnored ==
  /\ start = "waiting" /\ errs > 0
  /\ errs' = errs - 1 /\ result' = "error"
  /\ UNCHANGED <<start, stopCh, door, loop, ctxDone, stopping, rules, runs, routed>>

Failed ==
  /\ start = "waiting" /\ errs > 0
  /\ errs' = errs - 1 /\ result' = "error"
  /\ IF closed THEN start' = "returned" /\ UNCHANGED stopping
               ELSE start' = "stopping" /\ BeginStop("start")
  /\ UNCHANGED <<stopCh, door, loop, ctxDone, rules, runs, routed>>

OwnStop ==
  /\ start = "stopping" /\ FinishStop("start")
  /\ start' = "returned"
  /\ UNCHANGED <<result, loop, errs, ctxDone>>

-----------------------------------------------------------------------------
(* The context's goroutine, and the accept loops. *)

Cancel ==
  /\ ~ctxDone /\ ctxDone' = TRUE
  /\ UNCHANGED <<starting, serving, stopping, rules, runs, routed>>

ContextStops ==
  /\ ctxDone /\ ~closed /\ BeginStop("context")
  /\ UNCHANGED <<starting, serving, ctxDone, rules, runs, routed>>

ContextFinishes ==
  /\ FinishStop("context")
  /\ UNCHANGED <<start, result, loop, errs, ctxDone>>

\* Accept fails, and the loop closes its door. Without a Stop the error goes to
\* Start, if the channel has room, but that of SOCKS5 to the log only.
AcceptFails(d) ==
  /\ loop[d] = "accepting"
  /\ loop' = [loop EXCEPT ![d] = "ended"]
  /\ door' = [door EXCEPT ![d] = "closed"]
  /\ errs' = IF ~closed /\ d # "socks5" /\ errs < 2 THEN errs + 1 ELSE errs
  /\ UNCHANGED <<starting, ctxDone, stopping, rules, runs, routed>>

\* The process is over, and what it had with it, but not what the kernel keeps.
\* There is a next one.
Rerun ==
  /\ start \in {"returned", "panicked"} /\ runs < MaxRuns
  /\ runs' = runs + 1
  /\ start' = "new" /\ result' = "none" /\ stopCh' = "nil"
  /\ door' \in [Doors -> {"none", "unbound"}] /\ loop' = [d \in Doors |-> "off"] /\ errs' = 0
  /\ ctxDone' = FALSE
  /\ closed' = FALSE /\ stopper' = "nobody" /\ taken' = {} /\ found' = "new"
  /\ UNCHANGED <<rules, routed>>

StartGoesOn ==
  \/ Begin \/ Skip \/ Route \/ RouteFails \/ Woken \/ Failed \/ OwnStop
  \/ \E d \in Doors : Bind(d) \/ BindFails(d)

\* A panic is the end of a process.
ListenerNext ==
  \/ /\ start # "panicked"
     /\ \/ StartGoesOn \/ Cancel \/ ContextStops \/ ContextFinishes
        \/ \E d \in Doors : AcceptFails(d)
  \/ Rerun

ListenerSpec == ListenerInit /\ [][ListenerNext]_listenerVars

\* Goroutines run. The context need never be cancelled, and no Accept need fail:
\* a transparent one may even outlast its closed socket.
ListenerFairness == WF_listenerVars(StartGoesOn) /\ WF_listenerVars(ContextStops) /\ WF_listenerVars(ContextFinishes)

ListenerFairSpec == ListenerSpec /\ ListenerFairness

-----------------------------------------------------------------------------
(* Properties. *)

Over == start \in {"returned", "panicked"}

\* Start comes back: when Stop was called after it had made its channel, or when
\* the HTTP or the transparent door failed by itself.
StartReturns == (closed /\ found # "new") \/ errs > 0 ~> Over

\* A Stop that came when Start had got through its doors, or had given up, leaves
\* none of them open and the mark's rule is gone, whatever failed on the way and
\* whichever of the two callers was first.
DoorsClosed ==
  stopper = "done" /\ Over /\ found \in {"waiting", "returned"} =>
    /\ \A d \in Doors : door[d] # "open"
    /\ routed => "rule" \notin rules
=============================================================================
