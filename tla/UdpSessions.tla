---------------------------- MODULE UdpSessions ----------------------------
(***************************************************************************)
(* The forwarders of datagrams: socat with UDP (cmd/socat.go), whose       *)
(* sessions have a socket and a goroutine each, and forward udp            *)
(* (forward/forward.go), direct or through a proxy's association           *)
(* (proxy/socks5.go, proxy/udp.go).                                        *)
(*                                                                         *)
(* A datagram is its number, and has a sender.  The remote loses it,       *)
(* answers it, late or twice, or its port is closed.                       *)
(***************************************************************************)
EXTENDS Integers, Sequences, FiniteSets

CONSTANTS
  Senders,      \* clients of the listening socket
  MaxMsgs,      \* bound: datagrams the clients send
  Inbox         \* capacity of a session's inbox and of the association's channel

UdpKinds == {"socat", "direct", "proxied"}

Msgs == 1..MaxMsgs

Ids == 1..MaxMsgs

VARIABLES
  kind,       \* which forwarder, "off" when this process is something else
  ustate,     \* "on", "cancelled", "closed" (the socket), "ended", "crashed"
              \* (a send on a closed channel) or "nilAddr" (a call on a nil address)
  owner,      \* senders of the datagrams so far
  loop,       \* of the receiving goroutine: what it does, and for which datagram
  table,      \* session of each sender, 0 for none
  sess,       \* sessions so far
  cons,       \* sockets of theirs that closeAll closes
  swept,      \* closeAll has run
  last,       \* lastClient, 0 for none, -1 for the destination
  far,        \* per datagram at the remote: which socket it came from
  back,       \* per socket: answers on their way, a refusal is 0
  pump,       \* the association: readLoop, and the goroutine that hands answers back
  home        \* answers that were handed back: history

udpVars == << kind, ustate, owner, loop, table, sess, cons, swept, last, far, back, pump, home >>

Idle1 == [at |-> "receive", msg |-> 0, id |-> 0]

Pump0 == [loop |-> "read", got |-> 0, queue |-> << >>, closed |-> FALSE, answers |-> TRUE]

UdpStart ==
  /\ ustate = "on" /\ owner = << >> /\ loop = Idle1
  /\ table = [k \in Senders |-> 0] /\ sess = << >> /\ cons = {} /\ swept = FALSE
  /\ last = 0 /\ far = << >> /\ back = << >> /\ pump = Pump0 /\ home = {}

UdpOff == kind = "off" /\ UdpStart

UdpInit == kind \in UdpKinds /\ UdpStart

Alive == kind # "off" /\ ustate \notin {"ended", "crashed", "nilAddr"}

socatVars == << table, sess, cons, swept >>
proxyVars == << last, pump >>

-----------------------------------------------------------------------------
(* The receiving goroutine *)

Receive(k) ==
  /\ Alive /\ ustate \in {"on", "cancelled"} /\ loop.at = "receive" /\ Len(owner) < MaxMsgs
  /\ owner' = Append(owner, k)
  /\ loop' = [at |-> IF kind = "socat" THEN "check" ELSE "forward", msg |-> Len(owner) + 1, id |-> 0]
  /\ last' = IF kind = "socat" THEN last ELSE k
  /\ UNCHANGED << kind, ustate, socatVars, far, back, pump, home >>

\* enqueue: nothing under a cancelled context
Check ==
  /\ Alive /\ loop.at = "check"
  /\ loop' = IF ustate = "on" THEN [loop EXCEPT !.at = "lookup"] ELSE Idle1
  /\ UNCHANGED << kind, ustate, owner, socatVars, proxyVars, far, back, home >>

NewSession(k) == [of |-> k, inbox |-> << >>, closed |-> FALSE, cut |-> FALSE, run |-> "dial", msg |-> 0]

\* A fault the properties are to notice: clients behind one address share a session
SessionOfHost(k) ==
  IF \E j \in Senders : table[j] # 0 THEN table[CHOOSE j \in Senders : table[j] # 0] ELSE 0

SessionOf(k) == table[k]

\* under the lock: the session, or a new one
Lookup ==
  /\ Alive /\ loop.at = "lookup"
  /\ LET k == owner[loop.msg]
     IN IF SessionOf(k) # 0 THEN
          /\ loop' = [loop EXCEPT !.at = "send", !.id = SessionOf(k)]
          /\ UNCHANGED << table, sess, back >>
        ELSE
          /\ loop' = [loop EXCEPT !.at = "send", !.id = Len(sess) + 1]
          /\ sess' = Append(sess, NewSession(k))
          /\ back' = Append(back, << >>)
          /\ table' = [table EXCEPT ![k] = Len(sess) + 1]
  /\ UNCHANGED << kind, ustate, owner, cons, swept, proxyVars, far, home >>

\* the lock was given back: the inbox may be closed by now
Send ==
  /\ Alive /\ loop.at = "send"
  /\ IF sess[loop.id].closed THEN
       /\ ustate' = "crashed" /\ UNCHANGED sess
     ELSE
       /\ UNCHANGED ustate
       /\ sess' = IF Len(sess[loop.id].inbox) < Inbox
                  THEN [sess EXCEPT ![loop.id].inbox = Append(@, loop.msg)] ELSE sess
  /\ loop' = Idle1
  /\ UNCHANGED << kind, owner, table, cons, swept, proxyVars, far, back, home >>

\* forward udp: out of the association's socket, or of the one it came in by.  The destination
\* is resolved for each datagram: if it is not found, the write to a nil address fails, and the
\* association's, which asks it for its name, panics, against forward.go:195
ForwardOn ==
  /\ Alive /\ loop.at = "forward"
  /\ \/ /\ far' = IF ustate = "closed" /\ kind = "direct" THEN far
                   ELSE Append(far, [msg |-> loop.msg, id |-> 0])
        /\ UNCHANGED ustate
     \/ /\ ustate' = IF kind = "proxied" THEN "nilAddr" ELSE ustate
        /\ UNCHANGED far
  /\ loop' = Idle1
  /\ UNCHANGED << kind, owner, socatVars, proxyVars, back, home >>

-----------------------------------------------------------------------------
(* The goroutine of a session *)

Runs(i, at) == Alive /\ kind = "socat" /\ i \in 1..Len(sess) /\ sess[i].run = at

Goes(i, at) == sess' = [sess EXCEPT ![i].run = at]

rest == << kind, ustate, owner, loop, swept, proxyVars >>

\* UDP's dial: a name that is not found, or the context
DialFails(i) ==
  /\ Runs(i, "dial") /\ Goes(i, "drop")
  /\ UNCHANGED << rest, table, cons, far, back, home >>

DialWorks(i) ==
  /\ Runs(i, "dial") /\ Goes(i, "register")
  /\ UNCHANGED << rest, table, cons, far, back, home >>

\* A fault the properties are to notice: the session that could not dial stays
DropNot(i) ==
  /\ Runs(i, "drop") /\ Goes(i, "ended")
  /\ UNCHANGED << rest, table, cons, far, back, home >>

\* A fault the properties are to notice: the inbox is closed with the session
DropCloses(i) ==
  /\ Runs(i, "drop")
  /\ sess' = [sess EXCEPT ![i].run = "ended", ![i].closed = TRUE]
  /\ table' = [table EXCEPT ![sess[i].of] = 0]
  /\ UNCHANGED << rest, cons, far, back, home >>

\* by the sender's address, whatever session has it now
Drop(i) ==
  /\ Runs(i, "drop") /\ Goes(i, "ended")
  /\ table' = [table EXCEPT ![sess[i].of] = 0]
  /\ UNCHANGED << rest, cons, far, back, home >>

Register(i) ==
  /\ Runs(i, "register") /\ Goes(i, "select")
  /\ cons' = cons \cup {i}
  /\ UNCHANGED << rest, table, far, back, home >>

\* select: the context, or the inbox; both may be ready
Select(i) ==
  /\ Runs(i, "select")
  /\ \/ /\ ustate # "on" \/ (sess[i].closed /\ sess[i].inbox = << >>)
        /\ Goes(i, "ended") /\ UNCHANGED << far >>
     \/ /\ sess[i].inbox # << >>
        /\ \/ \* the socket was closed, or refused before
              sess' = [sess EXCEPT ![i].inbox = Tail(@)] /\ UNCHANGED far
           \/ /\ ~sess[i].cut
              /\ sess' = [sess EXCEPT ![i].inbox = Tail(@), ![i].run = "read",
                                      ![i].msg = Head(sess[i].inbox)]
              /\ far' = Append(far, [msg |-> Head(sess[i].inbox), id |-> i])
  /\ UNCHANGED << rest, table, cons, back, home >>

\* one answer for each request, with no deadline, to the sender of the request
Answer(i) ==
  /\ Runs(i, "read") /\ back[i] # << >> /\ Head(back[i]) # 0
  /\ home' = IF ustate \in {"on", "cancelled"}
             THEN home \cup {[to |-> owner[sess[i].msg], msg |-> Head(back[i])]} ELSE home
  /\ back' = [back EXCEPT ![i] = Tail(@)]
  /\ Goes(i, "select")
  /\ UNCHANGED << rest, table, cons, far >>

\* a refusal, or closeAll: the goroutine ends and the session stays in the table
ReadFails(i) ==
  /\ Runs(i, "read")
  /\ sess[i].cut \/ (back[i] # << >> /\ Head(back[i]) = 0)
  /\ Goes(i, "deaf")
  /\ UNCHANGED << rest, table, cons, far, back, home >>

-----------------------------------------------------------------------------
(* The interrupt *)

CancelUdp ==
  /\ Alive /\ ustate = "on" /\ ustate' = "cancelled"
  /\ UNCHANGED << kind, owner, loop, socatVars, proxyVars, far, back, home >>

SocketCloses ==
  /\ Alive /\ ustate = "cancelled" /\ ustate' = "closed"
  /\ UNCHANGED << kind, owner, loop, socatVars, proxyVars, far, back, home >>

CloseAll ==
  /\ Alive /\ kind = "socat" /\ ustate = "closed" /\ ~swept
  /\ swept' = TRUE
  /\ sess' = [i \in 1..Len(sess) |->
                [sess[i] EXCEPT !.closed = @ \/ \E k \in Senders : table[k] = i,
                                !.cut = i \in cons]]
  /\ table' = [k \in Senders |-> 0] /\ cons' = {}
  /\ UNCHANGED << kind, ustate, owner, loop, proxyVars, far, back, home >>

\* a read error under a cancelled context, and for forward any other
ReceiveEnds ==
  /\ Alive /\ loop.at = "receive"
  /\ \/ ustate = "closed"
     \/ ustate = "on" /\ kind # "socat"
  /\ IF kind = "proxied" THEN loop' = [loop EXCEPT !.at = "close"] /\ UNCHANGED ustate
     ELSE ustate' = "ended" /\ UNCHANGED loop
  /\ UNCHANGED << kind, owner, socatVars, proxyVars, far, back, home >>

-----------------------------------------------------------------------------
(* The association (socks5UDPConn) *)

proxyRest == << kind, owner, socatVars, far >>

\* ParseUDPHeader
WellFormed(answer) == answer # 0

\* what is malformed is dropped
ReadLoop ==
  /\ Alive /\ kind = "proxied" /\ pump.loop = "read" /\ loop.at # "wait" /\ back # << >> /\ back[1] # << >>
  /\ back' = [back EXCEPT ![1] = Tail(@)]
  /\ pump' = IF ~WellFormed(Head(back[1])) THEN pump ELSE [pump EXCEPT !.loop = "push", !.got = Head(back[1])]
  /\ UNCHANGED << proxyRest, ustate, loop, last, home >>

\* a send on the channel that Close closed before it closed the socket
Push ==
  /\ Alive /\ kind = "proxied" /\ pump.loop = "push"
  /\ IF pump.closed THEN ustate' = "crashed" /\ UNCHANGED pump
     ELSE /\ UNCHANGED ustate
          /\ pump' = [pump EXCEPT !.loop = "read",
                        !.queue = IF Len(@) < Inbox THEN Append(@, pump.got) ELSE @]
  /\ UNCHANGED << proxyRest, loop, last, back, home >>

\* to whoever sent last; a failed write ends the goroutine
HandBack ==
  /\ Alive /\ kind = "proxied" /\ pump.answers /\ pump.queue # << >>
  /\ IF last = 0 \/ ustate = "closed" THEN
       /\ pump' = [pump EXCEPT !.queue = Tail(@), !.answers = FALSE] /\ UNCHANGED home
     ELSE
       /\ pump' = [pump EXCEPT !.queue = Tail(@)]
       /\ home' = home \cup {[to |-> last, msg |-> Head(pump.queue)]}
  /\ UNCHANGED << proxyRest, ustate, loop, last, back >>

\* Close: the channel, then the socket, and the wait for readLoop
CloseChannel ==
  /\ Alive /\ loop.at = "close"
  /\ pump' = [pump EXCEPT !.closed = TRUE]
  /\ loop' = [loop EXCEPT !.at = "closing"]
  /\ UNCHANGED << proxyRest, ustate, last, back, home >>

CloseSocket ==
  /\ Alive /\ loop.at = "closing"
  /\ loop' = [loop EXCEPT !.at = "wait"]
  /\ UNCHANGED << proxyRest, ustate, proxyVars, back, home >>

CloseReturns ==
  /\ Alive /\ loop.at = "wait" /\ pump.loop = "read"
  /\ ustate' = "ended"
  /\ UNCHANGED << proxyRest, loop, proxyVars, back, home >>

-----------------------------------------------------------------------------
(* The remote *)

Slot(id) == IF id = 0 THEN 1 ELSE id

Grown(i) == IF Len(back) < i THEN Append(back, << >>) ELSE back

\* an answer; the socket it goes to knows where it comes from, and nothing else
RemoteAnswers ==
  /\ Alive /\ kind # "direct"
  /\ \E n \in 1..Len(far) :
       /\ Len(Grown(Slot(far[n].id))[Slot(far[n].id)]) < 2
       /\ back' = [Grown(Slot(far[n].id)) EXCEPT ![Slot(far[n].id)] = Append(@, far[n].msg)]
       /\ far' \in {far, SubSeq(far, 1, n - 1) \o SubSeq(far, n + 1, Len(far))}
  /\ UNCHANGED << kind, ustate, owner, loop, socatVars, proxyVars, home >>

\* an answer to forward's own socket is taken for a client's datagram and goes
\* back to where it came from
RemoteAnswersDirect ==
  /\ Alive /\ kind = "direct" /\ far # << >> /\ ustate \in {"on", "cancelled"} /\ loop.at = "receive"
  /\ last' = -1
  /\ UNCHANGED << kind, ustate, owner, loop, socatVars, far, back, pump, home >>

Refuses ==
  /\ Alive /\ kind # "direct" /\ far # << >>
  /\ LET i == Slot(Head(far).id)
     IN /\ Len(Grown(i)[i]) < 2
        /\ back' = [Grown(i) EXCEPT ![i] = Append(@, 0)]
  /\ far' = Tail(far)
  /\ UNCHANGED << kind, ustate, owner, loop, socatVars, proxyVars, home >>

Loses ==
  /\ Alive /\ far # << >> /\ far' = Tail(far)
  /\ UNCHANGED << kind, ustate, owner, loop, socatVars, proxyVars, back, home >>

-----------------------------------------------------------------------------
SessionRuns(i) ==
  \/ DialFails(i) \/ DialWorks(i) \/ Drop(i) \/ Register(i)
  \/ Select(i) \/ Answer(i) \/ ReadFails(i)

UdpLoop ==
  \/ Check \/ Lookup \/ Send \/ ForwardOn \/ ReceiveEnds
  \/ CloseChannel \/ CloseSocket \/ CloseReturns

UdpNext ==
  \/ \E k \in Senders : Receive(k)
  \/ \E i \in Ids : SessionRuns(i)
  \/ UdpLoop \/ CancelUdp \/ SocketCloses \/ CloseAll
  \/ ReadLoop \/ Push \/ HandBack
  \/ RemoteAnswers \/ RemoteAnswersDirect \/ Refuses \/ Loses

-----------------------------------------------------------------------------
(* Properties *)

(***************************************************************************)
(* An answer goes to the client whose datagram the remote answered, late   *)
(* and repeated answers too: each session has its own connected socket and *)
(* one goroutine (socat.go:365-369).  forward udp gives it to whoever sent *)
(* last (forward.go:178).                                                  *)
(***************************************************************************)
AnswersGoHome ==
  kind = "socat" => \A h \in home : h.to = owner[h.msg]

(***************************************************************************)
(* A session in the table has a goroutine that takes its datagrams, but    *)
(* for one whose read failed: that one stays, and its client's datagrams   *)
(* fill its inbox (socat.go:464).  A failed dial takes the session out, so *)
(* that the next datagram tries again (socat.go:424).                      *)
(***************************************************************************)
SessionServed ==
  kind = "socat" /\ ustate = "on" =>
    \A k \in Senders : table[k] # 0 => sess[table[k]].run # "ended"

(***************************************************************************)
(* Nothing but the end of the forwarder can make a send meet a closed      *)
(* channel, be it an inbox (socat.go:409) or the association's channel     *)
(* (socks5.go:336).  A destination that is not found ends an association's *)
(* forwarder sooner, by a call on a nil address (socks5.go:314).           *)
(***************************************************************************)
PanicsAtEndOnly ==
  ustate = "crashed" => swept \/ pump.closed
=============================================================================
