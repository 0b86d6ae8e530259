---------------------------- MODULE Connections ----------------------------
(***************************************************************************)
(* The connections of the proxy listener, one goroutine each               *)
(* (handleHTTP, handleSOCKS5, handleTProxy and relay in listener/http.go), *)
(* the interception of TLS (InterceptConnect in listener/mitm.go) and the  *)
(* Flow that records a request (listener/flow.go).                         *)
(*                                                                         *)
(* A connection has two directions: "up" from client to origin, "down"     *)
(* from origin to client. What the source of a direction sends is numbered *)
(* 1, 2, ...; 0 is what the proxy itself writes (its reply to the client;  *)
(* the request, for the origin). In the conversation with an HTTP origin   *)
(* the first thing down is the response's status line and headers.         *)
(*                                                                         *)
(* What the environment decides is nondeterministic: the request, the      *)
(* rules, hooks and URL actions of the configuration, whether a dial or a  *)
(* handshake succeeds, and when a peer sends or closes. Sinks do not fail. *)
(***************************************************************************)
EXTENDS Integers, Sequences

CONSTANTS Conns,     \* connections open at the same time
          Chunks     \* bound: what one peer sends on a connection

ASSUME ConnectionsAssumption == Chunks \in Nat

VARIABLES
  alive,    \* the process: a panic in any handler ends it
  at,       \* where the handler of each connection is
  kind,     \* what the client asked for
  mitm,     \* "no", "try": on the allowlist, "on", or why not: "refused" by the
            \* origin, "failed" with the client; then the connection is a tunnel
  peer,     \* the source of a direction: "open", "half": sends no more, or "closed"
  open,     \* the proxy's own end, towards the source of a direction
  sent,     \* how much the source has sent
  read,     \* how much of it the proxy has read
  got,      \* what came out at the far end
  copier,   \* relay's goroutine for a direction
  held,     \* what it has read and has yet to write
  counted,  \* relay's counters, reqBytes for "up" and respBytes for "down"
  flow      \* the Flow: calls of emitDone, and the counters it was given

handler == <<at, kind, mitm, flow>>
sockets == <<peer, open, sent, read, got>>
copies  == <<copier, held, counted>>
vars    == <<alive, handler, sockets, copies>>

Dirs == {"up", "down"}
Other(d) == IF d = "up" THEN "down" ELSE "up"

Both(x) == [d \in Dirs |-> x]

NoFlow  == [dones |-> -1, bytes |-> Both(0)]
NewFlow == [dones |-> 0, bytes |-> Both(0)]

Kinds == {"plain", "connect", "socks5", "udp", "tproxy"}

Places == {"idle", "reading", "intercept", "hooks", "dial", "send", "head",
           "relay", "udp", "ended"}

TypeOK ==
  /\ alive \in BOOLEAN
  /\ at \in [Conns -> Places]
  /\ kind \in [Conns -> Kinds]
  /\ mitm \in [Conns -> {"no", "try", "on", "refused", "failed"}]
  /\ peer \in [Conns -> [Dirs -> {"open", "half", "closed"}]]
  /\ open \in [Conns -> [Dirs -> BOOLEAN]]
  /\ sent \in [Conns -> [Dirs -> 0 .. Chunks]]
  /\ read \in [Conns -> [Dirs -> 0 .. Chunks]]
  /\ \A c \in Conns, d \in Dirs : read[c][d] <= sent[c][d]
  /\ got \in [Conns -> [Dirs -> Seq(0 .. Chunks)]]
  /\ copier \in [Conns -> [Dirs -> {"off", "reading", "writing", "ended", "closed"}]]
  /\ held \in [Conns -> [Dirs -> 0 .. Chunks]]
  /\ counted \in [Conns -> [Dirs -> Nat]]
  /\ flow \in [Conns -> [dones : {-1} \cup Nat, bytes : [Dirs -> Nat]]]

Init ==
  /\ alive = TRUE
  /\ at = [c \in Conns |-> "idle"]
  /\ kind = [c \in Conns |-> "plain"]
  /\ mitm = [c \in Conns |-> "no"]
  /\ peer = [c \in Conns |-> Both("open")]
  /\ open = [c \in Conns |-> Both(FALSE)]
  /\ sent = [c \in Conns |-> Both(0)]
  /\ read = [c \in Conns |-> Both(0)]
  /\ got = [c \in Conns |-> Both(<<>>)]
  /\ copier = [c \in Conns |-> Both("off")]
  /\ held = [c \in Conns |-> Both(0)]
  /\ counted = [c \in Conns |-> Both(0)]
  /\ flow = [c \in Conns |-> NoFlow]

\* A panic or an exit: connections are cut, and their Flows are not recorded.
ProcessEnds ==
  /\ alive' = FALSE
  /\ at' = [c \in Conns |-> "idle"]
  /\ kind' = [c \in Conns |-> "plain"]
  /\ mitm' = [c \in Conns |-> "no"]
  /\ peer' = [c \in Conns |-> Both("open")]
  /\ open' = [c \in Conns |-> Both(FALSE)]
  /\ sent' = [c \in Conns |-> Both(0)]
  /\ read' = [c \in Conns |-> Both(0)]
  /\ got' = [c \in Conns |-> Both(<<>>)]
  /\ copier' = [c \in Conns |-> Both("off")]
  /\ held' = [c \in Conns |-> Both(0)]
  /\ counted' = [c \in Conns |-> Both(0)]
  /\ flow' = [c \in Conns |-> NoFlow]

-----------------------------------------------------------------------------
(* Steps that handlers share. *)

Goto(c, place) == at' = [at EXCEPT ![c] = place]

\* What the proxy itself writes; a peer that has closed does not get it.
Say(c, d) ==
  got' = IF peer[c][Other(d)] = "closed" THEN got ELSE [got EXCEPT ![c][d] = Append(@, 0)]

\* The handler returns, and its deferred calls close both ends.
Return(c) ==
  /\ Goto(c, "ended")
  /\ open' = [open EXCEPT ![c] = Both(FALSE)]

\* emitDone: the hooks' "done" and the sinks, with the counters as they are.
EmitDone(c) == flow' = [flow EXCEPT ![c].dones = @ + 1, ![c].bytes = counted[c]]

Settled(c) == \A d \in Dirs : copier[c][d] \in {"ended", "closed"}

\* A read finds no more: all is read, or given up by a reset.
NoMore(c, d) == peer[c][d] = "closed" \/ (peer[c][d] = "half" /\ read[c][d] = sent[c][d])

StartRelay(c) ==
  /\ Goto(c, "relay")
  /\ copier' = [copier EXCEPT ![c] = Both("reading")]

-----------------------------------------------------------------------------
(* The handlers, up to the relay. *)

\* A connection arrives. A transparent one has no request to read: its target is
\* where it was going. m says whether the allowlist has the target.
Accept(c, k, m) ==
  /\ alive /\ at[c] \in {"idle", "ended"}
  /\ \A d \in Dirs : copier[c][d] \in {"off", "closed"}
  /\ m = "try" => k \in {"connect", "tproxy"}
  /\ Goto(c, CASE k = "tproxy" /\ m = "try" -> "intercept"
               [] k = "tproxy" /\ m = "no"  -> "dial"
               [] OTHER -> "reading")
  /\ kind' = [kind EXCEPT ![c] = k]
  /\ mitm' = [mitm EXCEPT ![c] = m]
  /\ peer' = [peer EXCEPT ![c] = Both("open")]
  /\ open' = [open EXCEPT ![c] = [up |-> TRUE, down |-> FALSE]]
  /\ sent' = [sent EXCEPT ![c] = Both(0)]
  /\ read' = [read EXCEPT ![c] = Both(0)]
  /\ got' = [got EXCEPT ![c] = Both(<<>>)]
  /\ copier' = [copier EXCEPT ![c] = Both("off")]
  /\ held' = [held EXCEPT ![c] = Both(0)]
  /\ counted' = [counted EXCEPT ![c] = Both(0)]
  /\ flow' = [flow EXCEPT ![c] = NoFlow]
  /\ UNCHANGED alive

\* No request, one that cannot be parsed, an https one, or no route.
TurnAway(c) ==
  /\ alive /\ at[c] = "reading"
  /\ Return(c)
  /\ UNCHANGED <<alive, kind, mitm, flow, peer, sent, read, got, copies>>

\* handleHTTP has a request with an absolute URL. Its buffered reader may have
\* read on behind the headers; the relay reads from the connection, not from it.
ReadRequest(c) ==
  /\ alive /\ at[c] = "reading" /\ kind[c] = "plain"
  /\ \E ahead \in read[c]["up"] .. sent[c]["up"] : read' = [read EXCEPT ![c]["up"] = ahead]
  /\ flow' = [flow EXCEPT ![c] = NewFlow]
  /\ Goto(c, "hooks")
  /\ UNCHANGED <<alive, kind, mitm, peer, open, sent, got, copies>>

\* CONNECT: a host on the allowlist is told that the tunnel stands right away.
ReadConnect(c) ==
  /\ alive /\ at[c] = "reading" /\ kind[c] = "connect"
  /\ IF mitm[c] = "try"
     THEN Goto(c, "intercept") /\ Say(c, "down")
     ELSE Goto(c, "dial") /\ UNCHANGED got
  /\ UNCHANGED <<alive, kind, mitm, flow, peer, open, sent, read, copies>>

\* SOCKS5's greeting, of which three bytes are read, and CONNECT. Behind a greeting that
\* offers more than one method the request is misread as one for no host: it has no route,
\* or fails to be dialled.
ReadSOCKS5(c) ==
  /\ alive /\ at[c] = "reading" /\ kind[c] = "socks5"
  /\ Goto(c, "dial")
  /\ UNCHANGED <<alive, kind, mitm, flow, sockets, copies>>

\* A domain of more than 249 bytes goes beyond the end of cmdBuf: the handler panics.
DomainTooLong(c) ==
  /\ alive /\ at[c] = "reading" /\ kind[c] \in {"socks5", "udp"}
  /\ ProcessEnds

\* SOCKS5's UDP ASSOCIATE: datagrams go by a socket of their own, for as long as
\* the client keeps this connection.
Associate(c) ==
  /\ alive /\ at[c] = "reading" /\ kind[c] = "udp"
  /\ Goto(c, "udp") /\ Say(c, "down")
  /\ UNCHANGED <<alive, kind, mitm, flow, peer, open, sent, read, copies>>

\* The read of connClosed comes back: the client has closed, or sent a byte.
Dissociate(c) ==
  /\ alive /\ at[c] = "udp"
  /\ peer[c]["up"] # "open" \/ sent[c]["up"] > 0
  /\ Return(c)
  /\ UNCHANGED <<alive, kind, mitm, flow, peer, sent, read, got, copies>>

OriginRefusesLate(c) ==
  /\ alive /\ at[c] = "intercept"
  /\ mitm' = [mitm EXCEPT ![c] = "refused"]
  /\ \E lost \in read[c]["up"] .. sent[c]["up"] : read' = [read EXCEPT ![c]["up"] = lost]
  /\ Goto(c, "dial")
  /\ UNCHANGED <<alive, kind, flow, peer, open, sent, got, copies>>

\* InterceptConnect could not reach the origin, or not by TLS. Nothing has been
\* read from the client yet.
OriginRefuses(c) ==
  /\ alive /\ at[c] = "intercept"
  /\ mitm' = [mitm EXCEPT ![c] = "refused"]
  /\ Goto(c, "dial")
  /\ UNCHANGED <<alive, kind, flow, sockets, copies>>

\* ... or it failed with the client, after reading from it and answering.
HandshakeFails(c) ==
  /\ alive /\ at[c] = "intercept"
  /\ mitm' = [mitm EXCEPT ![c] = "failed"]
  /\ \E lost \in read[c]["up"] .. sent[c]["up"] : read' = [read EXCEPT ![c]["up"] = lost]
  /\ Goto(c, "dial") /\ Say(c, "down")
  /\ UNCHANGED <<alive, kind, flow, peer, open, sent, copies>>

\* A URL action answers the request: InterceptConnect returns no connections and
\* no error. handleHTTP returns; handleTProxy closes the nil origin and panics.
InterceptAnswers(c) ==
  /\ alive /\ at[c] = "intercept"
  /\ \/ /\ kind[c] = "connect"
        /\ Say(c, "down") /\ Return(c)
        /\ UNCHANGED <<alive, kind, mitm, flow, peer, sent, read, copies>>
     \/ kind[c] = "tproxy" /\ ProcessEnds

\* Both sides speak TLS and the first request is known: to the hooks first or,
\* on a transparent connection, which has no Flow, straight to the origin.
Intercepts(c) ==
  /\ alive /\ at[c] = "intercept"
  /\ mitm' = [mitm EXCEPT ![c] = "on"]
  /\ open' = [open EXCEPT ![c]["down"] = TRUE]
  /\ IF kind[c] = "connect"
     THEN /\ flow' = [flow EXCEPT ![c] = NewFlow]
          /\ Goto(c, "hooks")
          /\ UNCHANGED <<got, copier>>
     ELSE Say(c, "up") /\ StartRelay(c) /\ UNCHANGED flow
  /\ UNCHANGED <<alive, kind, peer, sent, read, held, counted>>

\* A "request" hook refuses; the client is not told.
HooksReject(c) ==
  /\ alive /\ at[c] = "hooks"
  /\ EmitDone(c) /\ Return(c)
  /\ UNCHANGED <<alive, kind, mitm, peer, sent, read, got, copies>>

HooksAccept(c) ==
  /\ alive /\ at[c] = "hooks"
  /\ Goto(c, IF kind[c] = "plain" THEN "dial" ELSE "send")
  /\ UNCHANGED <<alive, kind, mitm, flow, sockets, copies>>

\* Mutants, here and above, are slips the runs must notice; no action uses them.
URLAnswersUnrecorded(c) ==
  /\ alive /\ at[c] = "dial" /\ kind[c] = "plain"
  /\ Say(c, "down") /\ Return(c)
  /\ UNCHANGED <<alive, kind, mitm, flow, peer, sent, read, copies>>

\* A URL action answers a plain request.
URLAnswers(c) ==
  /\ alive /\ at[c] = "dial" /\ kind[c] = "plain"
  /\ Say(c, "down")
  /\ EmitDone(c) /\ Return(c)
  /\ UNCHANGED <<alive, kind, mitm, peer, sent, read, copies>>

DialFails(c) ==
  /\ alive /\ at[c] = "dial"
  /\ IF kind[c] = "plain" THEN EmitDone(c) ELSE UNCHANGED flow
  /\ Return(c)
  /\ UNCHANGED <<alive, kind, mitm, peer, sent, read, got, copies>>

\* The origin is there: it gets the request, or the client its reply (of a
\* transparent connection neither), and the copying begins.
Dial(c) ==
  /\ alive /\ at[c] = "dial"
  /\ open' = [open EXCEPT ![c]["down"] = TRUE]
  /\ CASE kind[c] = "plain" -> Say(c, "up")
       [] kind[c] \in {"connect", "socks5"} -> Say(c, "down")
       [] OTHER -> UNCHANGED got
  /\ StartRelay(c)
  /\ UNCHANGED <<alive, kind, mitm, flow, peer, sent, read, held, counted>>

\* The intercepted request, to the origin.
SendFails(c) ==
  /\ alive /\ at[c] = "send"
  /\ EmitDone(c) /\ Return(c)
  /\ UNCHANGED <<alive, kind, mitm, peer, sent, read, got, copies>>

SendRequest(c) ==
  /\ alive /\ at[c] = "send"
  /\ Goto(c, "head") /\ Say(c, "up")
  /\ UNCHANGED <<alive, kind, mitm, flow, peer, open, sent, read, copies>>

\* handleHTTP takes the status line and the headers for the Flow, before it
\* relays anything; it waits for them, or for the origin to close.
ReadHead(c) ==
  /\ alive /\ at[c] = "head"
  /\ \/ /\ read[c]["down"] < sent[c]["down"]
        /\ read' = [read EXCEPT ![c]["down"] = @ + 1]
     \/ NoMore(c, "down") /\ UNCHANGED read
  /\ StartRelay(c)
  /\ UNCHANGED <<alive, kind, mitm, flow, peer, open, sent, got, held, counted>>

-----------------------------------------------------------------------------
(* relay: two copiers, and the handler that waits for both. *)

Ends(c, d) == copier' = [copier EXCEPT ![c][d] = "ended"]

\* io.Copy reads: what has come, or else the end. A connection that was closed,
\* here or there, need not give what has come, and one under TLS may yet.
CopyRead(c, d) ==
  /\ alive /\ copier[c][d] = "reading"
  /\ \/ /\ read[c][d] < sent[c][d]
        /\ open[c][d] \/ mitm[c] = "on"
        /\ copier' = [copier EXCEPT ![c][d] = "writing"]
        /\ read' = [read EXCEPT ![c][d] = @ + 1]
        /\ held' = [held EXCEPT ![c][d] = read[c][d] + 1]
        /\ counted' = [counted EXCEPT ![c][d] = @ + 1]
     \/ /\ ~open[c][d] \/ NoMore(c, d)
        /\ Ends(c, d)
        /\ UNCHANGED <<read, held, counted>>
  /\ UNCHANGED <<alive, handler, peer, open, sent, got>>

\* ... and writes. A peer that has closed resets the connection, but not before
\* what is written then is lost.
CopyWrite(c, d) ==
  /\ alive /\ copier[c][d] = "writing"
  /\ \/ /\ open[c][Other(d)]
        /\ copier' = [copier EXCEPT ![c][d] = "reading"]
        /\ got' = IF peer[c][Other(d)] = "closed" THEN got
                  ELSE [got EXCEPT ![c][d] = Append(@, held[c][d])]
        /\ counted' = [counted EXCEPT ![c][d] = @ + 1]
     \/ /\ peer[c][Other(d)] = "closed" \/ ~open[c][Other(d)]
        /\ Ends(c, d)
        /\ UNCHANGED <<got, counted>>
  /\ UNCHANGED <<alive, handler, peer, open, sent, read, held>>

CopyCloseOwn(c, d) ==
  /\ alive /\ copier[c][d] = "ended"
  /\ copier' = [copier EXCEPT ![c][d] = "closed"]
  /\ open' = [open EXCEPT ![c][d] = FALSE]
  /\ UNCHANGED <<alive, handler, peer, sent, read, got, held, counted>>

\* Once its copy has ended a copier closes the far end.
CopyClose(c, d) ==
  /\ alive /\ copier[c][d] = "ended"
  /\ copier' = [copier EXCEPT ![c][d] = "closed"]
  /\ open' = [open EXCEPT ![c][Other(d)] = FALSE]
  /\ UNCHANGED <<alive, handler, peer, sent, read, got, held, counted>>

RelayReturnsEarly(c) ==
  /\ alive /\ at[c] = "relay" /\ \E d \in Dirs : copier[c][d] \in {"ended", "closed"}
  /\ Return(c)
  /\ IF flow[c] = NoFlow THEN UNCHANGED flow ELSE EmitDone(c)
  /\ UNCHANGED <<alive, kind, mitm, peer, sent, read, got, copies>>

\* Both copies have ended: the Flow is recorded and the handler closes what it
\* closes; the origin's end of a CONNECT tunnel is left to the copier.
RelayReturns(c) ==
  /\ alive /\ at[c] = "relay" /\ Settled(c)
  /\ IF flow[c] = NoFlow THEN UNCHANGED flow ELSE EmitDone(c)
  /\ IF kind[c] = "connect" /\ mitm[c] # "on"
     THEN Goto(c, "ended") /\ open' = [open EXCEPT ![c]["up"] = FALSE]
     ELSE Return(c)
  /\ UNCHANGED <<alive, kind, mitm, peer, sent, read, got, copies>>

-----------------------------------------------------------------------------
(* The peers: clients wait for the reply to CONNECT or SOCKS5, HTTP origins  *)
(* for the request.                                                          *)

MaySend(c, d) ==
  IF d = "up" THEN kind[c] \in {"plain", "tproxy"} \/ got[c]["down"] # <<>>
              ELSE kind[c] = "plain" \/ mitm[c] = "on" => got[c]["up"] # <<>>

PeerSends(c, d) ==
  /\ open[c][d] /\ peer[c][d] = "open" /\ sent[c][d] < Chunks /\ MaySend(c, d)
  /\ sent' = [sent EXCEPT ![c][d] = @ + 1]
  /\ UNCHANGED <<alive, handler, peer, open, read, got, copies>>

PeerCloses(c, d) ==
  /\ open[c][d] /\ peer[c][d] # "closed"
  /\ peer' = [peer EXCEPT ![c][d] = IF @ = "open" THEN "half" ELSE "closed"]
  /\ UNCHANGED <<alive, handler, open, sent, read, got, copies>>

-----------------------------------------------------------------------------
Arrive(c) == \E k \in Kinds, m \in {"no", "try"} : Accept(c, k, m)

Handle(c) ==
  \/ TurnAway(c) \/ ReadRequest(c) \/ ReadConnect(c) \/ ReadSOCKS5(c)
  \/ DomainTooLong(c) \/ Associate(c) \/ Dissociate(c)
  \/ OriginRefuses(c) \/ HandshakeFails(c) \/ InterceptAnswers(c) \/ Intercepts(c)
  \/ HooksReject(c) \/ HooksAccept(c) \/ URLAnswers(c)
  \/ DialFails(c) \/ Dial(c) \/ SendFails(c) \/ SendRequest(c) \/ ReadHead(c)
  \/ RelayReturns(c)

Copy(c, d) == CopyRead(c, d) \/ CopyWrite(c, d) \/ CopyClose(c, d)

Peer(c, d) == PeerSends(c, d) \/ PeerCloses(c, d)

Next ==
  \E c \in Conns :
    \/ Arrive(c)
    \/ Handle(c)
    \/ \E d \in Dirs : Copy(c, d) \/ Peer(c, d)

Spec == Init /\ [][Next]_vars

\* Goroutines run, and peers that are sent something read it or close. When, or
\* whether, a client sends or closes is its own affair.
Fairness ==
  \A c \in Conns :
    /\ WF_vars(RelayReturns(c)) /\ WF_vars(Dissociate(c))
    /\ \A d \in Dirs : WF_vars(Copy(c, d))

FairSpec == Spec /\ Fairness

-----------------------------------------------------------------------------
(* Properties. *)

\* A Flow reaches emitDone once, whatever becomes of its request, and before
\* the handler that made it returns.
FlowOnce ==
  \A c \in Conns :
    /\ flow[c].dones <= 1
    /\ at[c] = "ended" => flow[c].dones # 0

\* The byte counters of a recorded Flow are final: no copier still moves data of
\* the connection when they are read, nor later.
RecordSettled ==
  \A c \in Conns : flow[c].dones = 1 => flow[c].bytes = counted[c]

\* Whoever is relayed blindly is relayed exactly. An origin gets a beginning of
\* what the client sent, a client the proxy's one reply and then a beginning of
\* what the origin sent, in the order of sending, without a gap: in the tunnels
\* that were never up for interception, and in transparent ones whose origin
\* refused it.
Blind(c) ==
  \/ kind[c] \in {"connect", "socks5", "tproxy"} /\ mitm[c] = "no"
  \/ kind[c] = "tproxy" /\ mitm[c] = "refused"

Counting(n) == [i \in 1 .. n |-> i]

TunnelExact ==
  \A c \in Conns, d \in Dirs :
    Blind(c) =>
      \/ got[c][d] = <<>>
      \/ \E n \in 0 .. sent[c][d] :
           got[c][d] = IF d = "down" /\ kind[c] # "tproxy" THEN <<0>> \o Counting(n) ELSE Counting(n)

\* When either side of a relayed connection goes away, so does the connection:
\* its handler returns and no socket of it is left.
RelayEnds ==
  \A c \in Conns :
    at[c] = "relay" /\ (\E d \in Dirs : peer[c][d] # "open") ~> ~alive \/ open[c] = Both(FALSE)
=============================================================================
