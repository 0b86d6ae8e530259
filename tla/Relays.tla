------------------------------- MODULE Relays -------------------------------
(***************************************************************************)
(* The forwarders of connections: socat with TCP (cmd/socat.go), forward   *)
(* local, remote, dynamic and tls (forward/forward.go, cmd/forward.go),    *)
(* frp's server and client (proxy/frp.go, cmd/frp.go).                     *)
(*                                                                         *)
(* One process runs one of them.  A connection has a near side, which was  *)
(* accepted, and a far side, which is dialled; two goroutines copy, each   *)
(* named for the side it reads.  A side ends its stream ("half") or goes   *)
(* away ("gone").  Bytes are chunks, counted.                              *)
(***************************************************************************)
EXTENDS Integers, Sequences, FiniteSets

CONSTANTS
  Calls,      \* connections
  MaxChunks   \* bound: chunks each side sends

Modes == {"socat", "local", "remote", "dynamic", "tls", "frps", "frpc"}

Sides == {"near", "far"}

Other(s) == IF s = "near" THEN "far" ELSE "near"

\* what the near side says, and far in the case of frpc: "" is nothing to be said
Words == {"", "good", "refused", "malformed"}

VARIABLES
  mode,    \* which forwarder, "off" when this process is something else
  phase,   \* "on", "cancelled", "closed" (the listener) or "ended" (the process)
  call     \* connections

relayVars == << mode, phase, call >>

NoCall ==
  [pc |-> "none", word |-> "", said |-> 0, heard |-> << >>, first |-> "none",
   peer |-> [s \in Sides |-> "open"], sent |-> [s \in Sides |-> 0],
   got |-> [s \in Sides |-> 0], open |-> [s \in Sides |-> FALSE],
   copier |-> [s \in Sides |-> "none"]]

RelaysOff == mode = "off" /\ phase = "on" /\ call = [c \in Calls |-> NoCall]

RelaysInit == mode \in Modes /\ phase = "on" /\ call = [c \in Calls |-> NoCall]

Running == mode # "off" /\ phase # "ended"

\* forward's, whose loops end with the listener
Forwards == {"local", "remote", "dynamic", "tls"}

\* frp's context is nobody's to cancel
Interruptible == mode \notin {"frps", "frpc"}

Becomes(c, rec) == call' = [call EXCEPT ![c] = rec] /\ UNCHANGED << mode, phase >>

Hears(rec, answer) == [rec EXCEPT !.heard = Append(@, answer)]

\* the deferred closes
Done(rec) == [rec EXCEPT !.pc = "done", !.open = [s \in Sides |-> FALSE]]

-----------------------------------------------------------------------------
(* The listener *)

\* where the near side has words to say before anything is dialled
Talks == mode \in {"dynamic", "tls", "frps"}

Accept(c) ==
  /\ Running /\ phase \in {"on", "cancelled"} /\ call[c].pc = "none"
  /\ \E word \in IF Talks THEN Words \ {""} ELSE {""} :
       Becomes(c, [NoCall EXCEPT !.pc = IF Talks THEN "hello" ELSE "dial",
                                 !.word = word, !.open["near"] = TRUE])

\* the interrupt
Cancel ==
  /\ Running /\ phase = "on" /\ Interruptible
  /\ phase' = "cancelled" /\ UNCHANGED << mode, call >>

ListenerCloses ==
  /\ Running /\ phase = "cancelled"
  /\ phase' = "closed" /\ UNCHANGED << mode, call >>

\* Accept's error under a cancelled context: socat closes what is in flight,
\* and every connection ends with the process
AcceptEnds ==
  /\ Running /\ phase = "closed"
  /\ phase' = "ended"
  /\ call' = [c \in Calls |-> [call[c] EXCEPT !.open = [s \in Sides |-> FALSE]]]
  /\ UNCHANGED mode

\* any other error ends a forwarder; socat and frp accept again
AcceptFails ==
  /\ Running /\ phase = "on" /\ mode \in Forwards
  /\ phase' = "ended"
  /\ call' = [c \in Calls |-> [call[c] EXCEPT !.open = [s \in Sides |-> FALSE]]]
  /\ UNCHANGED mode

-----------------------------------------------------------------------------
(* Before the relay *)

Handling(c, pc) == Running /\ call[c].pc = pc

\* nothing more comes, and what there is does not do; no read has a deadline
CutShort(c, needs) == call[c].said < needs /\ call[c].peer["near"] # "open"

Quit(c) ==
  /\ Handling(c, "hello")
  /\ CutShort(c, 1)
  /\ Becomes(c, Done(IF mode = "frps" THEN Hears(call[c], "refused") ELSE call[c]))

\* handleSOCKS5Connect: no answer to a wrong version
Greeting(c) ==
  /\ Handling(c, "hello") /\ mode = "dynamic" /\ call[c].said >= 1
  /\ Becomes(c, IF call[c].word = "malformed" THEN Done(call[c])
                ELSE [Hears(call[c], "method") EXCEPT !.pc = "request"])

\* the command and the address; an address that breaks off is answered
Request(c) ==
  /\ Handling(c, "request")
  /\ IF call[c].said >= 2 THEN
       Becomes(c, IF call[c].word = "refused" THEN Done(Hears(call[c], "refused"))
                  ELSE [call[c] EXCEPT !.pc = "dial"])
     ELSE /\ CutShort(c, 2)
       /\ \E rec \in {call[c], Hears(call[c], "refused")} : Becomes(c, Done(rec))

\* readFRPHeader, and the secret
Header(c) ==
  /\ Handling(c, "hello") /\ mode = "frps" /\ call[c].said >= 1
  /\ Becomes(c, IF call[c].word = "good" THEN [call[c] EXCEPT !.pc = "dial"]
                ELSE Done(Hears(call[c], "refused")))

\* the server's configuration has no certificate: no handshake succeeds
Handshake(c) ==
  /\ Handling(c, "hello") /\ mode = "tls" /\ call[c].said >= 1
  /\ Becomes(c, Done(Hears(call[c], "alert")))

Copying(rec) == [rec EXCEPT !.pc = "relay", !.copier = [s \in Sides |-> "read"]]

Dial(c) ==
  /\ Handling(c, "dial")
  /\ \/ \* the dialer has the context, but for frp's
        /\ Becomes(c, Done(IF mode \in {"dynamic", "frps"} THEN Hears(call[c], "refused")
                           ELSE call[c]))
     \/ /\ ~Interruptible \/ phase = "on"
        /\ LET rec == [call[c] EXCEPT !.open["far"] = TRUE]
           IN Becomes(c, IF mode = "frpc" THEN [rec EXCEPT !.pc = "status"]
                         ELSE IF mode \in {"dynamic", "frps"} THEN Copying(Hears(rec, "ok"))
                         ELSE Copying(rec))

\* frpc waits for the server's byte, however long
Status(c) ==
  /\ Handling(c, "status")
  /\ \/ call[c].peer["far"] = "open" /\ Becomes(c, Copying(call[c]))
     \/ Becomes(c, Done(call[c]))

-----------------------------------------------------------------------------
(* The relay: io.Copy, or socatPump *)

\* a goroutine may outlive the handler that started it
Copies(c, s, at) == Running /\ call[c].pc \in {"relay", "done"} /\ call[c].copier[s] = at

Ends(c, s) == [call[c] EXCEPT !.copier[s] = "ended", !.first = IF @ = "none" THEN s ELSE @]

ReadChunk(c, s) ==
  /\ Copies(c, s, "read") /\ call[c].open[s]
  /\ call[c].got[s] < call[c].sent[s]
  /\ Becomes(c, [call[c] EXCEPT !.copier[s] = "write"])

\* the end of the stream, a reset, our own close, or socat's look at its context, between
\* two reads
ReadEnds(c, s) ==
  /\ Copies(c, s, "read")
  /\ \/ ~call[c].open[s]
     \/ call[c].peer[s] = "gone"
     \/ call[c].peer[s] = "half" /\ call[c].got[s] = call[c].sent[s]
     \/ mode = "socat" /\ phase # "on"
  /\ Becomes(c, Ends(c, s))

WriteChunk(c, s) ==
  /\ Copies(c, s, "write")
  /\ LET t == Other(s)
     IN \/ /\ call[c].open[t]
           /\ Becomes(c, [call[c] EXCEPT !.got[s] = @ + 1, !.copier[s] = "read"])
        \/ /\ ~call[c].open[t] \/ call[c].peer[t] = "gone" \/ (mode = "socat" /\ phase # "on")
           /\ Becomes(c, Ends(c, s))

\* A fault the properties are to notice: the other side is not told
TellsNobody(c, s) ==
  /\ Copies(c, s, "ended") /\ mode \in Forwards
  /\ Becomes(c, [call[c] EXCEPT !.copier[s] = "told"])

\* relay closes what it wrote to; socat's pump and relayBidir leave it
Tells(c, s) ==
  /\ Copies(c, s, "ended") /\ mode \in Forwards
  /\ Becomes(c, [call[c] EXCEPT !.copier[s] = "told", !.open[Other(s)] = FALSE])

Over(rec, s) == rec.copier[s] \in {"ended", "told"}

\* A fault the properties are to notice: socat's first direction ends both
ReturnsFirst(c) ==
  /\ Handling(c, "relay")
  /\ \E s \in Sides : Over(call[c], s)
  /\ Becomes(c, Done(call[c]))

\* relayBidir waits for one direction, the others for both; frps does not close
\* what it dialled
Returns(c) ==
  /\ Handling(c, "relay")
  /\ IF ~Interruptible THEN \E s \in Sides : Over(call[c], s)
     ELSE \A s \in Sides : Over(call[c], s)
  /\ Becomes(c, IF mode = "frps" THEN [call[c] EXCEPT !.pc = "done", !.open["near"] = FALSE]
                ELSE Done(call[c]))

-----------------------------------------------------------------------------
(* The two ends *)

Says(c) ==
  /\ Running /\ call[c].pc \in {"hello", "request"}
  /\ call[c].peer["near"] = "open"
  /\ call[c].said < (IF mode = "dynamic" THEN 2 ELSE 1)
  /\ Becomes(c, [call[c] EXCEPT !.said = @ + 1])

Sends(c, s) ==
  /\ Running /\ call[c].pc = "relay" /\ call[c].peer[s] = "open"
  /\ call[c].sent[s] < MaxChunks
  /\ Becomes(c, [call[c] EXCEPT !.sent[s] = @ + 1])

Leaves(c, s) ==
  /\ Running /\ call[c].pc # "none" /\ call[c].open[s]
  /\ \/ call[c].peer[s] = "open" /\ Becomes(c, [call[c] EXCEPT !.peer[s] = "half"])
     \/ call[c].peer[s] # "gone" /\ Becomes(c, [call[c] EXCEPT !.peer[s] = "gone"])

-----------------------------------------------------------------------------
Handles(c) ==
  \/ Quit(c) \/ Greeting(c) \/ Request(c) \/ Header(c) \/ Handshake(c)
  \/ Dial(c) \/ Status(c) \/ Returns(c)

CopiesOn(c, s) == ReadChunk(c, s) \/ ReadEnds(c, s) \/ WriteChunk(c, s) \/ Tells(c, s)

RelaysNext ==
  \/ Cancel \/ ListenerCloses \/ AcceptEnds \/ AcceptFails
  \/ \E c \in Calls :
       \/ Accept(c) \/ Handles(c) \/ Says(c)
       \/ \E s \in Sides : CopiesOn(c, s) \/ Sends(c, s) \/ Leaves(c, s)

RelaysFair ==
  /\ \A c \in Calls : WF_relayVars(Returns(c))
  /\ \A c \in Calls : \A s \in Sides : WF_relayVars(CopiesOn(c, s))

-----------------------------------------------------------------------------
(* Properties *)

(***************************************************************************)
(* The direction that ends first has carried all that its side sent before *)
(* it ended its stream, and socat's other direction too: it waits for both *)
(* (socat.go:264), where relay closes the stream that goes the other way   *)
(* (forward.go:298).  A side that went away may have cut either.           *)
(***************************************************************************)
StreamWhole ==
  \A c \in Calls : \A s \in Sides :
    /\ Over(call[c], s) \/ (call[c].pc = "done" /\ call[c].first # "none")
    /\ call[c].first = s \/ mode = "socat"
    /\ call[c].peer[s] = "half" /\ call[c].peer[Other(s)] # "gone"
    /\ phase = "on"
    => call[c].got[s] = call[c].sent[s]

(***************************************************************************)
(* When a side ends its stream the relay ends, and the other side is told, *)
(* but by socat, which tells the far side nothing and goes on until both   *)
(* have ended (socat.go:277).                                              *)
(***************************************************************************)
Left(rec) ==
  /\ rec.pc = "relay"
  /\ IF mode = "socat" THEN \A s \in Sides : rec.peer[s] # "open"
     ELSE \E s \in Sides : rec.peer[s] # "open"

HangUpPassed ==
  \A c \in Calls : Left(call[c]) ~> (call[c].pc = "done" \/ phase = "ended")
=============================================================================
