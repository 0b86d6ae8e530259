------------------------- MODULE Forwarders_proofs -------------------------
(***************************************************************************)
(* The forwarders keep what they promise, for any number of connections,   *)
(* clients, datagrams and queries: the direction of a connection that ends *)
(* first has carried everything, an answer goes to the client it is for,   *)
(* and a cached address is no older than it may be.                        *)
(*                                                                         *)
(* Each forwarder has an invariant of its own; one process runs one of     *)
(* them and leaves the state of the others alone.                          *)
(***************************************************************************)
EXTENDS Forwarders, SequenceTheorems, TLAPS

-----------------------------------------------------------------------------
(* The relays of connections *)

CallFields == {"pc", "word", "said", "heard", "first", "peer", "sent", "got", "open", "copier"}

CallPlaces == {"none", "hello", "request", "dial", "status", "relay", "done"}

CallTyped(rec) ==
  /\ DOMAIN rec = CallFields
  /\ rec.pc \in CallPlaces
  /\ rec.first \in Sides \cup {"none"}
  /\ DOMAIN rec.peer = Sides /\ DOMAIN rec.open = Sides /\ DOMAIN rec.copier = Sides
  /\ DOMAIN rec.sent = Sides /\ DOMAIN rec.got = Sides
  /\ \A s \in Sides :
       /\ rec.peer[s] \in {"open", "half", "gone"}
       /\ rec.copier[s] \in {"none", "read", "write", "ended", "told"}
       /\ rec.sent[s] \in Nat /\ rec.got[s] \in Nat

\* Copiers run from the start of the relay, the first that is over is noted, and
\* socat's handler returns when both are.
CopiersOK(rec) ==
  /\ \A s \in Sides : rec.copier[s] # "none" => rec.pc \in {"relay", "done"}
  /\ rec.pc = "relay" => \A s \in Sides : rec.copier[s] # "none"
  /\ rec.first = "none" => \A s \in Sides : ~Over(rec, s)
  /\ rec.first # "none" => Over(rec, rec.first)
  /\ rec.pc = "done" /\ rec.first = "none" => \A s \in Sides : rec.copier[s] = "none"
  /\ rec.pc = "done" /\ rec.first # "none" /\ mode = "socat" => \A s \in Sides : Over(rec, s)

\* Nobody has closed anything while a direction whose bytes count is copied.
OpenOK(rec) ==
  phase = "on" =>
    /\ rec.pc \in {"hello", "request", "dial", "status"} => rec.open["near"]
    /\ rec.pc = "status" => rec.open["far"]
    /\ rec.pc = "relay" /\ (rec.first = "none" \/ mode = "socat") => rec.open["near"] /\ rec.open["far"]

\* Why a direction ended.
EndsOK(rec) ==
  phase = "on" =>
    \A s \in Sides :
      Over(rec, s) /\ (rec.first = s \/ mode = "socat") =>
        \/ rec.peer[s] = "gone" \/ rec.peer[Other(s)] = "gone"
        \/ rec.peer[s] = "half" /\ rec.got[s] = rec.sent[s]

CallOK(rec) == CallTyped(rec) /\ CopiersOK(rec) /\ OpenOK(rec) /\ EndsOK(rec)

RelaysInv ==
  /\ mode \in Modes \cup {"off"}
  /\ phase \in {"on", "cancelled", "closed", "ended"}
  /\ DOMAIN call = Calls
  /\ \A c \in Calls : CallOK(call[c])

\* A stream whose end was passed on has arrived whole.
LEMMA RelaysInvImplies == RelaysInv => StreamWhole
BY DEF RelaysInv, CallOK, CallTyped, CopiersOK, EndsOK, StreamWhole, Sides

\* A connection that has not come is in order.
LEMMA NoCallOK == CallOK(NoCall)
<1>1. CallTyped(NoCall)
  BY DEF NoCall, CallTyped, CallFields, CallPlaces, Sides
<1>2. CopiersOK(NoCall) /\ OpenOK(NoCall) /\ EndsOK(NoCall)
  BY DEF NoCall, CopiersOK, OpenOK, EndsOK, Over, Sides
<1> QED
  BY <1>1, <1>2 DEF CallOK

\* A relay starts in order.
LEMMA RelaysStartInv ==
  ASSUME mode \in Modes \cup {"off"}, phase = "on", call = [c \in Calls |-> NoCall]
  PROVE  RelaysInv
BY NoCallOK DEF RelaysInv

\* One connection moves, into order; the others stay.
LEMMA CallMoves ==
  ASSUME RelaysInv, NEW c \in Calls, NEW rec, Becomes(c, rec), CallOK(rec)
  PROVE  RelaysInv'
<1>1. /\ DOMAIN call' = Calls /\ UNCHANGED << mode, phase >> /\ call'[c] = rec
      /\ \A d \in Calls : d # c => call'[d] = call[d]
  BY DEF Becomes, RelaysInv
<1>2. ASSUME NEW d \in Calls PROVE CallOK(call[d])'
  <2>1. CallOK(call'[d])
    BY <1>1 DEF RelaysInv
  <2> QED
    BY <1>1, <2>1 DEF CallOK, CallTyped, CopiersOK, OpenOK, EndsOK
<1> QED
  BY <1>1, <1>2 DEF RelaysInv

\* A call that has ended before it had a relay, and one that goes on to it.
LEMMA DoneOK ==
  ASSUME NEW rec, CallOK(rec), rec.pc \in {"hello", "request", "dial", "status"}
  PROVE  /\ CallOK(Done(rec))
         /\ \A answer : CallOK(Done(Hears(rec, answer)))
<1>1. \A s \in Sides : rec.copier[s] = "none"
  BY DEF CallOK, CallTyped, CopiersOK
<1>2. rec.first = "none"
  BY <1>1 DEF CallOK, CallTyped, CopiersOK, Over
<1>3. ASSUME NEW r, r = rec \/ \E answer : r = Hears(rec, answer)
      PROVE  CallOK(Done(r))
  <2>1. DOMAIN r = CallFields /\ \A f \in CallFields \ {"heard"} : r[f] = rec[f]
    BY <1>3 DEF Hears, CallOK, CallTyped, CallFields
  <2>2. r.first = rec.first /\ r.peer = rec.peer /\ r.sent = rec.sent /\ r.got = rec.got
        /\ r.copier = rec.copier
    BY <2>1 DEF CallFields
  <2>3. CallTyped(Done(r))
    BY <2>1, <2>2 DEF Done, CallOK, CallTyped, CallFields, CallPlaces
  <2>4. CopiersOK(Done(r)) /\ OpenOK(Done(r)) /\ EndsOK(Done(r))
    BY <1>1, <1>2, <2>1, <2>2 DEF Done, CopiersOK, OpenOK, EndsOK, Over, CallFields
  <2> QED
    BY <2>3, <2>4 DEF CallOK
<1> QED
  BY <1>3

\* A handler that starts its two copies has both sides open.
LEMMA CopyingOK ==
  ASSUME NEW rec, CallOK(rec), rec.pc \in {"dial", "status"},
         phase = "on" => rec.open["near"] /\ rec.open["far"]
  PROVE  /\ CallOK(Copying(rec))
         /\ \A answer : CallOK(Copying(Hears(rec, answer)))
<1>1. \A s \in Sides : rec.copier[s] = "none"
  BY DEF CallOK, CallTyped, CopiersOK
<1>2. rec.first = "none"
  BY <1>1 DEF CallOK, CallTyped, CopiersOK, Over
<1>3. ASSUME NEW r, r = rec \/ \E answer : r = Hears(rec, answer)
      PROVE  CallOK(Copying(r))
  <2>1. DOMAIN r = CallFields /\ \A f \in CallFields \ {"heard"} : r[f] = rec[f]
    BY <1>3 DEF Hears, CallOK, CallTyped, CallFields
  <2>2. r.first = rec.first /\ r.peer = rec.peer /\ r.sent = rec.sent /\ r.got = rec.got
        /\ r.open = rec.open
    BY <2>1 DEF CallFields
  <2>3. CallTyped(Copying(r))
    BY <2>1, <2>2 DEF Copying, CallOK, CallTyped, CallFields, CallPlaces
  <2>4. CopiersOK(Copying(r)) /\ OpenOK(Copying(r)) /\ EndsOK(Copying(r))
    BY <1>2, <2>1, <2>2 DEF Copying, CopiersOK, OpenOK, EndsOK, Over, CallFields
  <2> QED
    BY <2>3, <2>4 DEF CallOK
<1> QED
  BY <1>3

\* What leaves the relay, its directions and its two ends alone leaves the call right.
Early == {"hello", "request", "dial", "status"}

\* A handler that goes on before its relay copies nothing yet.
LEMMA GoesOnOK ==
  ASSUME NEW rec, CallOK(rec), rec.pc \in Early, NEW pc \in Early, NEW r,
         DOMAIN r = CallFields, r.pc = pc, r.first = rec.first, r.copier = rec.copier,
         r.peer = rec.peer, r.sent = rec.sent, r.got = rec.got,
         DOMAIN r.open = Sides, phase = "on" => r.open["near"] /\ (pc = "status" => r.open["far"])
  PROVE  CallOK(r)
<1>1. CallTyped(r)
  BY DEF Early, CallOK, CallTyped, CallPlaces
<1>2. CopiersOK(r) /\ OpenOK(r) /\ EndsOK(r)
  BY DEF Early, CallOK, CallTyped, CopiersOK, OpenOK, EndsOK, Over
<1> QED
  BY <1>1, <1>2 DEF CallOK

\* Accepting, reading what precedes the dial, dialling, and ending keep connections in
\* order.
LEMMA HandlesInv ==
  ASSUME RelaysInv, NEW c \in Calls, Handles(c) \/ Says(c) \/ Accept(c)
  PROVE  RelaysInv'
<1> USE DEF Handling
<1>0. CallOK(call[c])
  BY DEF RelaysInv
<1>t. /\ DOMAIN call[c] = CallFields
      /\ DOMAIN call[c].open = Sides
      /\ phase = "on" /\ call[c].pc \in Early => call[c].open["near"]
      /\ phase = "on" /\ call[c].pc = "status" => call[c].open["far"]
  BY <1>0 DEF CallOK, CallTyped, OpenOK, Early
<1>1. CASE Quit(c) \/ Header(c) \/ Handshake(c) \/ Greeting(c)
  <2>1. call[c].pc = "hello"
    BY <1>1 DEF Quit, Header, Handshake, Greeting
  <2>2. CASE \/ Becomes(c, Done(call[c]))
             \/ \E answer : Becomes(c, Done(Hears(call[c], answer)))
    BY <1>0, <2>1, <2>2, DoneOK, CallMoves
  <2>3. CASE Header(c) /\ Becomes(c, [call[c] EXCEPT !.pc = "dial"])
    <3>1. CallOK([call[c] EXCEPT !.pc = "dial"])
      BY <1>0, <1>t, <2>1, GoesOnOK DEF Early, CallFields
    <3> QED
      BY <2>3, <3>1, CallMoves
  <2>4. CASE Greeting(c) /\ Becomes(c, [Hears(call[c], "method") EXCEPT !.pc = "request"])
    <3>1. CallOK([Hears(call[c], "method") EXCEPT !.pc = "request"])
      BY <1>0, <1>t, <2>1, GoesOnOK DEF Early, CallFields, Hears
    <3> QED
      BY <2>4, <3>1, CallMoves
  <2> QED
    BY <1>1, <2>2, <2>3, <2>4 DEF Quit, Header, Handshake, Greeting
<1>2. CASE Request(c)
  <2>1. call[c].pc = "request"
    BY <1>2 DEF Request
  <2>2. CASE \/ Becomes(c, Done(call[c]))
             \/ Becomes(c, Done(Hears(call[c], "refused")))
    BY <1>0, <2>1, <2>2, DoneOK, CallMoves
  <2>3. CASE Becomes(c, [call[c] EXCEPT !.pc = "dial"])
    <3>1. CallOK([call[c] EXCEPT !.pc = "dial"])
      BY <1>0, <1>t, <2>1, GoesOnOK DEF Early, CallFields
    <3> QED
      BY <2>3, <3>1, CallMoves
  <2> QED
    BY <1>2, <2>2, <2>3 DEF Request
<1>3. CASE Dial(c)
  <2>1. call[c].pc = "dial"
    BY <1>3 DEF Dial
  <2> DEFINE rec == [call[c] EXCEPT !.open["far"] = TRUE]
  <2>2. CASE \/ Becomes(c, Done(call[c]))
             \/ Becomes(c, Done(Hears(call[c], "refused")))
    BY <1>0, <2>1, <2>2, DoneOK, CallMoves
  <2>3. /\ DOMAIN rec = CallFields /\ rec.pc = "dial" /\ rec.first = call[c].first
        /\ rec.copier = call[c].copier /\ rec.peer = call[c].peer
        /\ rec.sent = call[c].sent /\ rec.got = call[c].got
        /\ DOMAIN rec.open = Sides /\ rec.open["far"]
        /\ phase = "on" => rec.open["near"]
    BY <1>t, <2>1 DEF Early, CallFields, Sides
  <2>4. CallOK(rec)
    BY <1>0, <2>1, <2>3, GoesOnOK DEF Early
  <2>5. CASE Becomes(c, [rec EXCEPT !.pc = "status"])
    <3>1. CallOK([rec EXCEPT !.pc = "status"])
      <4> HIDE DEF rec
      <4> QED
        BY <2>3, <2>4, GoesOnOK DEF Early, CallFields
    <3> QED
      BY <2>5, <3>1, CallMoves
  <2>6. CASE Becomes(c, Copying(Hears(rec, "ok"))) \/ Becomes(c, Copying(rec))
    <3>1. CallOK(Copying(Hears(rec, "ok"))) /\ CallOK(Copying(rec))
      <4> HIDE DEF rec
      <4> QED
        BY <2>3, <2>4, CopyingOK
    <3> QED
      BY <2>6, <3>1, CallMoves
  <2> QED
    BY <1>3, <2>2, <2>5, <2>6 DEF Dial
<1>4. CASE Status(c)
  <2>1. call[c].pc = "status"
    BY <1>4 DEF Status
  <2>2. CallOK(Copying(call[c])) /\ CallOK(Done(call[c]))
    BY <1>0, <1>t, <2>1, CopyingOK, DoneOK DEF Early
  <2> QED
    BY <1>4, <2>2, CallMoves DEF Status
<1>5. CASE Returns(c)
  <2>1. call[c].pc = "relay"
    BY <1>5 DEF Returns
  <2>2. \E s \in Sides : Over(call[c], s)
    BY <1>5 DEF Returns, Sides
  <2>3. mode = "socat" => \A s \in Sides : Over(call[c], s)
    BY <1>5 DEF Returns, Interruptible
  <2>4. call[c].first # "none"
    BY <1>0, <2>2 DEF CallOK, CopiersOK
  <2>5. ASSUME NEW r, DOMAIN r = CallFields, r.pc = "done", DOMAIN r.open = Sides,
               r.first = call[c].first, r.copier = call[c].copier,
               r.peer = call[c].peer, r.sent = call[c].sent, r.got = call[c].got
        PROVE  CallOK(r)
    <3>1. CallTyped(r)
      BY <1>0, <2>5 DEF CallOK, CallTyped, CallPlaces
    <3>2. CopiersOK(r)
      BY <1>0, <2>3, <2>4, <2>5 DEF CallOK, CallTyped, CopiersOK, Over
    <3>3. OpenOK(r) /\ EndsOK(r)
      BY <1>0, <2>5 DEF CallOK, OpenOK, EndsOK, Over
    <3> QED
      BY <3>1, <3>2, <3>3 DEF CallOK
  <2>6. CallOK(Done(call[c]))
    BY <1>t, <2>5 DEF Done, CallFields
  <2>7. CallOK([call[c] EXCEPT !.pc = "done", !.open["near"] = FALSE])
    BY <1>t, <2>5 DEF CallFields
  <2> QED
    BY <1>5, <2>6, <2>7, CallMoves DEF Returns
<1>6. CASE Says(c)
  <2>1. call[c].pc \in Early
    BY <1>6 DEF Says, Early
  <2>2. CallOK([call[c] EXCEPT !.said = @ + 1])
    BY <1>0, <1>t, <2>1, GoesOnOK DEF CallFields
  <2> QED
    BY <1>6, <2>2, CallMoves DEF Says
<1>7. CASE Accept(c)
  <2>1. PICK word : Becomes(c, [NoCall EXCEPT !.pc = IF Talks THEN "hello" ELSE "dial",
                                              !.word = word, !.open["near"] = TRUE])
    BY <1>7 DEF Accept
  <2> DEFINE r == [NoCall EXCEPT !.pc = IF Talks THEN "hello" ELSE "dial",
                                 !.word = word, !.open["near"] = TRUE]
  <2>2. CallTyped(r)
    BY DEF NoCall, CallTyped, CallFields, CallPlaces, Sides
  <2>3. CopiersOK(r) /\ OpenOK(r) /\ EndsOK(r)
    BY DEF NoCall, CopiersOK, OpenOK, EndsOK, Over, Sides
  <2> QED
    BY <2>1, <2>2, <2>3, CallMoves DEF CallOK
<1> QED
  BY <1>1, <1>2, <1>3, <1>4, <1>5, <1>6, <1>7 DEF Handles

\* A copy, its end, and what the sides do meanwhile keep connections in order.
LEMMA CopiesInv ==
  ASSUME RelaysInv, NEW c \in Calls, NEW s \in Sides, CopiesOn(c, s) \/ Sends(c, s) \/ Leaves(c, s)
  PROVE  RelaysInv'
<1> DEFINE rec == call[c]
<1>0. CallTyped(rec) /\ CopiersOK(rec) /\ OpenOK(rec) /\ EndsOK(rec)
  BY DEF RelaysInv, CallOK
<1>t. Other(s) \in Sides /\ Other(s) # s /\ \A t \in Sides : t = s \/ t = Other(s)
  BY DEF Other, Sides
<1>f. /\ DOMAIN rec = CallFields /\ DOMAIN rec.peer = Sides /\ DOMAIN rec.open = Sides
      /\ DOMAIN rec.copier = Sides /\ DOMAIN rec.sent = Sides /\ DOMAIN rec.got = Sides
      /\ rec.sent[s] \in Nat /\ rec.got[s] \in Nat
  BY <1>0 DEF CallTyped
<1>1. CASE ReadChunk(c, s) \/ (WriteChunk(c, s) /\ Becomes(c, [rec EXCEPT !.got[s] = @ + 1, !.copier[s] = "read"]))
  <2>1. rec.copier[s] \in {"read", "write"}
    BY <1>1 DEF ReadChunk, WriteChunk, Copies
  <2>2. ASSUME NEW r, DOMAIN r = CallFields, r.pc = rec.pc, r.first = rec.first, r.peer = rec.peer,
               r.sent = rec.sent, r.open = rec.open, NEW at \in {"read", "write"},
               r.copier = [rec.copier EXCEPT ![s] = at],
               DOMAIN r.got = Sides, r.got[s] \in Nat, \A t \in Sides \ {s} : r.got[t] = rec.got[t]
        PROVE  CallOK(r)
    <3>1. CallTyped(r)
      BY <1>0, <1>f, <2>2 DEF CallTyped
    <3>2. \A t \in Sides : Over(r, t) <=> Over(rec, t)
      BY <1>f, <2>1, <2>2 DEF Over
    <3>3. CopiersOK(r)
      BY <1>0, <1>f, <2>1, <2>2, <3>2 DEF CopiersOK, CallTyped
    <3>4. OpenOK(r)
      BY <1>0, <2>2 DEF OpenOK
    <3>5. EndsOK(r)
      BY <1>0, <1>f, <2>1, <2>2, <3>2 DEF EndsOK, Over
    <3> QED
      BY <3>1, <3>3, <3>4, <3>5 DEF CallOK
  <2>3. CallOK([rec EXCEPT !.copier[s] = "write"])
    BY <1>f, <2>2 DEF CallFields
  <2>4. CallOK([rec EXCEPT !.got[s] = @ + 1, !.copier[s] = "read"])
    <3> DEFINE r == [rec EXCEPT !.got[s] = @ + 1, !.copier[s] = "read"]
    <3>1. /\ DOMAIN r = CallFields /\ r.pc = rec.pc /\ r.first = rec.first /\ r.peer = rec.peer
          /\ r.sent = rec.sent /\ r.open = rec.open
          /\ r.copier = [rec.copier EXCEPT ![s] = "read"]
          /\ r.got = [rec.got EXCEPT ![s] = @ + 1]
      BY <1>f DEF CallFields
    <3>2. DOMAIN r.got = Sides /\ r.got[s] \in Nat /\ \A t \in Sides \ {s} : r.got[t] = rec.got[t]
      BY <1>f, <3>1
    <3> HIDE DEF r
    <3>3. CallOK(r)
      BY <2>2, <3>1, <3>2
    <3> QED
      BY <3>3 DEF r
  <2> QED
    BY <1>1, <2>3, <2>4, CallMoves DEF ReadChunk
<1>2. CASE Becomes(c, Ends(c, s)) /\ (ReadEnds(c, s) \/ WriteChunk(c, s))
  <2> DEFINE r == Ends(c, s)
  <2>1. rec.copier[s] \in {"read", "write"} /\ rec.pc \in {"relay", "done"}
    BY <1>2 DEF ReadEnds, WriteChunk, Copies
  <2>2. /\ DOMAIN r = CallFields /\ r.pc = rec.pc /\ r.peer = rec.peer
        /\ r.sent = rec.sent /\ r.got = rec.got /\ r.open = rec.open
        /\ r.copier = [rec.copier EXCEPT ![s] = "ended"]
        /\ r.first = IF rec.first = "none" THEN s ELSE rec.first
    BY <1>f DEF Ends, CallFields
  <2>3. CallTyped(r)
    BY <1>0, <1>f, <2>2 DEF CallTyped
  <2>4. \A t \in Sides : Over(r, t) <=> (t = s \/ Over(rec, t))
    BY <1>f, <2>2 DEF Over
  <2>5. rec.first # s /\ (rec.pc = "done" => rec.first # "none" /\ mode # "socat")
    <3>1. ~Over(rec, s)
      BY <2>1 DEF Over
    <3>2. rec.first # s
      BY <1>0, <3>1 DEF CopiersOK, Sides
    <3>3. ASSUME rec.pc = "done" PROVE rec.first # "none" /\ mode # "socat"
      <4>1. rec.first # "none"
        BY <1>0, <2>1, <3>3 DEF CopiersOK
      <4> QED
        BY <1>0, <3>1, <3>3, <4>1 DEF CopiersOK
    <3> QED
      BY <3>2, <3>3
  <2>6. CopiersOK(r)
    BY <1>0, <1>f, <1>t, <2>1, <2>2, <2>4, <2>5 DEF CopiersOK, CallTyped
  <2>7. OpenOK(r)
    BY <1>0, <1>t, <2>2 DEF OpenOK, CallTyped, Sides
  <2>8. ASSUME phase = "on", r.first = s \/ mode = "socat"
        PROVE  \/ rec.peer[s] = "gone" \/ rec.peer[Other(s)] = "gone"
               \/ rec.peer[s] = "half" /\ rec.got[s] = rec.sent[s]
    <3>1. rec.pc = "relay" /\ (rec.first = "none" \/ mode = "socat")
      BY <2>1, <2>2, <2>5, <2>8 DEF Sides
    <3>2. rec.open[s] /\ rec.open[Other(s)]
      BY <1>0, <1>t, <2>8, <3>1 DEF OpenOK, Sides
    <3>3. CASE ReadEnds(c, s)
      BY <2>8, <3>2, <3>3 DEF ReadEnds
    <3>4. CASE WriteChunk(c, s)
      <4>1. rec.copier[s] = "write"
        BY <3>4 DEF WriteChunk, Copies
      <4>2. CASE Becomes(c, [rec EXCEPT !.got[s] = @ + 1, !.copier[s] = "read"])
        <5>1. call'[c] = r /\ call'[c] = [rec EXCEPT !.got[s] = @ + 1, !.copier[s] = "read"]
          BY <1>2, <4>2 DEF Becomes, RelaysInv
        <5>2. [rec EXCEPT !.got[s] = @ + 1, !.copier[s] = "read"].copier[s] = "read" /\ r.copier[s] = "ended"
          BY <1>f, <2>2 DEF CallFields
        <5> QED
          BY <5>1, <5>2
      <4>3. CASE ~rec.open[Other(s)] \/ rec.peer[Other(s)] = "gone" \/ (mode = "socat" /\ phase # "on")
        BY <2>8, <3>2, <4>3
      <4> QED
        BY <3>4, <4>2, <4>3 DEF WriteChunk
    <3> QED
      BY <1>2, <3>3, <3>4
  <2>9. EndsOK(r)
    <3> SUFFICES ASSUME phase = "on", NEW t \in Sides, Over(r, t), r.first = t \/ mode = "socat"
                 PROVE  \/ r.peer[t] = "gone" \/ r.peer[Other(t)] = "gone"
                        \/ r.peer[t] = "half" /\ r.got[t] = r.sent[t]
      BY DEF EndsOK
    <3>1. CASE t = s
      BY <2>2, <2>8, <3>1
    <3>2. CASE t # s
      <4>1. Over(rec, t) /\ (rec.first = t \/ mode = "socat")
        BY <2>2, <2>4, <3>2
      <4> QED
        BY <1>0, <2>2, <4>1 DEF EndsOK
    <3> QED
      BY <3>1, <3>2
  <2> HIDE DEF r
  <2> QED
    BY <1>2, <2>3, <2>6, <2>7, <2>9, CallMoves DEF CallOK, r
<1>3. CASE Tells(c, s)
  <2> DEFINE r == [rec EXCEPT !.copier[s] = "told", !.open[Other(s)] = FALSE]
  <2>1. rec.copier[s] = "ended" /\ mode # "socat" /\ Becomes(c, r)
    BY <1>3 DEF Tells, Copies, Forwards
  <2>2. /\ DOMAIN r = CallFields /\ r.pc = rec.pc /\ r.peer = rec.peer /\ r.first = rec.first
        /\ r.sent = rec.sent /\ r.got = rec.got /\ DOMAIN r.open = Sides
        /\ r.copier = [rec.copier EXCEPT ![s] = "told"]
    BY <1>f DEF CallFields
  <2>3. \A t \in Sides : Over(r, t) <=> Over(rec, t)
    BY <1>f, <2>1, <2>2 DEF Over
  <2>4. rec.first # "none" /\ rec.pc \in {"relay", "done"}
    BY <1>0, <2>1 DEF CopiersOK, Over
  <2>5. CallTyped(r)
    BY <1>0, <1>f, <2>2 DEF CallTyped
  <2>6. CopiersOK(r)
    BY <1>0, <1>f, <2>1, <2>2, <2>3, <2>4 DEF CopiersOK, CallTyped
  <2>7. OpenOK(r) /\ EndsOK(r)
    BY <1>0, <2>1, <2>2, <2>3, <2>4 DEF OpenOK, EndsOK
  <2> HIDE DEF r
  <2> QED
    BY <2>1, <2>5, <2>6, <2>7, CallMoves DEF CallOK
<1>4. CASE Sends(c, s)
  <2> DEFINE r == [rec EXCEPT !.sent[s] = @ + 1]
  <2>1. rec.peer[s] = "open" /\ Becomes(c, r)
    BY <1>4 DEF Sends
  <2>2. /\ DOMAIN r = CallFields /\ r.pc = rec.pc /\ r.peer = rec.peer /\ r.first = rec.first
        /\ r.got = rec.got /\ r.open = rec.open /\ r.copier = rec.copier
        /\ r.sent = [rec.sent EXCEPT ![s] = @ + 1]
    BY <1>f DEF CallFields
  <2> HIDE DEF r
  <2>3. CallTyped(r)
    BY <1>0, <1>f, <2>2 DEF CallTyped
  <2>4. CopiersOK(r) /\ OpenOK(r)
    BY <1>0, <2>2 DEF CopiersOK, OpenOK, Over
  <2>5. EndsOK(r)
    BY <1>0, <1>f, <2>1, <2>2 DEF EndsOK, Over
  <2> QED
    BY <2>1, <2>3, <2>4, <2>5, CallMoves DEF CallOK
<1>5. CASE Leaves(c, s)
  <2>1. PICK p \in {"half", "gone"} :
          Becomes(c, [rec EXCEPT !.peer[s] = p]) /\ (p = "half" => rec.peer[s] = "open")
    BY <1>5 DEF Leaves
  <2> DEFINE r == [rec EXCEPT !.peer[s] = p]
  <2>2. /\ DOMAIN r = CallFields /\ r.pc = rec.pc /\ r.first = rec.first
        /\ r.sent = rec.sent /\ r.got = rec.got /\ r.open = rec.open /\ r.copier = rec.copier
        /\ r.peer = [rec.peer EXCEPT ![s] = p]
    BY <1>f DEF CallFields
  <2>a. Becomes(c, r)
    BY <2>1
  <2> HIDE DEF r
  <2>3. CallTyped(r)
    BY <1>0, <1>f, <2>2 DEF CallTyped
  <2>4. CopiersOK(r) /\ OpenOK(r)
    BY <1>0, <2>2 DEF CopiersOK, OpenOK, Over
  <2>5. EndsOK(r)
    BY <1>0, <1>f, <1>t, <2>1, <2>2 DEF EndsOK, Over
  <2> QED
    BY <2>a, <2>3, <2>4, <2>5, CallMoves DEF CallOK
<1> QED
  BY <1>1, <1>2, <1>3, <1>4, <1>5 DEF CopiesOn, ReadEnds, WriteChunk

\* Every step of a relay, the interrupt included, keeps its connections in order.
LEMMA NextRelaysInv ==
  ASSUME RelaysInv, [RelaysNext]_relayVars
  PROVE  RelaysInv'
<1>1. CASE Cancel \/ ListenerCloses \/ UNCHANGED relayVars
  <2>1. UNCHANGED << mode, call >> /\ phase' \in {phase, "cancelled", "closed"}
        /\ (phase' = "on" => phase = "on")
    BY <1>1 DEF Cancel, ListenerCloses, relayVars
  <2>2. ASSUME NEW c \in Calls PROVE CallOK(call[c])'
    BY <2>1 DEF RelaysInv, CallOK, CallTyped, CopiersOK, OpenOK, EndsOK, Over
  <2> QED
    BY <2>1, <2>2 DEF RelaysInv
<1>2. CASE AcceptEnds \/ AcceptFails
  <2>1. mode' = mode /\ phase' = "ended"
        /\ call' = [c \in Calls |-> [call[c] EXCEPT !.open = [s \in Sides |-> FALSE]]]
    BY <1>2 DEF AcceptEnds, AcceptFails
  <2>2. ASSUME NEW c \in Calls PROVE CallOK(call[c])'
    <3> DEFINE rec == call[c]
               r   == [call[c] EXCEPT !.open = [s \in Sides |-> FALSE]]
    <3>0. CallTyped(rec) /\ CopiersOK(rec)
      BY DEF RelaysInv, CallOK
    <3>1. /\ DOMAIN r = CallFields /\ r.pc = rec.pc /\ r.peer = rec.peer /\ r.first = rec.first
          /\ r.sent = rec.sent /\ r.got = rec.got /\ DOMAIN r.open = Sides
          /\ r.copier = rec.copier
      BY <3>0 DEF CallTyped, CallFields
    <3>2. call'[c] = r
      BY <2>1
    <3> HIDE DEF r
    <3>3. CallTyped(r)
      BY <3>0, <3>1 DEF CallTyped
    <3>4. CopiersOK(call[c])'
      <4>1. \A s : Over(r, s) <=> Over(rec, s)
        BY <3>1 DEF Over
      <4>2. CopiersOK(r)
        BY <3>0, <3>1, <4>1 DEF CopiersOK
      <4> QED
        BY <2>1, <3>2, <4>2 DEF CopiersOK, Over
    <3>5. CallTyped(call[c])' /\ OpenOK(call[c])' /\ EndsOK(call[c])'
      BY <2>1, <3>2, <3>3 DEF CallTyped, OpenOK, EndsOK
    <3> QED
      BY <3>4, <3>5 DEF CallOK
  <2> QED
    BY <2>1, <2>2 DEF RelaysInv
<1> QED
  BY <1>1, <1>2, HandlesInv, CopiesInv DEF RelaysNext

-----------------------------------------------------------------------------
(* The forwarders of datagrams *)

\* The datagrams of a sender.
Of(k) == {m \in 1..Len(owner) : owner[m] = k}

SessFields == {"of", "inbox", "closed", "cut", "run", "msg"}

SessPlaces == {"dial", "drop", "register", "select", "read", "deaf", "ended"}

LoopPlaces == {"receive", "check", "lookup", "send", "forward", "close", "closing", "wait"}

UdpTypeOK ==
  /\ kind \in UdpKinds \cup {"off"}
  /\ ustate \in {"on", "cancelled", "closed", "ended", "crashed", "nilAddr"}
  /\ owner \in Seq(Senders)
  /\ DOMAIN loop = {"at", "msg", "id"}
  /\ loop.at \in LoopPlaces /\ loop.msg \in Nat /\ loop.id \in Nat
  /\ table \in [Senders -> Nat]
  /\ "closed" \in DOMAIN pump

\* What a session has taken, and what it waits for, is its client's.
SessOK(s) ==
  /\ DOMAIN s = SessFields
  /\ s.of \in Senders
  /\ s.inbox \in Seq(Of(s.of))
  /\ s.run \in SessPlaces
  /\ s.run = "read" => s.msg \in Of(s.of)

SessionsOK ==
  /\ Len(sess) \in Nat /\ DOMAIN sess = 1..Len(sess)
  /\ \A i \in 1..Len(sess) : SessOK(sess[i])

TableOK ==
  \A k \in Senders : table[k] # 0 => table[k] \in 1..Len(sess) /\ sess[table[k]].of = k

LoopOK ==
  /\ loop.at \in {"receive", "check", "lookup", "send"}
  /\ loop.at # "receive" => loop.msg \in 1..Len(owner)
  /\ loop.at = "send" => loop.id \in 1..Len(sess) /\ loop.msg \in Of(sess[loop.id].of)

\* A socket is its session's: what came from it, and what goes back to it.
Sent == {r \in [msg : Nat, id : 1..Len(sess)] : r.msg \in Of(sess[r.id].of)}

FarOK == far \in Seq(Sent)

BackOK ==
  /\ Len(back) = Len(sess) /\ DOMAIN back = 1..Len(back)
  /\ \A i \in 1..Len(sess) : back[i] \in Seq({0} \cup Of(sess[i].of))

HomeOK == \A h \in home : h.msg \in Of(h.to)

SweptOK ==
  /\ \A i \in 1..Len(sess) : sess[i].closed => swept
  /\ swept => ustate \notin {"on", "cancelled"}

ServedOK ==
  ustate = "on" => \A k \in Senders : table[k] # 0 => sess[table[k]].run # "ended"

SocatOK ==
  SessionsOK /\ TableOK /\ LoopOK /\ FarOK /\ BackOK /\ HomeOK /\ SweptOK /\ ServedOK

UdpInv ==
  /\ UdpTypeOK
  /\ kind = "socat" => SocatOK
  /\ kind # "socat" => loop.at \notin {"check", "lookup", "send"}
  /\ PanicsAtEndOnly

\* The properties of the datagrams are parts of the invariant.
LEMMA UdpInvImplies == UdpInv => AnswersGoHome /\ SessionServed /\ PanicsAtEndOnly
BY DEF UdpInv, SocatOK, HomeOK, Of, AnswersGoHome, ServedOK, SessionServed

\* A forwarder of datagrams starts in order.
LEMMA UdpStartInv ==
  ASSUME UdpStart, kind \in UdpKinds \cup {"off"}
  PROVE  UdpInv
<1>1. UdpTypeOK
  BY DEF UdpStart, UdpTypeOK, Idle1, LoopPlaces, Pump0
<1>2. SessionsOK /\ TableOK /\ LoopOK /\ FarOK /\ BackOK
  BY DEF UdpStart, SessionsOK, TableOK, LoopOK, FarOK, BackOK, Idle1
<1>3. HomeOK /\ SweptOK /\ ServedOK
  BY DEF UdpStart, HomeOK, SweptOK, ServedOK
<1> QED
  BY <1>1, <1>2, <1>3 DEF UdpStart, UdpInv, SocatOK, Idle1, PanicsAtEndOnly

\* What a sender has sent stays, and nothing that is not its own is added.
LEMMA OfGrows ==
  ASSUME owner \in Seq(Senders), NEW k \in Senders, owner' = Append(owner, k)
  PROVE  /\ \A j : Of(j) \subseteq Of(j)'
         /\ Len(owner') = Len(owner) + 1
         /\ owner' \in Seq(Senders)
BY DEF Of

\* Receiving a datagram makes its number its sender's.
LEMMA ReceiveUdpInv ==
  ASSUME UdpInv, NEW k \in Senders, Receive(k)
  PROVE  UdpInv'
<1>0. UdpTypeOK /\ PanicsAtEndOnly
  BY DEF UdpInv
<1>1. /\ \A j : Of(j) \subseteq Of(j)'
      /\ Len(owner') = Len(owner) + 1
      /\ owner' \in Seq(Senders)
  BY <1>0, OfGrows DEF Receive, UdpTypeOK
<1>2. UdpTypeOK'
  BY <1>0, <1>1 DEF Receive, UdpTypeOK, LoopPlaces, Alive, proxyVars, socatVars
<1>3. PanicsAtEndOnly'
  BY <1>0 DEF Receive, PanicsAtEndOnly, proxyVars, socatVars
<1>4. kind' # "socat" => loop'.at \notin {"check", "lookup", "send"}
  BY DEF Receive
<1>5. ASSUME kind = "socat" PROVE SocatOK'
  <2>0. SocatOK
    BY <1>5 DEF UdpInv
  <2> UNCHANGED << ustate, table, sess, swept, far, back, home >>
    BY DEF Receive, socatVars
  <2>1. SessionsOK'
    <3> SUFFICES ASSUME NEW i \in 1..Len(sess) PROVE SessOK(sess[i])'
      BY <2>0 DEF SocatOK, SessionsOK
    <3>1. SessOK(sess[i])
      BY <2>0 DEF SocatOK, SessionsOK
    <3>2. Seq(Of(sess[i].of)) \subseteq Seq(Of(sess[i].of)')
      BY <1>1
    <3> QED
      BY <1>1, <3>1, <3>2 DEF SessOK
  <2>2. TableOK' /\ ServedOK' /\ SweptOK'
    BY <2>0 DEF SocatOK, TableOK, ServedOK, SweptOK
  <2>3. LoopOK'
    BY <1>0, <1>1, <1>5 DEF Receive, LoopOK, UdpTypeOK
  <2>4. FarOK'
    <3>1. Sent \subseteq Sent'
      BY <1>1 DEF Sent
    <3> QED
      BY <2>0, <3>1 DEF SocatOK, FarOK
  <2>5. BackOK'
    <3>1. ASSUME NEW i \in 1..Len(sess) PROVE back[i] \in Seq({0} \cup Of(sess[i].of))'
      <4>1. ({0} \cup Of(sess[i].of)) \subseteq ({0} \cup Of(sess[i].of)')
        BY <1>1
      <4>2. Seq({0} \cup Of(sess[i].of)) \subseteq Seq({0} \cup Of(sess[i].of)')
        BY <4>1
      <4> QED
        BY <2>0, <4>2 DEF SocatOK, BackOK
    <3> QED
      BY <2>0, <3>1 DEF SocatOK, BackOK
  <2>6. HomeOK'
    BY <1>1, <2>0 DEF SocatOK, HomeOK
  <2> QED
    BY <2>1, <2>2, <2>3, <2>4, <2>5, <2>6 DEF SocatOK
<1> QED
  BY <1>2, <1>3, <1>4, <1>5 DEF UdpInv, Receive

\* A step of one session's goroutine, or of the loop for it: the sessions stay whose they are.
SessStays(i) ==
  /\ Len(sess') = Len(sess) /\ DOMAIN sess' = DOMAIN sess
  /\ \A j \in 1..Len(sess) : j # i => sess'[j] = sess[j]
  /\ sess'[i].of = sess[i].of /\ (sess'[i].closed => sess[i].closed)

\* A session that keeps its client and adds no datagram keeps everything its client's.
LEMMA SessStaysOK ==
  ASSUME SocatOK, NEW i \in 1..Len(sess), SessStays(i), UNCHANGED owner,
         SessOK(sess'[i])
  PROVE  /\ SessionsOK'
         /\ Sent' = Sent
         /\ \A j \in 1..Len(sess) : sess'[j].of = sess[j].of
         /\ \A k : Of(k)' = Of(k)
<1>1. \A k : Of(k)' = Of(k)
  BY DEF Of
<1>2. \A j \in 1..Len(sess) : sess'[j].of = sess[j].of
  BY DEF SessStays
<1>3. SessionsOK'
  <2>1. Len(sess') \in Nat /\ DOMAIN sess' = 1..Len(sess')
    BY DEF SocatOK, SessionsOK, SessStays
  <2>2. ASSUME NEW j \in 1..Len(sess) PROVE SessOK(sess[j])'
    <3>1. SessOK(sess'[j])
      BY DEF SocatOK, SessionsOK, SessStays
    <3> QED
      BY <1>1, <3>1 DEF SessOK
  <2> QED
    BY <2>1, <2>2 DEF SessionsOK, SessStays
<1>4. Sent' = Sent
  BY <1>1, <1>2 DEF Sent, SessStays
<1> QED
  BY <1>1, <1>2, <1>3, <1>4

\* The goroutine of a session: what it does with the table, its socket and the answers.
LEMMA SessionMoves ==
  ASSUME UdpInv, kind = "socat", NEW i \in 1..Len(sess), SessStays(i),
         UNCHANGED rest, SessOK(sess'[i]),
         \/ table' = table
         \/ table' = [table EXCEPT ![sess[i].of] = 0],
         sess'[i].run = "ended" /\ ustate = "on" => table'[sess[i].of] = 0,
         far' \in Seq(Sent),
         Len(back') = Len(back), DOMAIN back' = DOMAIN back,
         \A j \in 1..Len(sess) : back'[j] \in Seq({0} \cup Of(sess[j].of)),
         \A h \in home' : h \in home \/ h.msg \in Of(h.to)
  PROVE  UdpInv'
<1>0. UdpTypeOK /\ SocatOK /\ PanicsAtEndOnly
  BY DEF UdpInv
<1>1. UNCHANGED << kind, ustate, owner, loop, swept, last, pump >>
  BY DEF rest, proxyVars
<1>2. /\ SessionsOK'
      /\ Sent' = Sent
      /\ \A j \in 1..Len(sess) : sess'[j].of = sess[j].of
      /\ \A k : Of(k)' = Of(k)
  BY <1>0, <1>1, SessStaysOK
<1>3. sess[i].of \in Senders
  BY <1>0 DEF SocatOK, SessionsOK, SessOK
<1>4. UdpTypeOK' /\ PanicsAtEndOnly'
  BY <1>0, <1>1, <1>3 DEF UdpTypeOK, PanicsAtEndOnly
<1>5. \A k \in Senders : table'[k] # 0 => table'[k] = table[k]
  BY <1>0, <1>3 DEF UdpTypeOK
<1>6. TableOK'
  BY <1>0, <1>2, <1>5 DEF SocatOK, TableOK, SessStays
<1>7. LoopOK'
  BY <1>0, <1>1, <1>2 DEF SocatOK, LoopOK, SessStays
<1>8. FarOK'
  BY <1>2 DEF FarOK
<1>9. BackOK'
  BY <1>0, <1>2 DEF SocatOK, BackOK, SessStays
<1>10. HomeOK'
  BY <1>0, <1>2 DEF SocatOK, HomeOK
<1>11. SweptOK'
  BY <1>0, <1>1 DEF SocatOK, SweptOK, SessStays
<1>12. ServedOK'
  <2> SUFFICES ASSUME ustate = "on", NEW k \in Senders, table'[k] # 0
               PROVE  sess'[table'[k]].run # "ended"
    BY <1>1 DEF ServedOK
  <2>1. table'[k] = table[k] /\ table[k] \in 1..Len(sess) /\ sess[table[k]].of = k
    BY <1>0, <1>5 DEF SocatOK, TableOK
  <2>2. sess[table[k]].run # "ended"
    BY <1>0, <2>1 DEF SocatOK, ServedOK
  <2>3. CASE table[k] = i
    BY <2>1, <2>3
  <2>4. CASE table[k] # i
    BY <2>1, <2>2, <2>4 DEF SessStays
  <2> QED
    BY <2>3, <2>4
<1> QED
  BY <1>0, <1>1, <1>2, <1>4, <1>6, <1>7, <1>8, <1>9, <1>10, <1>11, <1>12 DEF UdpInv, SocatOK

\* The goroutines of a session: dial, register, serve, go, and tidy up after
\* themselves.
LEMMA SessionRunsInv ==
  ASSUME UdpInv, NEW i \in Ids, SessionRuns(i)
  PROVE  UdpInv'
<1> USE DEF Runs, Goes
<1>0. kind = "socat" /\ i \in 1..Len(sess) /\ UNCHANGED rest
  BY DEF SessionRuns, DialFails, DialWorks, Drop, Register, Select, Answer, ReadFails
<1>1. UdpTypeOK /\ SocatOK
  BY <1>0 DEF UdpInv
<1>2. Len(sess) \in Nat /\ DOMAIN sess = 1..Len(sess) /\ SessOK(sess[i])
  BY <1>0, <1>1 DEF SocatOK, SessionsOK
<1>3. far \in Seq(Sent) /\ \A j \in 1..Len(sess) : back[j] \in Seq({0} \cup Of(sess[j].of))
  BY <1>1 DEF SocatOK, FarOK, BackOK
<1>4. CASE DialFails(i) \/ DialWorks(i) \/ Register(i) \/ ReadFails(i)
  <2>1. \E at \in {"drop", "register", "select", "deaf"} : sess' = [sess EXCEPT ![i].run = at]
    BY <1>4 DEF DialFails, DialWorks, Register, ReadFails
  <2>2. SessStays(i) /\ SessOK(sess'[i]) /\ sess'[i].run # "ended"
    BY <1>0, <1>2, <2>1 DEF SessStays, SessOK, SessFields, SessPlaces
  <2>3. UNCHANGED << table, far, back, home >>
    BY <1>4 DEF DialFails, DialWorks, Register, ReadFails
  <2> QED
    BY <1>0, <1>3, <2>2, <2>3, SessionMoves
<1>5. CASE Drop(i)
  <2>1. SessStays(i) /\ SessOK(sess'[i])
    BY <1>0, <1>2, <1>5 DEF Drop, SessStays, SessOK, SessFields, SessPlaces
  <2>2. table' = [table EXCEPT ![sess[i].of] = 0] /\ table'[sess[i].of] = 0
    BY <1>1, <1>2, <1>5 DEF Drop, SessOK, UdpTypeOK
  <2>3. UNCHANGED << far, back, home >>
    BY <1>5 DEF Drop
  <2> QED
    BY <1>0, <1>3, <2>1, <2>2, <2>3, SessionMoves
<1>6. CASE Select(i)
  <2>1. UNCHANGED << table, back, home >>
    BY <1>6 DEF Select
  <2>2. CASE /\ ustate # "on" \/ (sess[i].closed /\ sess[i].inbox = << >>)
             /\ sess' = [sess EXCEPT ![i].run = "ended"] /\ UNCHANGED far
    <3>1. ustate # "on"
      BY <1>0, <1>1, <2>2 DEF SocatOK, SweptOK
    <3>2. SessStays(i) /\ SessOK(sess'[i])
      BY <1>0, <1>2, <2>2 DEF SessStays, SessOK, SessFields, SessPlaces
    <3> QED
      BY <1>0, <1>3, <2>1, <2>2, <3>1, <3>2, SessionMoves
  <2>3. CASE sess[i].inbox # << >> /\ sess' = [sess EXCEPT ![i].inbox = Tail(@)] /\ UNCHANGED far
    <3>1. Tail(sess[i].inbox) \in Seq(Of(sess[i].of))
      BY HeadTailProperties, <1>2, <2>3 DEF SessOK
    <3>2. SessStays(i) /\ SessOK(sess'[i]) /\ sess'[i].run = sess[i].run
      BY <1>0, <1>2, <2>3, <3>1 DEF SessStays, SessOK, SessFields
    <3> QED
      BY <1>0, <1>3, <1>6, <2>1, <2>3, <3>2, SessionMoves DEF Select
  <2>4. CASE /\ sess[i].inbox # << >>
             /\ sess' = [sess EXCEPT ![i].inbox = Tail(@), ![i].run = "read",
                                     ![i].msg = Head(sess[i].inbox)]
             /\ far' = Append(far, [msg |-> Head(sess[i].inbox), id |-> i])
    <3>1. Tail(sess[i].inbox) \in Seq(Of(sess[i].of)) /\ Head(sess[i].inbox) \in Of(sess[i].of)
      BY HeadTailProperties, <1>2, <2>4 DEF SessOK
    <3>2. sess'[i] = [sess[i] EXCEPT !.inbox = Tail(sess[i].inbox), !.run = "read",
                                     !.msg = Head(sess[i].inbox)]
          /\ Len(sess') = Len(sess) /\ DOMAIN sess' = DOMAIN sess
          /\ \A j \in 1..Len(sess) : j # i => sess'[j] = sess[j]
      BY <1>0, <1>2, <2>4
    <3>3. SessStays(i) /\ SessOK(sess'[i]) /\ sess'[i].run = "read"
      BY <1>2, <3>1, <3>2 DEF SessStays, SessOK, SessFields, SessPlaces
    <3>4. [msg |-> Head(sess[i].inbox), id |-> i] \in Sent
      BY <1>0, <1>1, <3>1 DEF Sent, Of, UdpTypeOK
    <3>5. far' \in Seq(Sent)
      BY <1>3, <2>4, <3>4
    <3> QED
      BY <1>0, <1>3, <2>1, <3>3, <3>5, SessionMoves
  <2> QED
    BY <1>6, <2>2, <2>3, <2>4 DEF Select
<1>7. CASE Answer(i)
  <2>1. UNCHANGED << table, far >> /\ sess[i].run = "read" /\ back[i] # << >> /\ Head(back[i]) # 0
    BY <1>7 DEF Answer
  <2>2. SessStays(i) /\ SessOK(sess'[i]) /\ sess'[i].run = "select"
    BY <1>0, <1>2, <1>7 DEF Answer, SessStays, SessOK, SessFields, SessPlaces
  <2>3. Tail(back[i]) \in Seq({0} \cup Of(sess[i].of)) /\ Head(back[i]) \in Of(sess[i].of)
    <3>1. back[i] \in Seq({0} \cup Of(sess[i].of))
      BY <1>0, <1>3
    <3>2. Tail(back[i]) \in Seq({0} \cup Of(sess[i].of)) /\ Head(back[i]) \in {0} \cup Of(sess[i].of)
      BY <2>1, <3>1, HeadTailProperties
    <3> QED
      BY <2>1, <3>2
  <2>4. owner[sess[i].msg] = sess[i].of
    BY <1>2, <2>1 DEF SessOK, Of
  <2>5. \A h \in home' : h \in home \/ h.msg \in Of(h.to)
    BY <1>7, <2>3, <2>4 DEF Answer
  <2>6. Len(back) = Len(sess) /\ DOMAIN back = 1..Len(sess)
    BY <1>1 DEF SocatOK, BackOK
  <2>7. /\ Len(back') = Len(back) /\ DOMAIN back' = DOMAIN back
        /\ \A j \in 1..Len(sess) : back'[j] = IF j = i THEN Tail(back[i]) ELSE back[j]
    BY <1>0, <1>2, <1>7, <2>6 DEF Answer
  <2>8. \A j \in 1..Len(sess) : back'[j] \in Seq({0} \cup Of(sess[j].of))
    BY <1>3, <2>3, <2>7
  <2> QED
    BY <1>0, <1>3, <2>1, <2>2, <2>5, <2>7, <2>8, SessionMoves
<1> QED
  BY <1>4, <1>5, <1>6, <1>7 DEF SessionRuns

\* The sessions, the sockets and the answers as they were.
LEMMA SocatStays ==
  ASSUME SocatOK, UNCHANGED << owner, table, sess, swept, far, back, home >>, LoopOK',
         \/ ustate' \in {ustate, "closed", "ended", "crashed"}
         \/ ustate = "on" /\ ustate' = "cancelled"
  PROVE  SocatOK'
<1>1. \A k : Of(k)' = Of(k)
  BY DEF Of
<1>2. SessionsOK' /\ TableOK'
  BY <1>1 DEF SocatOK, SessionsOK, SessOK, TableOK
<1>3. FarOK' /\ BackOK' /\ HomeOK'
  BY <1>1 DEF SocatOK, FarOK, Sent, BackOK, HomeOK
<1>4. SweptOK' /\ ServedOK'
  BY DEF SocatOK, SweptOK, ServedOK
<1> QED
  BY <1>2, <1>3, <1>4 DEF SocatOK

\* The receiving goroutine: look up, make a session, enqueue, sweep at the end.
LEMMA LoopInv ==
  ASSUME UdpInv, UdpLoop
  PROVE  UdpInv'
<1>0. UdpTypeOK /\ PanicsAtEndOnly /\ (kind = "socat" => SocatOK)
  BY DEF UdpInv
<1> USE DEF socatVars, proxyVars, Alive
<1>1. CASE Check
  <2>1. UdpTypeOK' /\ PanicsAtEndOnly'
    BY <1>0, <1>1 DEF Check, UdpTypeOK, PanicsAtEndOnly, Idle1, LoopPlaces
  <2>2. kind = "socat"
    BY <1>1 DEF Check, UdpInv
  <2>3. SocatOK'
    <3>1. LoopOK'
      BY <1>0, <1>1, <2>2 DEF Check, UdpTypeOK, Idle1, SocatOK, LoopOK
    <3> QED
      BY <1>0, <1>1, <2>2, <3>1, SocatStays DEF Check
  <2> QED
    BY <1>1, <2>1, <2>2, <2>3 DEF Check, UdpInv
<1>2. CASE Lookup
  <2>0. kind = "socat" /\ SocatOK
    BY <1>0, <1>2 DEF Lookup, UdpInv
  <2> DEFINE k == owner[loop.msg]
  <2>1. k \in Senders /\ loop.msg \in Of(k)
    BY <1>0, <1>2, <2>0 DEF Lookup, UdpTypeOK, SocatOK, LoopOK, Of
  <2>2. \A j : Of(j)' = Of(j)
    BY <1>2 DEF Lookup, Of
  <2>3. CASE table[k] # 0
    <3>1. loop' = [loop EXCEPT !.at = "send", !.id = table[k]]
          /\ UNCHANGED << kind, ustate, owner, table, sess, swept, last, pump, far, back, home >>
      BY <1>2, <2>3 DEF Lookup, SessionOf
    <3>2. table[k] \in 1..Len(sess) /\ sess[table[k]].of = k
      BY <2>0, <2>1, <2>3 DEF SocatOK, TableOK
    <3>3. UdpTypeOK' /\ PanicsAtEndOnly'
      BY <1>0, <3>1, <3>2 DEF UdpTypeOK, PanicsAtEndOnly, LoopPlaces
    <3>4. LoopOK'
      BY <1>0, <2>0, <2>1, <2>2, <3>1, <3>2 DEF UdpTypeOK, SocatOK, LoopOK, Of
    <3>5. SocatOK'
      BY <2>0, <3>1, <3>4, SocatStays
    <3> QED
      BY <2>0, <3>1, <3>3, <3>5 DEF UdpInv
  <2>4. CASE table[k] = 0
    <3> DEFINE n == Len(sess) + 1
    <3>1. /\ loop' = [loop EXCEPT !.at = "send", !.id = n]
          /\ sess' = Append(sess, NewSession(k))
          /\ back' = Append(back, << >>)
          /\ table' = [table EXCEPT ![k] = n]
          /\ UNCHANGED << kind, ustate, owner, swept, last, pump, far, home >>
      BY <1>2, <2>4 DEF Lookup, SessionOf
    <3>2. Len(sess) \in Nat /\ DOMAIN sess = 1..Len(sess) /\ Len(back) = Len(sess) /\ DOMAIN back = 1..Len(sess)
      BY <2>0 DEF SocatOK, SessionsOK, BackOK
    <3>3. /\ Len(sess') = n /\ DOMAIN sess' = 1..n /\ sess'[n] = NewSession(k)
          /\ \A i \in 1..Len(sess) : sess'[i] = sess[i]
      BY <3>1, <3>2
    <3>4. /\ Len(back') = n /\ DOMAIN back' = 1..n /\ back'[n] = << >>
          /\ \A i \in 1..Len(sess) : back'[i] = back[i]
      BY <3>1, <3>2
    <3>5. UdpTypeOK' /\ PanicsAtEndOnly'
      <4>1. DOMAIN loop' = {"at", "msg", "id"} /\ loop'.at = "send" /\ loop'.msg \in Nat /\ loop'.id \in Nat
        BY <1>0, <3>1, <3>2 DEF UdpTypeOK
      <4>2. table' \in [Senders -> Nat]
        <5>1. table \in [Senders -> Nat] /\ n \in Nat
          BY <1>0, <3>2 DEF UdpTypeOK
        <5> HIDE DEF n
        <5> QED
          BY <3>1, <5>1
      <4> QED
        BY <1>0, <3>1, <4>1, <4>2 DEF UdpTypeOK, PanicsAtEndOnly, LoopPlaces
    <3>6. SessOK(NewSession(k))
      BY <2>1 DEF SessOK, NewSession, SessFields, SessPlaces
    <3>7. SessionsOK'
      <4> SUFFICES ASSUME NEW i \in 1..n PROVE SessOK(sess[i])'
        BY <3>2, <3>3 DEF SessionsOK
      <4>1. SessOK(sess'[i])
        BY <2>0, <3>2, <3>3, <3>6 DEF SocatOK, SessionsOK
      <4> QED
        BY <2>2, <4>1 DEF SessOK
    <3>8. TableOK'
      BY <1>0, <2>0, <2>1, <3>1, <3>2, <3>3 DEF SocatOK, TableOK, UdpTypeOK, NewSession
    <3>9. LoopOK'
      BY <1>0, <2>0, <2>1, <2>2, <3>1, <3>2, <3>3 DEF UdpTypeOK, SocatOK, LoopOK, Of, NewSession
    <3>10. FarOK'
      <4>1. Sent \subseteq Sent'
        BY <2>2, <3>2, <3>3 DEF Sent
      <4> QED
        BY <2>0, <3>1, <4>1 DEF SocatOK, FarOK
    <3>11. BackOK'
      <4> SUFFICES ASSUME NEW i \in 1..n PROVE back'[i] \in Seq({0} \cup Of(sess[i].of))'
        BY <3>2, <3>3, <3>4 DEF BackOK
      <4>1. CASE i = n
        <5>1. \A S : << >> \in Seq(S)
          OBVIOUS
        <5> QED
          BY <3>4, <4>1, <5>1
      <4>2. CASE i \in 1..Len(sess)
        BY <2>0, <2>2, <3>3, <3>4, <4>2 DEF SocatOK, BackOK
      <4> QED
        BY <3>2, <4>1, <4>2
    <3>12. HomeOK'
      BY <2>0, <2>2, <3>1 DEF SocatOK, HomeOK
    <3>13. SweptOK'
      BY <2>0, <3>1, <3>2, <3>3 DEF SocatOK, SweptOK, NewSession
    <3>14. ServedOK'
      BY <1>0, <2>0, <2>1, <3>1, <3>2, <3>3 DEF SocatOK, ServedOK, TableOK, UdpTypeOK, NewSession
    <3> QED
      BY <2>0, <3>1, <3>5, <3>7, <3>8, <3>9, <3>10, <3>11, <3>12, <3>13, <3>14 DEF UdpInv, SocatOK
  <2> QED
    BY <2>3, <2>4
<1>3. CASE Send
  <2>0. kind = "socat" /\ SocatOK
    BY <1>0, <1>3 DEF Send, UdpInv
  <2> DEFINE i == loop.id
  <2>1. i \in 1..Len(sess) /\ loop.msg \in Of(sess[i].of) /\ SessOK(sess[i])
    BY <1>3, <2>0 DEF Send, SocatOK, LoopOK, SessionsOK
  <2>2. loop' = Idle1 /\ UNCHANGED << kind, owner, table, swept, last, pump, far, back, home >>
    BY <1>3 DEF Send
  <2>3. CASE sess[i].closed
    <3>1. ustate' = "crashed" /\ UNCHANGED sess /\ swept
      BY <1>3, <2>0, <2>1, <2>3 DEF Send, SocatOK, SweptOK
    <3>2. UdpTypeOK' /\ PanicsAtEndOnly'
      BY <1>0, <2>2, <3>1 DEF UdpTypeOK, PanicsAtEndOnly, Idle1, LoopPlaces
    <3>3. SocatOK'
      <4>1. LoopOK'
        BY <2>2 DEF Idle1, LoopOK
      <4> QED
        BY <2>0, <2>2, <3>1, <4>1, SocatStays
    <3> QED
      BY <2>0, <2>2, <3>2, <3>3 DEF UdpInv
  <2>4. CASE ~sess[i].closed
    <3>0. UNCHANGED ustate
      BY <1>3, <2>4 DEF Send
    <3>1. UdpTypeOK' /\ PanicsAtEndOnly'
      BY <1>0, <2>2, <3>0 DEF UdpTypeOK, PanicsAtEndOnly, Idle1, LoopPlaces
    <3>2. Len(sess) \in Nat /\ DOMAIN sess = 1..Len(sess)
      BY <2>0 DEF SocatOK, SessionsOK
    <3>3. SessStays(i) /\ SessOK(sess'[i]) /\ sess'[i].run = sess[i].run
      <4>1. CASE sess' = [sess EXCEPT ![i].inbox = Append(@, loop.msg)]
        <5>1. Append(sess[i].inbox, loop.msg) \in Seq(Of(sess[i].of))
          BY <2>1 DEF SessOK
        <5>2. sess'[i] = [sess[i] EXCEPT !.inbox = Append(sess[i].inbox, loop.msg)]
              /\ Len(sess') = Len(sess) /\ DOMAIN sess' = DOMAIN sess
              /\ \A j \in 1..Len(sess) : j # i => sess'[j] = sess[j]
          <6>1. i \in DOMAIN sess
            BY <2>1, <3>2
          <6> HIDE DEF i
          <6> QED
            BY <3>2, <4>1, <6>1
        <5> QED
          BY <2>1, <5>1, <5>2 DEF SessStays, SessOK, SessFields
      <4>2. CASE sess' = sess
        BY <2>1, <4>2 DEF SessStays
      <4> QED
        BY <1>3, <2>4, <4>1, <4>2 DEF Send
    <3>4. /\ SessionsOK'
          /\ Sent' = Sent
          /\ \A j \in 1..Len(sess) : sess'[j].of = sess[j].of
          /\ \A k : Of(k)' = Of(k)
      BY <2>0, <2>1, <2>2, <3>3, SessStaysOK
    <3>5. TableOK' /\ ServedOK'
      BY <2>0, <2>2, <3>0, <3>3, <3>4 DEF SocatOK, TableOK, ServedOK, SessStays
    <3>6. LoopOK' /\ FarOK' /\ HomeOK'
      BY <2>0, <2>2, <3>4 DEF SocatOK, LoopOK, FarOK, HomeOK, Idle1
    <3>7. BackOK' /\ SweptOK'
      BY <2>0, <2>2, <3>0, <3>3, <3>4 DEF SocatOK, BackOK, SweptOK, SessStays
    <3> QED
      BY <2>0, <2>2, <3>1, <3>4, <3>5, <3>6, <3>7 DEF UdpInv, SocatOK
  <2> QED
    BY <2>3, <2>4
<1>4. CASE ForwardOn \/ CloseChannel \/ CloseSocket \/ CloseReturns
  <2>1. kind # "socat" /\ kind' = kind
    BY <1>0, <1>4 DEF ForwardOn, CloseChannel, CloseSocket, CloseReturns, SocatOK, LoopOK, proxyRest
  <2>2. UdpTypeOK' /\ PanicsAtEndOnly'
    BY <1>0, <1>4 DEF ForwardOn, CloseChannel, CloseSocket, CloseReturns, proxyRest, UdpTypeOK,
       PanicsAtEndOnly, Idle1, LoopPlaces
  <2>3. loop'.at \notin {"check", "lookup", "send"}
    BY <1>0, <1>4, <2>1 DEF ForwardOn, CloseChannel, CloseSocket, CloseReturns, UdpInv, UdpTypeOK, Idle1
  <2> QED
    BY <2>1, <2>2, <2>3 DEF UdpInv
<1>5. CASE ReceiveEnds
  <2>1. UdpTypeOK' /\ PanicsAtEndOnly'
    BY <1>0, <1>5 DEF ReceiveEnds, UdpTypeOK, PanicsAtEndOnly, LoopPlaces
  <2>2. kind' = kind /\ loop'.at \in {loop.at, "close"}
    BY <1>0, <1>5 DEF ReceiveEnds, UdpTypeOK
  <2>3. ASSUME kind = "socat" PROVE SocatOK'
    <3>1. UNCHANGED << owner, loop, table, sess, swept, far, back, home >> /\ ustate' = "ended"
      BY <1>5, <2>3 DEF ReceiveEnds
    <3> QED
      <4>1. LoopOK'
        BY <1>0, <2>3, <3>1 DEF SocatOK, LoopOK, Of
      <4> QED
        BY <1>0, <2>3, <3>1, <4>1, SocatStays
  <2> QED
    BY <2>1, <2>2, <2>3 DEF UdpInv
<1> QED
  BY <1>1, <1>2, <1>3, <1>4, <1>5 DEF UdpLoop

\* Answers go back to the session they came for; refusals and losses answer nobody.
LEMMA RemoteInv ==
  ASSUME UdpInv, RemoteAnswers \/ RemoteAnswersDirect \/ Refuses \/ Loses
  PROVE  UdpInv'
<1> USE DEF socatVars, proxyVars
<1>0. UdpTypeOK /\ PanicsAtEndOnly /\ (kind = "socat" => SocatOK)
  BY DEF UdpInv
<1>1. UNCHANGED << kind, ustate, owner, loop, table, sess, swept, pump, home >>
  BY DEF RemoteAnswers, RemoteAnswersDirect, Refuses, Loses
<1>2. UdpTypeOK' /\ PanicsAtEndOnly'
  BY <1>0, <1>1 DEF UdpTypeOK, PanicsAtEndOnly
<1>3. ASSUME kind = "socat" PROVE SocatOK'
  <2>0. SocatOK
    BY <1>0, <1>3
  <2>1. \A k : Of(k)' = Of(k)
    BY <1>1 DEF Of
  <2>2. Sent' = Sent
    BY <1>1, <2>1 DEF Sent
  <2>3. SessionsOK' /\ TableOK' /\ LoopOK' /\ HomeOK' /\ SweptOK' /\ ServedOK'
    BY <1>1, <2>0, <2>1 DEF SocatOK, SessionsOK, SessOK, TableOK, LoopOK, HomeOK, SweptOK, ServedOK
  <2>4. far \in Seq(Sent) /\ Len(back) = Len(sess) /\ Len(sess) \in Nat /\ DOMAIN back = 1..Len(sess)
        /\ \A j \in 1..Len(sess) : back[j] \in Seq({0} \cup Of(sess[j].of))
    BY <2>0 DEF SocatOK, FarOK, BackOK, SessionsOK
  <2>5. \A n \in 1..Len(far) : far[n].id \in 1..Len(sess) /\ far[n].msg \in Of(sess[far[n].id].of)
    BY <2>4 DEF Sent
  <2>6. \A n \in 1..Len(far) : Slot(far[n].id) = far[n].id /\ Grown(Slot(far[n].id)) = back
    <3> SUFFICES ASSUME NEW n \in 1..Len(far)
                 PROVE  Slot(far[n].id) = far[n].id /\ Grown(Slot(far[n].id)) = back
      OBVIOUS
    <3>1. far[n].id \in 1..Len(sess)
      BY <2>5
    <3>2. Slot(far[n].id) = far[n].id
      BY <2>4, <3>1 DEF Slot
    <3>3. ~(Len(back) < far[n].id)
      BY <2>4, <3>1
    <3> QED
      BY <3>2, <3>3 DEF Grown
  <2>7. CASE RemoteAnswers
    <3>1. PICK n \in 1..Len(far) :
            /\ back' = [back EXCEPT ![far[n].id] = Append(@, far[n].msg)]
            /\ far' \in {far, SubSeq(far, 1, n - 1) \o SubSeq(far, n + 1, Len(far))}
      BY <2>6, <2>7 DEF RemoteAnswers
    <3>2. far' \in Seq(Sent)
      <4>1. SubSeq(far, 1, n - 1) \in Seq(Sent) /\ SubSeq(far, n + 1, Len(far)) \in Seq(Sent)
        BY <2>4
      <4> QED
        BY <2>4, <3>1, <4>1, ConcatProperties
    <3>3. Append(back[far[n].id], far[n].msg) \in Seq({0} \cup Of(sess[far[n].id].of))
      BY <2>4, <2>5
    <3>4. BackOK'
      BY <1>1, <2>1, <2>4, <2>5, <3>1, <3>3 DEF BackOK
    <3> QED
      BY <2>2, <2>3, <3>2, <3>4 DEF SocatOK, FarOK
  <2>8. CASE Refuses
    <3> DEFINE i == far[1].id
    <3>0. far # << >> /\ 1 \in 1..Len(far) /\ Head(far) = far[1]
      BY <2>4, <2>8 DEF Refuses
    <3>1. i \in 1..Len(sess) /\ Slot(Head(far).id) = i /\ Grown(i) = back
      BY <2>5, <2>6, <3>0
    <3>2. back' = [back EXCEPT ![i] = Append(@, 0)] /\ far' = Tail(far)
      BY <2>8, <3>1 DEF Refuses
    <3>3. far' \in Seq(Sent)
      BY <2>4, <3>0, <3>2, HeadTailProperties
    <3>4. Append(back[i], 0) \in Seq({0} \cup Of(sess[i].of))
      BY <2>4, <3>1
    <3> HIDE DEF i
    <3>6. /\ Len(back') = Len(back) /\ DOMAIN back' = DOMAIN back
          /\ \A j \in 1..Len(sess) : back'[j] = IF j = i THEN Append(back[i], 0) ELSE back[j]
      BY <2>4, <3>1, <3>2
    <3>5. BackOK'
      BY <1>1, <2>1, <2>4, <3>4, <3>6 DEF BackOK
    <3> QED
      BY <2>2, <2>3, <3>3, <3>5 DEF SocatOK, FarOK
  <2>9. CASE Loses
    <3>1. far' \in Seq(Sent)
      BY <2>4, <2>9, HeadTailProperties DEF Loses
    <3>2. BackOK'
      BY <1>1, <2>0, <2>1, <2>9 DEF Loses, SocatOK, BackOK
    <3> QED
      BY <2>2, <2>3, <3>1, <3>2 DEF SocatOK, FarOK
  <2> QED
    BY <1>3, <2>7, <2>8, <2>9 DEF RemoteAnswersDirect
<1> QED
  BY <1>0, <1>1, <1>2, <1>3 DEF UdpInv

\* Closing all sessions closes every inbox in the table, and each of them once.
LEMMA CloseAllInv ==
  ASSUME UdpInv, CloseAll
  PROVE  UdpInv'
<1>0. UdpTypeOK /\ SocatOK
  BY DEF UdpInv, CloseAll
<1>1. kind = "socat" /\ ustate = "closed" /\ swept' = TRUE /\ table' = [k \in Senders |-> 0]
      /\ UNCHANGED << kind, ustate, owner, loop, last, pump, far, back, home >>
  BY DEF CloseAll, proxyVars
<1>2. Len(sess) \in Nat /\ DOMAIN sess = 1..Len(sess)
  BY <1>0 DEF SocatOK, SessionsOK
<1> DEFINE f == [i \in 1..Len(sess) |->
                  [sess[i] EXCEPT !.closed = @ \/ \E k \in Senders : table[k] = i, !.cut = i \in cons]]
<1>3. sess' = f
  BY DEF CloseAll
<1>a. DOMAIN f = 1..Len(sess)
  OBVIOUS
<1>b. \A i \in 1..Len(sess) : \E x, y : f[i] = [sess[i] EXCEPT !.closed = x, !.cut = y]
  <2> TAKE i \in 1..Len(sess)
  <2> WITNESS (sess[i].closed \/ \E k \in Senders : table[k] = i), i \in cons
  <2> QED
    BY Zenon
<1> HIDE DEF f
<1>c. Len(sess') = Len(sess) /\ DOMAIN sess' = 1..Len(sess)
  BY <1>2, <1>3, <1>a
<1>4. \A k : Of(k)' = Of(k)
  BY <1>1 DEF Of
<1>5. \A i \in 1..Len(sess) : SessOK(sess'[i]) /\ sess'[i].of = sess[i].of
  <2> SUFFICES ASSUME NEW i \in 1..Len(sess) PROVE SessOK(sess'[i]) /\ sess'[i].of = sess[i].of
    OBVIOUS
  <2>1. SessOK(sess[i])
    BY <1>0 DEF SocatOK, SessionsOK
  <2>2. \E x, y : sess'[i] = [sess[i] EXCEPT !.closed = x, !.cut = y]
    BY <1>3, <1>b
  <2> QED
    BY <2>1, <2>2 DEF SessOK, SessFields
<1>6. SessionsOK'
  BY <1>2, <1>c, <1>4, <1>5 DEF SessionsOK, SessOK
<1>7. Sent' = Sent
  <2>1. Len(sess') = Len(sess) /\ \A i \in 1..Len(sess) : sess'[i].of = sess[i].of
    BY <1>c, <1>5
  <2> QED
    BY <1>4, <2>1 DEF Sent
<1>8. TableOK' /\ ServedOK' /\ SweptOK'
  BY <1>1 DEF TableOK, ServedOK, SweptOK
<1>9. LoopOK'
  BY <1>0, <1>1, <1>c, <1>4, <1>5 DEF SocatOK, LoopOK
<1>10. FarOK' /\ HomeOK'
  BY <1>0, <1>1, <1>4, <1>7 DEF SocatOK, FarOK, HomeOK
<1>11. BackOK'
  BY <1>0, <1>1, <1>c, <1>4, <1>5 DEF SocatOK, BackOK
<1>12. UdpTypeOK' /\ PanicsAtEndOnly'
  BY <1>0, <1>1 DEF UdpTypeOK, PanicsAtEndOnly
<1> QED
  BY <1>1, <1>6, <1>8, <1>9, <1>10, <1>11, <1>12 DEF UdpInv, SocatOK

\* Every step of a forwarder of datagrams keeps the invariant.
LEMMA NextUdpInv ==
  ASSUME UdpInv, [UdpNext]_udpVars
  PROVE  UdpInv'
<1> USE DEF socatVars, proxyVars
<1>0. UdpTypeOK /\ PanicsAtEndOnly /\ (kind = "socat" => SocatOK)
  BY DEF UdpInv
<1>1. CASE CancelUdp \/ SocketCloses
  <2>1. UNCHANGED << kind, owner, loop, table, sess, swept, pump, far, back, home >>
    BY <1>1 DEF CancelUdp, SocketCloses
  <2>2. \/ ustate = "on" /\ ustate' = "cancelled"
        \/ ustate = "cancelled" /\ ustate' = "closed"
    BY <1>1 DEF CancelUdp, SocketCloses
  <2>3. UdpTypeOK' /\ PanicsAtEndOnly'
    BY <1>0, <2>1, <2>2 DEF UdpTypeOK, PanicsAtEndOnly
  <2>4. LoopOK => LoopOK'
    BY <2>1 DEF LoopOK, Of
  <2>5. kind = "socat" => SocatOK'
    BY <1>0, <2>1, <2>2, <2>4, SocatStays DEF SocatOK
  <2> QED
    BY <1>0, <2>1, <2>3, <2>5 DEF UdpInv
<1>2. CASE ReadLoop \/ Push \/ HandBack
  <2>1. kind # "socat" /\ UNCHANGED << kind, owner, loop, table, sess, swept >>
    BY <1>2 DEF ReadLoop, Push, HandBack, proxyRest
  <2>2. ustate' = ustate \/ (ustate' = "crashed" /\ pump.closed)
    BY <1>2 DEF ReadLoop, Push, HandBack
  <2>3. "closed" \in DOMAIN pump' /\ (pump.closed => pump'.closed)
    BY <1>0, <1>2 DEF ReadLoop, Push, HandBack, UdpTypeOK
  <2>4. UdpTypeOK' /\ PanicsAtEndOnly'
    BY <1>0, <2>1, <2>2, <2>3 DEF UdpTypeOK, PanicsAtEndOnly
  <2> QED
    BY <2>1, <2>4 DEF UdpInv
<1>c. CASE UNCHANGED udpVars
  <2>1. LoopOK => LoopOK'
    BY <1>c DEF LoopOK, Of, udpVars
  <2>2. kind = "socat" => SocatOK'
    BY <1>0, <1>c, <2>1, SocatStays DEF SocatOK, udpVars
  <2> QED
    BY <1>0, <1>c, <2>2 DEF udpVars, UdpInv, UdpTypeOK, PanicsAtEndOnly
<1> QED
  BY <1>1, <1>2, <1>c, ReceiveUdpInv, SessionRunsInv, LoopInv, CloseAllInv, RemoteInv DEF UdpNext

-----------------------------------------------------------------------------
(* The DNS server *)

USE DnsAssumption DEF DnsAssumption

\* Whatever a query carries, its addresses were given when it says, and no
\* longer ago than its fetch took.
QueryPlaces == {"none", "read", "parse", "cache", "fetch", "receive", "answer", "done"}

QueryFields == {"pc", "via", "of", "since", "asked", "taken", "age"}

DnsTyped(rec) ==
  /\ DOMAIN rec = QueryFields
  /\ rec.pc \in QueryPlaces
  /\ rec.pc \notin {"none", "done"} => rec.of \in Domains
  /\ rec.asked \in Nat /\ rec.taken \in Int /\ rec.age \in Int

DnsTypeOK ==
  /\ resolver \in Resolvers \cup {"off"}
  /\ dns \in {"on", "cancelled", "closed", "ended"}
  /\ loops \in SUBSET {"UDP", "TCP"}
  /\ now \in Nat
  /\ cache \in [Domains -> [taken : Int, till : Int]]
  /\ DOMAIN query = Queries
  /\ \A q \in Queries : DnsTyped(query[q])

\* An entry ends no later than its life and a fetch after its answer was given.
EntriesFresh ==
  resolver # "dot" =>
    \A d \in Domains : cache[d].taken >= 0 =>
      cache[d].taken <= now /\ cache[d].till <= cache[d].taken + MaxFetch + TTL

\* No fetch outlasts its timeout, and what it brings was given during it.
FetchFresh(rec, time) ==
  /\ rec.pc \in {"fetch", "receive"} => rec.asked <= time /\ time <= rec.asked + MaxFetch
  /\ rec.pc = "receive" => rec.asked <= rec.taken /\ rec.taken <= time

FetchesFresh == resolver # "dot" => \A q \in Queries : FetchFresh(query[q], now)

DnsInv == DnsTypeOK /\ EntriesFresh /\ FetchesFresh /\ AnswersFresh

\* The DNS server starts with an empty cache.
LEMMA DnsStartInv ==
  ASSUME DnsStart, resolver \in Resolvers \cup {"off"}
  PROVE  DnsInv
<1>1. now = 0 /\ cache = [d \in Domains |-> NoEntry] /\ DOMAIN query = Queries
      /\ \A q \in Queries : query[q] = NoQuery
  BY DEF DnsStart
<1>2. DnsTypeOK
  BY <1>1 DEF DnsStart, Resolvers, DnsTypeOK, DnsTyped, QueryFields, NoEntry, NoQuery, QueryPlaces
<1>3. EntriesFresh /\ FetchesFresh /\ AnswersFresh
  BY <1>1 DEF EntriesFresh, FetchesFresh, FetchFresh, AnswersFresh, NoEntry, NoQuery
<1> QED
  BY <1>2, <1>3 DEF DnsInv

\* A query that moves, and nothing else.
LEMMA MovesInv ==
  ASSUME DnsInv, NEW q \in Queries, query' = [query EXCEPT ![q] = query'[q]],
         UNCHANGED << resolver, dns, loops, cache, now >>,
         DnsTyped(query'[q]),
         resolver # "dot" => FetchFresh(query'[q], now)
                             /\ (query'[q].pc = "answer" => query'[q].age <= TTL + MaxFetch)
  PROVE  DnsInv'
<1>1. /\ DOMAIN query' = Queries
      /\ \A p \in Queries : p # q => query'[p] = query[p]
  BY DEF DnsInv, DnsTypeOK
<1>2. DnsTypeOK'
  BY <1>1 DEF DnsInv, DnsTypeOK
<1>3. EntriesFresh'
  BY DEF DnsInv, EntriesFresh
<1>4. FetchesFresh' /\ AnswersFresh'
  BY <1>1 DEF DnsInv, FetchesFresh, AnswersFresh
<1> QED
  BY <1>2, <1>3, <1>4 DEF DnsInv

\* A query that looks, fetches, stores or answers hands out nothing older than an entry
\* and a fetch.
LEMMA QueryStepInv ==
  ASSUME DnsInv, NEW q \in Queries, QuerySteps(q) \/ ReceiveQuery(q)
  PROVE  DnsInv'
<1> USE DEF At, Moves
<1>0. DnsTypeOK /\ EntriesFresh /\ FetchesFresh /\ AnswersFresh
  BY DEF DnsInv
<1>a. DOMAIN query = Queries /\ DnsTyped(query[q])
  BY <1>0 DEF DnsTypeOK
<1>b. now \in Nat
  BY <1>0 DEF DnsTypeOK
<1>c. resolver # "dot" => FetchFresh(query[q], now)
  BY <1>0 DEF FetchesFresh
<1>q. ASSUME NEW rec, query' = [query EXCEPT ![q] = rec]
      PROVE  query' = [query EXCEPT ![q] = query'[q]] /\ query'[q] = rec
  BY <1>a, <1>q
<1>1. CASE ReceiveQuery(q)
  <2>1. PICK via \in loops, d \in Domains :
          query' = [query EXCEPT ![q] =
                     [NoQuery EXCEPT !.pc = IF via = "UDP" THEN "parse" ELSE "read",
                                     !.via = via, !.of = d,
                                     !.since = IF via = "TCP" THEN now ELSE 0]]
    BY <1>1 DEF ReceiveQuery
  <2>2. /\ query' = [query EXCEPT ![q] = query'[q]]
        /\ query'[q] = [NoQuery EXCEPT !.pc = IF via = "UDP" THEN "parse" ELSE "read",
                                       !.via = via, !.of = d,
                                       !.since = IF via = "TCP" THEN now ELSE 0]
    BY <2>1, <1>q
  <2>3. DnsTyped(query'[q]) /\ query'[q].pc \in {"parse", "read"}
    BY <1>0, <1>b, <2>2 DEF DnsTypeOK, DnsTyped, QueryFields, NoQuery, QueryPlaces
  <2>4. UNCHANGED << resolver, dns, loops, cache, now >>
    BY <1>1 DEF ReceiveQuery
  <2> QED
    BY <2>2, <2>3, <2>4, MovesInv DEF FetchFresh
<1>2. CASE ReadQuery(q) \/ Parse(q) \/ Respond(q)
  <2>1. query' = [query EXCEPT ![q] = query'[q]] /\ UNCHANGED << resolver, dns, loops, cache, now >>
    BY <1>2, <1>a DEF ReadQuery, Parse, Respond
  <2>2. \/ query'[q] = QueryOver
        \/ query[q].pc = "read" /\ query'[q] = [query[q] EXCEPT !.pc = "parse", !.via = "UDP", !.since = 0]
        \/ query[q].pc = "parse" /\ query'[q] = [query[q] EXCEPT !.pc = "cache"]
    BY <1>2, <1>a DEF ReadQuery, Parse, Respond
  <2>3. DnsTyped(query'[q]) /\ query'[q].pc \in {"parse", "cache", "done"}
    <3>1. CASE query'[q] = QueryOver
      BY <3>1 DEF DnsTyped, QueryFields, QueryOver, NoQuery, QueryPlaces
    <3>2. CASE query[q].pc = "read" /\ query'[q] = [query[q] EXCEPT !.pc = "parse", !.via = "UDP", !.since = 0]
      BY <3>2, <1>a DEF DnsTyped, QueryFields, QueryPlaces
    <3>3. CASE query[q].pc = "parse" /\ query'[q] = [query[q] EXCEPT !.pc = "cache"]
      BY <3>3, <1>a DEF DnsTyped, QueryFields, QueryPlaces
    <3> QED
      BY <2>2, <3>1, <3>2, <3>3
  <2> QED
    BY <2>1, <2>3, MovesInv DEF FetchFresh
<1>4. CASE LookIn(q)
  <2> DEFINE d == query[q].of
  <2>1. d \in Domains /\ cache[d].taken \in Int /\ cache[d].till \in Int
    BY <1>0, <1>a, <1>4 DEF LookIn, DnsTypeOK, DnsTyped, QueryFields
  <2>2. query' = [query EXCEPT ![q] = query'[q]] /\ UNCHANGED << resolver, dns, loops, cache, now >>
    BY <1>4, <1>a DEF LookIn
  <2>3. CASE Cached(d)
    <3>1. resolver # "dot" => now - cache[d].taken <= TTL + MaxFetch
      BY <1>0, <1>b, <2>1, <2>3 DEF Cached, EntriesFresh
    <3>2. DnsTyped(query'[q]) /\ query'[q].pc = "answer" /\ query'[q].age = now - cache[d].taken
      BY <1>4, <1>a, <1>b, <2>1, <2>3 DEF LookIn, Answers, DnsTyped, QueryFields, QueryPlaces
    <3> QED
      BY <2>2, <3>1, <3>2, MovesInv DEF FetchFresh
  <2>4. CASE ~Cached(d)
    <3>1. DnsTyped(query'[q]) /\ query'[q].pc = "fetch" /\ query'[q].asked = now
      BY <1>4, <1>a, <1>b, <2>1, <2>4 DEF LookIn, DnsTyped, QueryFields, QueryPlaces
    <3> QED
      BY <1>b, <2>2, <3>1, MovesInv DEF FetchFresh
  <2> QED
    BY <2>3, <2>4
<1>5. CASE ServerAnswers(q)
  <2>1. query' = [query EXCEPT ![q] = query'[q]] /\ UNCHANGED << resolver, dns, loops, cache, now >>
    BY <1>5, <1>a DEF ServerAnswers
  <2>2. DnsTyped(query'[q]) /\ query'[q].pc = "receive" /\ query'[q].taken = now
        /\ query'[q].asked = query[q].asked
    BY <1>5, <1>a, <1>b DEF ServerAnswers, DnsTyped, QueryFields, QueryPlaces
  <2>3. resolver # "dot" => FetchFresh(query'[q], now)
    BY <1>5, <1>b, <1>c, <2>2 DEF ServerAnswers, FetchFresh
  <2> QED
    BY <2>1, <2>2, <2>3, MovesInv
<1>6. CASE FetchFails(q)
  <2>1. query' = [query EXCEPT ![q] = query'[q]] /\ UNCHANGED << resolver, dns, loops, cache, now >>
    BY <1>6, <1>a DEF FetchFails
  <2>2. DnsTyped(query'[q]) /\ query'[q].pc = "answer" /\ query'[q].age = -1
    BY <1>6, <1>a DEF FetchFails, Answers, DnsTyped, QueryFields, QueryPlaces
  <2> QED
    BY <2>1, <2>2, MovesInv DEF FetchFresh
<1>7. CASE Store(q)
  <2> DEFINE d == query[q].of
  <2>1. d \in Domains /\ query[q].asked \in Nat /\ query[q].taken \in Int
    BY <1>a, <1>7 DEF Store, DnsTyped, QueryFields
  <2>2. resolver # "dot" => query[q].taken <= now /\ now <= query[q].taken + MaxFetch
    BY <1>b, <1>c, <1>7, <2>1 DEF Store, FetchFresh
  <2>3. /\ cache' \in [Domains -> [taken : Int, till : Int]]
        /\ \A e \in Domains : cache'[e] = IF e = d THEN [taken |-> query[q].taken, till |-> now + TTL]
                                          ELSE cache[e]
    BY <1>0, <1>b, <1>7, <2>1 DEF Store, DnsTypeOK
  <2>4. UNCHANGED << resolver, dns, loops, now >>
    BY <1>7 DEF Store
  <2>5. EntriesFresh'
    BY <1>0, <1>b, <2>1, <2>2, <2>3, <2>4 DEF EntriesFresh
  <2>6. /\ DOMAIN query' = Queries
        /\ \A p \in Queries : p # q => query'[p] = query[p]
        /\ query'[q] = Answers(query[q], now - query[q].taken)
    BY <1>a, <1>7 DEF Store
  <2>7. DnsTyped(query'[q]) /\ query'[q].pc = "answer" /\ query'[q].age = now - query[q].taken
    BY <1>a, <1>b, <2>1, <2>6 DEF DnsTyped, QueryFields, Answers, QueryPlaces
  <2>8. DnsTypeOK'
    BY <1>0, <2>3, <2>4, <2>6, <2>7 DEF DnsTypeOK
  <2>9. FetchesFresh' /\ AnswersFresh'
    BY <1>0, <1>b, <2>1, <2>2, <2>4, <2>6, <2>7 DEF FetchesFresh, FetchFresh, AnswersFresh
  <2> QED
    BY <2>5, <2>8, <2>9 DEF DnsInv
<1> QED
  BY <1>1, <1>2, <1>4, <1>5, <1>6, <1>7 DEF QuerySteps

\* Every step of the DNS server keeps answers fresh.
LEMMA NextDnsInv ==
  ASSUME DnsInv, [DnsNext]_dnsVars
  PROVE  DnsInv'
<1>0. DnsTypeOK /\ EntriesFresh /\ FetchesFresh /\ AnswersFresh
  BY DEF DnsInv
<1>1. CASE CancelDns \/ SocketsClose \/ LoopEnds \/ StopReturns
  BY <1>0, <1>1 DEF CancelDns, SocketsClose, LoopEnds, StopReturns,
     DnsInv, DnsTypeOK, EntriesFresh, FetchesFresh, AnswersFresh
<1>2. CASE Cleanup
  <2>1. \A d \in Domains : cache'[d] = NoEntry \/ cache'[d] = cache[d]
    BY <1>2 DEF Cleanup
  <2>2. cache' \in [Domains -> [taken : Int, till : Int]]
    BY <1>0, <1>2 DEF Cleanup, DnsTypeOK, NoEntry
  <2>3. UNCHANGED <<resolver, dns, loops, query, now>>
    BY <1>2 DEF Cleanup
  <2> QED
    BY <1>0, <2>1, <2>2, <2>3 DEF DnsInv, DnsTypeOK, EntriesFresh, FetchesFresh, AnswersFresh, NoEntry
<1>3. CASE Tick
  <2>1. now \in Nat /\ now' = now + 1 /\ UNCHANGED <<resolver, dns, loops, cache, query>>
    BY <1>0, <1>3 DEF Tick, DnsTypeOK
  <2>2. DnsTypeOK'
    BY <1>0, <2>1 DEF DnsTypeOK
  <2>3. EntriesFresh'
    BY <1>0, <2>1 DEF DnsTypeOK, EntriesFresh
  <2>4. FetchesFresh'
    BY <1>0, <1>3, <2>1 DEF Tick, DnsTypeOK, DnsTyped, QueryFields, FetchesFresh, FetchFresh
  <2>5. AnswersFresh'
    BY <1>0, <2>1 DEF AnswersFresh
  <2> QED
    BY <2>2, <2>3, <2>4, <2>5 DEF DnsInv
<1>4. CASE \E q \in Queries : ReceiveQuery(q) \/ QuerySteps(q)
  BY <1>4, QueryStepInv
<1>5. CASE UNCHANGED dnsVars
  BY <1>0, <1>5 DEF dnsVars, DnsInv, DnsTypeOK, EntriesFresh, FetchesFresh, AnswersFresh
<1> QED
  BY <1>1, <1>2, <1>3, <1>4, <1>5 DEF DnsNext, DnsStops

-----------------------------------------------------------------------------
(* One process *)

ForwardersInv == RelaysInv /\ UdpInv /\ DnsInv

\* Each forwarder that is not run is as it was at the start.
LEMMA ForwardersStartInv == Init => ForwardersInv
<1> SUFFICES ASSUME Init PROVE ForwardersInv
  OBVIOUS
<1>1. RelaysInv
  BY RelaysStartInv DEF Init, RelaysInit, RelaysOff
<1>2. UdpInv
  BY UdpStartInv DEF Init, UdpInit, UdpOff
<1>3. DnsInv
  BY DnsStartInv DEF Init, DnsInit, DnsOff
<1> QED
  BY <1>1, <1>2, <1>3 DEF ForwardersInv

\* A process runs one of the forwarders; the others stand still.
LEMMA ForwardersNextInv == ForwardersInv /\ [Next]_vars => ForwardersInv'
<1> SUFFICES ASSUME ForwardersInv, [Next]_vars PROVE ForwardersInv'
  OBVIOUS
<1>1. [RelaysNext]_relayVars /\ [UdpNext]_udpVars /\ [DnsNext]_dnsVars
  BY DEF Next, vars
<1> QED
  BY <1>1, NextRelaysInv, NextUdpInv, NextDnsInv DEF ForwardersInv

\* The inductive invariant of the forwarders: each connection's, datagram's and query's
\* bookkeeping agrees with what was copied, handed on and fetched.
THEOREM ForwardersInvariant == Spec => []ForwardersInv
BY ForwardersStartInv, ForwardersNextInv, PTL DEF Spec

(***************************************************************************)
(* The relay's promise: what ended first was carried whole.                *)
(***************************************************************************)
THEOREM StreamsWhole == Spec => []StreamWhole
<1>1. ForwardersInv => StreamWhole
  BY RelaysInvImplies DEF ForwardersInv
<1> QED
  BY <1>1, ForwardersInvariant, PTL

(***************************************************************************)
(* socat's answers, late and repeated ones too, go to their clients.       *)
(***************************************************************************)
THEOREM AnswersReturn == Spec => []AnswersGoHome
<1>1. ForwardersInv => AnswersGoHome
  BY UdpInvImplies DEF ForwardersInv
<1> QED
  BY <1>1, ForwardersInvariant, PTL

(***************************************************************************)
(* A session in socat's table is served while the forwarder is on.         *)
(***************************************************************************)
THEOREM SessionsServed == Spec => []SessionServed
<1>1. ForwardersInv => SessionServed
  BY UdpInvImplies DEF ForwardersInv
<1> QED
  BY <1>1, ForwardersInvariant, PTL

(***************************************************************************)
(* A send on a closed channel needs the forwarder's own closing.           *)
(***************************************************************************)
THEOREM NoEarlyPanic == Spec => []PanicsAtEndOnly
<1>1. ForwardersInv => PanicsAtEndOnly
  BY UdpInvImplies DEF ForwardersInv
<1> QED
  BY <1>1, ForwardersInvariant, PTL

(***************************************************************************)
(* The cache never answers with addresses older than it may.               *)
(***************************************************************************)
THEOREM CacheFresh == Spec => []AnswersFresh
<1>1. ForwardersInv => AnswersFresh
  BY DEF ForwardersInv, DnsInv
<1> QED
  BY <1>1, ForwardersInvariant, PTL
=============================================================================
