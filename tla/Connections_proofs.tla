------------------------- MODULE Connections_proofs -------------------------
(***************************************************************************)
(* What holds of every connection of the listener, for any number of them  *)
(* at a time and any amount of data: its Flow is recorded once and with    *)
(* final counters, and a tunnel carries what was sent and nothing else.    *)
(*                                                                         *)
(* A step moves one connection, so the invariant is one of a connection:   *)
(* where its handler is says what there is of a Flow and of copiers, and   *)
(* how much was read says what the far end has.  The one step that moves   *)
(* them all, the panic of a transparent handler, leaves them as at first.  *)
(***************************************************************************)
EXTENDS Connections, SequenceTheorems, TLAPS

USE ConnectionsAssumption DEF ConnectionsAssumption

\* Where a handler is, with what that says of its Flow, of interception and copiers, ...
Booked(c) ==
  /\ at[c] \in Places /\ kind[c] \in Kinds
  /\ mitm[c] \in {"no", "try", "on", "refused", "failed"}
  /\ DOMAIN copier[c] = Dirs
  /\ \/ flow[c] = NoFlow
     \/ DOMAIN flow[c] = {"dones", "bytes"} /\ flow[c].dones \in {0, 1}
  /\ at[c] \in {"idle", "reading", "intercept", "udp"} => flow[c] = NoFlow
  /\ at[c] = "idle" => kind[c] = "plain"
  /\ at[c] = "intercept" => mitm[c] = "try" /\ kind[c] \in {"connect", "tproxy"}
  /\ at[c] \in {"hooks", "send", "head"} =>
       flow[c].dones = 0 /\ (kind[c] = "plain" \/ mitm[c] = "on")
  /\ at[c] = "dial" => IF kind[c] = "plain" THEN flow[c].dones = 0 ELSE flow[c] = NoFlow
  /\ at[c] = "relay" => flow[c].dones # 1
  /\ at[c] = "ended" => flow[c].dones # 0
  /\ flow[c].dones = 1 => /\ at[c] = "ended" /\ flow[c].bytes = counted[c]
                         /\ \A d \in Dirs : copier[c][d] \in {"off", "ended", "closed"}
  /\ at[c] \notin {"relay", "ended"} => \A d \in Dirs : copier[c][d] = "off"

\* ... and about the data.  The proxy's own reply leads a client's.
Lead(c, d) == IF d = "down" /\ kind[c] # "tproxy" THEN 1 ELSE 0

\* The far end has the first n of what was sent, ...
Exact(c, d, n) ==
  /\ Len(got[c][d]) = n + Lead(c, d)
  /\ \A i \in 1 .. n : got[c][d][i + Lead(c, d)] = i
  /\ Lead(c, d) = 1 => got[c][d][1] = 0

\* ... and as long as it is there, all that was read, but for what the copier holds.
Whole(c, d) ==
  \/ /\ got[c][d] = <<>>
     /\ peer[c][Other(d)] = "closed" \/ copier[c][d] \notin {"reading", "writing"}
  \/ \E n \in 0 .. read[c][d] :
       /\ Exact(c, d, n)
       /\ peer[c][Other(d)] # "closed" =>
            /\ copier[c][d] = "reading" => n = read[c][d]
            /\ copier[c][d] = "writing" => n + 1 = read[c][d] /\ held[c][d] = read[c][d]

Fresh(c) == \A d \in Dirs : got[c][d] = <<>> /\ read[c][d] = 0

DataTypes(c) ==
  /\ DOMAIN peer[c] = Dirs
  /\ sent[c] \in [Dirs -> Nat] /\ read[c] \in [Dirs -> Nat] /\ held[c] \in [Dirs -> Nat]
  /\ got[c] \in [Dirs -> Seq(Nat)]
  /\ \A d \in Dirs : read[c][d] <= sent[c][d]

Carried(c) ==
  /\ DataTypes(c)
  /\ at[c] = "reading" \/ (at[c] = "intercept" /\ kind[c] = "tproxy") => Fresh(c)
  /\ Blind(c) => IF at[c] \in {"relay", "ended"} THEN \A d \in Dirs : Whole(c, d) ELSE Fresh(c)

Domains ==
  /\ DOMAIN at = Conns /\ DOMAIN kind = Conns /\ DOMAIN mitm = Conns /\ DOMAIN flow = Conns
  /\ DOMAIN peer = Conns /\ DOMAIN sent = Conns /\ DOMAIN read = Conns /\ DOMAIN got = Conns
  /\ DOMAIN copier = Conns /\ DOMAIN held = Conns /\ DOMAIN counted = Conns

ConnInv == Domains /\ \A c \in Conns : Booked(c) /\ Carried(c)

Same(e) ==
  /\ at'[e] = at[e] /\ kind'[e] = kind[e] /\ mitm'[e] = mitm[e] /\ flow'[e] = flow[e]
  /\ peer'[e] = peer[e] /\ sent'[e] = sent[e] /\ read'[e] = read[e] /\ got'[e] = got[e]
  /\ copier'[e] = copier[e] /\ held'[e] = held[e] /\ counted'[e] = counted[e]

\* Nothing is known of a connection that a step of another changes.
LEMMA Stays ==
  ASSUME NEW e \in Conns, Booked(e), Carried(e), Same(e)
  PROVE  Booked(e)' /\ Carried(e)'
<1>1. Booked(e)'
  BY DEF Booked, Same
<1>2. \A d \in Dirs : Whole(e, d) => Whole(e, d)'
  BY DEF Whole, Exact, Lead, Same
<1>3. Blind(e)' = Blind(e) /\ Fresh(e)' = Fresh(e)
  BY DEF Blind, Fresh, Same
<1>4. Carried(e)'
  BY <1>2, <1>3 DEF Carried, DataTypes, Same
<1> QED
  BY <1>1, <1>4

\* So a step keeps the invariant if it keeps that of the connection it moves.
LEMMA OneMoves ==
  ASSUME ConnInv, NEW c \in Conns, Domains', Booked(c)', Carried(c)',
         \A e \in Conns \ {c} : Same(e)
  PROVE  ConnInv'
BY Stays DEF ConnInv

\* A process that has ended has no connections left.
LEMMA ConnStart ==
  ASSUME at' = [c \in Conns |-> "idle"], kind' = [c \in Conns |-> "plain"],
         mitm' = [c \in Conns |-> "no"], peer' = [c \in Conns |-> Both("open")],
         sent' = [c \in Conns |-> Both(0)], read' = [c \in Conns |-> Both(0)],
         got' = [c \in Conns |-> Both(<<>>)], copier' = [c \in Conns |-> Both("off")],
         held' = [c \in Conns |-> Both(0)], counted' = [c \in Conns |-> Both(0)],
         flow' = [c \in Conns |-> NoFlow]
  PROVE  ConnInv'
<1>0. <<>> \in Seq(Nat)
  BY EmptySeq
<1>1. Domains'
  BY DEF Domains
<1>2. \A c \in Conns : Booked(c)'
  BY DEF Booked, Places, Kinds, Both, NoFlow
<1>3. \A c \in Conns : Carried(c)'
  BY <1>0 DEF Carried, DataTypes, Blind, Fresh, Both
<1> QED
  BY <1>1, <1>2, <1>3 DEF ConnInv

\* What the proxy writes itself, ...
LEMMA SayTyped ==
  ASSUME Domains, NEW c \in Conns, DataTypes(c), NEW d \in Dirs, Say(c, d)
  PROVE  got'[c] \in [Dirs -> Seq(Nat)]
<1>1. \A s \in Seq(Nat) : Append(s, 0) \in Seq(Nat)
  BY AppendProperties
<1>2. got[c] \in [Dirs -> Seq(Nat)]
  BY DEF DataTypes
<1>3. CASE got' = got
  BY <1>2, <1>3
<1>4. CASE got' = [got EXCEPT ![c][d] = Append(@, 0)]
  <2>1. got'[c] = [got[c] EXCEPT ![d] = Append(got[c][d], 0)]
    BY <1>4 DEF Domains
  <2>2. Append(got[c][d], 0) \in Seq(Nat)
    BY <1>1, <1>2
  <2> QED
    BY <1>2, <2>1, <2>2
<1> QED
  BY <1>3, <1>4 DEF Say

\* ... and what a read takes.
LEMMA ReadTyped ==
  ASSUME Domains, NEW c \in Conns, DataTypes(c), NEW d \in Dirs, NEW n \in Nat,
         read' = [read EXCEPT ![c][d] = n], n <= sent[c][d]
  PROVE  /\ read'[c] = [read[c] EXCEPT ![d] = n]
         /\ read'[c] \in [Dirs -> Nat]
         /\ \A e \in Dirs : read'[c][e] <= sent[c][e]
<1>1. read'[c] = [read[c] EXCEPT ![d] = n]
  BY DEF Domains
<1>2. read[c] \in [Dirs -> Nat] /\ \A e \in Dirs : read[c][e] <= sent[c][e]
  BY DEF DataTypes
<1> QED
  BY <1>1, <1>2

\* The handlers, from the request to the return (handleHTTP, handleSOCKS5, handleTProxy).
LEMMA HandleInv ==
  ASSUME ConnInv, NEW c \in Conns, Handle(c)
  PROVE  ConnInv'
<1>0. Domains /\ Booked(c) /\ Carried(c)
  BY DEF ConnInv
<1>s. /\ <<>> \in Seq(Nat)
      /\ \A s \in Seq(Nat) : Append(s, 0) \in Seq(Nat)
  BY EmptySeq, AppendProperties
<1>1. CASE TurnAway(c)
  <2>1. Domains' /\ \A e \in Conns \ {c} : Same(e)
    BY <1>0, <1>1 DEF TurnAway, Return, Goto, copies, Domains, Same
  <2>2. Booked(c)'
    BY <1>0, <1>1 DEF TurnAway, Return, Goto, copies, Domains, Booked, Places, Kinds,
           NoFlow, Both
  <2>3. Carried(c)'
    BY <1>0, <1>s, <1>1 DEF TurnAway, Return, Goto, copies, Domains, Carried, DataTypes,
           Fresh, Blind, Whole, Booked, Both
  <2> QED
    BY <2>1, <2>2, <2>3, OneMoves
<1>2. CASE ReadRequest(c)
  <2>1. Domains' /\ \A e \in Conns \ {c} : Same(e)
    BY <1>0, <1>2 DEF ReadRequest, Goto, copies, Domains, Same
  <2>2. Booked(c)'
    BY <1>0, <1>2 DEF ReadRequest, Goto, copies, Domains, Booked, Places, Kinds, NoFlow,
           NewFlow, Both
  <2>t. Domains /\ DataTypes(c)
    BY <1>0 DEF Carried
  <2>r. read'[c] \in [Dirs -> Nat] /\ \A e \in Dirs : read'[c][e] <= sent[c][e]
    <3>1. PICK n \in read[c]["up"] .. sent[c]["up"] : read' = [read EXCEPT ![c]["up"] = n]
      BY <1>2 DEF ReadRequest
    <3>2. n \in Nat /\ n <= sent[c]["up"] /\ "up" \in Dirs
      BY <2>t DEF DataTypes, Dirs
    <3> QED
      BY <2>t, <3>1, <3>2, ReadTyped
  <2>g. got' = got
    BY <1>2 DEF ReadRequest, Goto, copies
  <2>u. UNCHANGED << peer, sent, held >>
    BY <1>2 DEF ReadRequest, Goto, copies
  <2>3. DataTypes(c)'
    BY <2>t, <2>r, <2>g, <2>u DEF DataTypes
  <2>4. ~Blind(c)' /\ at'[c] \notin {"reading", "intercept"}
    BY <1>0, <1>2 DEF ReadRequest, Goto, copies, Domains, Booked, Blind
  <2>5. Carried(c)'
    BY <2>3, <2>4 DEF Carried
  <2> QED
    BY <2>1, <2>2, <2>5, OneMoves
<1>3. CASE ReadConnect(c)
  <2>1. Domains' /\ \A e \in Conns \ {c} : Same(e)
    BY <1>0, <1>3 DEF ReadConnect, Goto, Say, copies, Domains, Same
  <2>2. Booked(c)'
    BY <1>0, <1>3 DEF ReadConnect, Goto, Say, copies, Domains, Booked, Places, Kinds, NoFlow
  <2>t. Domains /\ DataTypes(c)
    BY <1>0 DEF Carried
  <2>r. read' = read
    BY <1>3 DEF ReadConnect, Goto, Say, copies
  <2>g. got'[c] \in [Dirs -> Seq(Nat)]
    <3>1. got' = got \/ Say(c, "down")
      BY <1>3 DEF ReadConnect
    <3> QED
      BY <2>t, <3>1, SayTyped DEF DataTypes, Dirs
  <2>u. UNCHANGED << peer, sent, held >>
    BY <1>3 DEF ReadConnect, Goto, Say, copies
  <2>3. DataTypes(c)'
    BY <2>t, <2>r, <2>g, <2>u DEF DataTypes
  <2>4. \/ ~Blind(c)' /\ at'[c] = "intercept" /\ kind'[c] = "connect"
        \/ Fresh(c)' /\ at'[c] = "dial"
    BY <1>0, <1>3 DEF ReadConnect, Goto, Say, copies, Domains, Booked, Carried, Blind, Fresh
  <2>5. Carried(c)'
    BY <2>3, <2>4 DEF Carried
  <2> QED
    BY <2>1, <2>2, <2>5, OneMoves
<1>4. CASE ReadSOCKS5(c)
  <2>1. Domains' /\ \A e \in Conns \ {c} : Same(e)
    BY <1>0, <1>4 DEF ReadSOCKS5, Goto, sockets, copies, Domains, Same
  <2>2. Booked(c)'
    BY <1>0, <1>4 DEF ReadSOCKS5, Goto, sockets, copies, Domains, Booked, Places, Kinds,
           NoFlow
  <2>3. Carried(c)'
    BY <1>0, <1>s, <1>4 DEF ReadSOCKS5, Goto, sockets, copies, Domains, Carried, DataTypes,
           Fresh, Blind, Whole, Booked
  <2> QED
    BY <2>1, <2>2, <2>3, OneMoves
<1>d. CASE DomainTooLong(c)
  BY <1>d, ConnStart DEF DomainTooLong, ProcessEnds
<1>5. CASE Associate(c)
  <2>1. Domains' /\ \A e \in Conns \ {c} : Same(e)
    BY <1>0, <1>5 DEF Associate, Goto, Say, copies, Domains, Same
  <2>2. Booked(c)'
    BY <1>0, <1>5 DEF Associate, Goto, Say, copies, Domains, Booked, Places, Kinds, NoFlow
  <2>3. Carried(c)'
    BY <1>0, <1>s, <1>5 DEF Associate, Goto, Say, copies, Domains, Carried, DataTypes,
           Fresh, Blind, Whole, Booked
  <2> QED
    BY <2>1, <2>2, <2>3, OneMoves
<1>6. CASE Dissociate(c)
  <2>1. Domains' /\ \A e \in Conns \ {c} : Same(e)
    BY <1>0, <1>6 DEF Dissociate, Return, Goto, copies, Domains, Same
  <2>2. Booked(c)'
    BY <1>0, <1>6 DEF Dissociate, Return, Goto, copies, Domains, Booked, Places, Kinds,
           NoFlow, Both
  <2>3. Carried(c)'
    BY <1>0, <1>s, <1>6 DEF Dissociate, Return, Goto, copies, Domains, Carried, DataTypes,
           Fresh, Blind, Whole, Booked, Both
  <2> QED
    BY <2>1, <2>2, <2>3, OneMoves
<1>7. CASE OriginRefuses(c)
  <2>1. Domains' /\ \A e \in Conns \ {c} : Same(e)
    BY <1>0, <1>7 DEF OriginRefuses, Goto, sockets, copies, Domains, Same
  <2>2. Booked(c)'
    BY <1>0, <1>7 DEF OriginRefuses, Goto, sockets, copies, Domains, Booked, Places, Kinds,
           NoFlow
  <2>3. Carried(c)'
    BY <1>0, <1>s, <1>7 DEF OriginRefuses, Goto, sockets, copies, Domains, Carried,
           DataTypes, Fresh, Blind, Whole, Booked
  <2> QED
    BY <2>1, <2>2, <2>3, OneMoves
<1>8. CASE HandshakeFails(c)
  <2>1. Domains' /\ \A e \in Conns \ {c} : Same(e)
    BY <1>0, <1>8 DEF HandshakeFails, Goto, Say, copies, Domains, Same
  <2>2. Booked(c)'
    BY <1>0, <1>8 DEF HandshakeFails, Goto, Say, copies, Domains, Booked, Places, Kinds,
           NoFlow
  <2>t. Domains /\ DataTypes(c)
    BY <1>0 DEF Carried
  <2>r. read'[c] \in [Dirs -> Nat] /\ \A e \in Dirs : read'[c][e] <= sent[c][e]
    <3>1. PICK n \in read[c]["up"] .. sent[c]["up"] : read' = [read EXCEPT ![c]["up"] = n]
      BY <1>8 DEF HandshakeFails
    <3>2. n \in Nat /\ n <= sent[c]["up"] /\ "up" \in Dirs
      BY <2>t DEF DataTypes, Dirs
    <3> QED
      BY <2>t, <3>1, <3>2, ReadTyped
  <2>g. got'[c] \in [Dirs -> Seq(Nat)]
    <3>1. got' = got \/ Say(c, "down")
      BY <1>8 DEF HandshakeFails
    <3> QED
      BY <2>t, <3>1, SayTyped DEF DataTypes, Dirs
  <2>u. UNCHANGED << peer, sent, held >>
    BY <1>8 DEF HandshakeFails, Goto, Say, copies
  <2>3. DataTypes(c)'
    BY <2>t, <2>r, <2>g, <2>u DEF DataTypes
  <2>4. ~Blind(c)' /\ at'[c] \notin {"reading", "intercept"}
    BY <1>0, <1>8 DEF HandshakeFails, Goto, Say, copies, Domains, Booked, Blind
  <2>5. Carried(c)'
    BY <2>3, <2>4 DEF Carried
  <2> QED
    BY <2>1, <2>2, <2>5, OneMoves
<1>9. CASE Intercepts(c)
  <2>1. Domains' /\ \A e \in Conns \ {c} : Same(e)
    BY <1>0, <1>9 DEF Intercepts, Goto, Say, StartRelay, Domains, Same
  <2>2. Booked(c)'
    BY <1>0, <1>9 DEF Intercepts, Goto, Say, StartRelay, Domains, Booked, Places, Kinds,
           NoFlow, NewFlow, Both
  <2>t. Domains /\ DataTypes(c)
    BY <1>0 DEF Carried
  <2>r. read' = read
    BY <1>9 DEF Intercepts, Goto, Say, StartRelay
  <2>g. got'[c] \in [Dirs -> Seq(Nat)]
    <3>1. got' = got \/ Say(c, "up")
      BY <1>9 DEF Intercepts
    <3> QED
      BY <2>t, <3>1, SayTyped DEF DataTypes, Dirs
  <2>u. UNCHANGED << peer, sent, held >>
    BY <1>9 DEF Intercepts, Goto, Say, StartRelay
  <2>3. DataTypes(c)'
    BY <2>t, <2>r, <2>g, <2>u DEF DataTypes
  <2>4. ~Blind(c)' /\ at'[c] \notin {"reading", "intercept"}
    BY <1>0, <1>9 DEF Intercepts, Goto, Say, StartRelay, Domains, Booked, Blind
  <2>5. Carried(c)'
    BY <2>3, <2>4 DEF Carried
  <2> QED
    BY <2>1, <2>2, <2>5, OneMoves
<1>10. CASE HooksReject(c)
  <2>1. Domains' /\ \A e \in Conns \ {c} : Same(e)
    BY <1>0, <1>10 DEF HooksReject, EmitDone, Return, Goto, copies, Domains, Same
  <2>2. Booked(c)'
    BY <1>0, <1>10 DEF HooksReject, EmitDone, Return, Goto, copies, Domains, Booked,
           Places, Kinds, NoFlow, Both
  <2>3. Carried(c)'
    BY <1>0, <1>s, <1>10 DEF HooksReject, EmitDone, Return, Goto, copies, Domains, Carried,
           DataTypes, Fresh, Blind, Whole, Booked, Both
  <2> QED
    BY <2>1, <2>2, <2>3, OneMoves
<1>11. CASE HooksAccept(c)
  <2>1. Domains' /\ \A e \in Conns \ {c} : Same(e)
    BY <1>0, <1>11 DEF HooksAccept, Goto, sockets, copies, Domains, Same
  <2>2. Booked(c)'
    BY <1>0, <1>11 DEF HooksAccept, Goto, sockets, copies, Domains, Booked, Places, Kinds,
           NoFlow
  <2>3. Carried(c)'
    BY <1>0, <1>s, <1>11 DEF HooksAccept, Goto, sockets, copies, Domains, Carried,
           DataTypes, Fresh, Blind, Whole, Booked
  <2> QED
    BY <2>1, <2>2, <2>3, OneMoves
<1>12. CASE URLAnswers(c)
  <2>1. Domains' /\ \A e \in Conns \ {c} : Same(e)
    BY <1>0, <1>12 DEF URLAnswers, Say, EmitDone, Return, Goto, copies, Domains, Same
  <2>2. Booked(c)'
    BY <1>0, <1>12 DEF URLAnswers, Say, EmitDone, Return, Goto, copies, Domains, Booked,
           Places, Kinds, NoFlow, Both
  <2>3. Carried(c)'
    BY <1>0, <1>s, <1>12 DEF URLAnswers, Say, EmitDone, Return, Goto, copies, Domains,
           Carried, DataTypes, Fresh, Blind, Whole, Booked, Both
  <2> QED
    BY <2>1, <2>2, <2>3, OneMoves
<1>13. CASE DialFails(c)
  <2>1. Domains' /\ \A e \in Conns \ {c} : Same(e)
    BY <1>0, <1>13 DEF DialFails, EmitDone, Return, Goto, copies, Domains, Same
  <2>2. Booked(c)'
    BY <1>0, <1>13 DEF DialFails, EmitDone, Return, Goto, copies, Domains, Booked, Places,
           Kinds, NoFlow, Both
  <2>3. Carried(c)'
    BY <1>0, <1>s, <1>13 DEF DialFails, EmitDone, Return, Goto, copies, Domains, Carried,
           DataTypes, Fresh, Blind, Whole, Booked, Both
  <2> QED
    BY <2>1, <2>2, <2>3, OneMoves
<1>14. CASE SendFails(c)
  <2>1. Domains' /\ \A e \in Conns \ {c} : Same(e)
    BY <1>0, <1>14 DEF SendFails, EmitDone, Return, Goto, copies, Domains, Same
  <2>2. Booked(c)'
    BY <1>0, <1>14 DEF SendFails, EmitDone, Return, Goto, copies, Domains, Booked, Places,
           Kinds, NoFlow, Both
  <2>3. Carried(c)'
    BY <1>0, <1>s, <1>14 DEF SendFails, EmitDone, Return, Goto, copies, Domains, Carried,
           DataTypes, Fresh, Blind, Whole, Booked, Both
  <2> QED
    BY <2>1, <2>2, <2>3, OneMoves
<1>15. CASE SendRequest(c)
  <2>1. Domains' /\ \A e \in Conns \ {c} : Same(e)
    BY <1>0, <1>15 DEF SendRequest, Goto, Say, copies, Domains, Same
  <2>2. Booked(c)'
    BY <1>0, <1>15 DEF SendRequest, Goto, Say, copies, Domains, Booked, Places, Kinds,
           NoFlow
  <2>3. Carried(c)'
    BY <1>0, <1>s, <1>15 DEF SendRequest, Goto, Say, copies, Domains, Carried, DataTypes,
           Fresh, Blind, Whole, Booked
  <2> QED
    BY <2>1, <2>2, <2>3, OneMoves
<1>16. CASE ReadHead(c)
  <2>1. Domains' /\ \A e \in Conns \ {c} : Same(e)
    BY <1>0, <1>16 DEF ReadHead, StartRelay, Goto, Domains, Same
  <2>2. Booked(c)'
    BY <1>0, <1>16 DEF ReadHead, StartRelay, Goto, Domains, Booked, Places, Kinds, NoFlow,
           Both
  <2>t. Domains /\ DataTypes(c)
    BY <1>0 DEF Carried
  <2>r. read'[c] \in [Dirs -> Nat] /\ \A e \in Dirs : read'[c][e] <= sent[c][e]
    <3>1. CASE read' = read
      BY <2>t, <3>1 DEF DataTypes
    <3>2. CASE read[c]["down"] < sent[c]["down"] /\ read' = [read EXCEPT ![c]["down"] = @ + 1]
      <4>1. read' = [read EXCEPT ![c]["down"] = read[c]["down"] + 1]
        BY <2>t, <3>2 DEF Domains
      <4>2. read[c]["down"] + 1 \in Nat /\ read[c]["down"] + 1 <= sent[c]["down"] /\ "down" \in Dirs
        BY <2>t, <3>2 DEF DataTypes, Dirs
      <4> QED
        BY <2>t, <4>1, <4>2, ReadTyped
    <3> QED
      BY <1>16, <3>1, <3>2 DEF ReadHead
  <2>g. got' = got
    BY <1>16 DEF ReadHead, StartRelay, Goto
  <2>u. UNCHANGED << peer, sent, held >>
    BY <1>16 DEF ReadHead, StartRelay, Goto
  <2>3. DataTypes(c)'
    BY <2>t, <2>r, <2>g, <2>u DEF DataTypes
  <2>4. ~Blind(c)' /\ at'[c] \notin {"reading", "intercept"}
    BY <1>0, <1>16 DEF ReadHead, StartRelay, Goto, Domains, Booked, Blind
  <2>5. Carried(c)'
    BY <2>3, <2>4 DEF Carried
  <2> QED
    BY <2>1, <2>2, <2>5, OneMoves
<1>17. CASE RelayReturns(c)
  <2>1. Domains' /\ \A e \in Conns \ {c} : Same(e)
    BY <1>0, <1>17 DEF RelayReturns, EmitDone, Return, Goto, copies, Domains, Same
  <2>2. Booked(c)'
    BY <1>0, <1>17 DEF RelayReturns, EmitDone, Return, Goto, copies, Domains, Booked,
           Places, Kinds, NoFlow, Both, Settled
  <2>t. Domains /\ DataTypes(c)
    BY <1>0 DEF Carried
  <2>r. read' = read
    BY <1>17 DEF RelayReturns, EmitDone, Return, Goto, copies
  <2>g. got' = got
    BY <1>17 DEF RelayReturns, EmitDone, Return, Goto, copies
  <2>u. UNCHANGED << peer, sent, held >>
    BY <1>17 DEF RelayReturns, EmitDone, Return, Goto, copies
  <2>3. DataTypes(c)'
    BY <2>t, <2>r, <2>g, <2>u DEF DataTypes
  <2>4. /\ UNCHANGED << kind, mitm, peer, read, got, copier, held >>
        /\ at[c] = "relay" /\ at'[c] = "ended"
    BY <1>0, <1>17 DEF RelayReturns, EmitDone, Return, Goto, copies, Domains
  <2>a. \A d \in Dirs : Whole(c, d) => Whole(c, d)'
    BY <2>4 DEF Whole, Exact, Lead
  <2>b. Blind(c)' = Blind(c)
    BY <2>4 DEF Blind
  <2>5. Carried(c)'
    BY <1>0, <2>3, <2>4, <2>a, <2>b DEF Carried
  <2> QED
    BY <2>1, <2>2, <2>5, OneMoves
<1>18. CASE InterceptAnswers(c)
  <2>1. CASE kind[c] = "connect"
    <3>1. /\ Say(c, "down") /\ Return(c) /\ at[c] = "intercept"
          /\ UNCHANGED << kind, mitm, flow, peer, sent, read, copies >>
      BY <1>18, <2>1 DEF InterceptAnswers
    <3>2. Domains' /\ \A e \in Conns \ {c} : Same(e)
      BY <1>0, <3>1 DEF Return, Goto, Say, copies, Domains, Same
    <3>3. Booked(c)'
      BY <1>0, <3>1 DEF Return, Goto, copies, Domains, Booked, Places, Kinds, NoFlow
    <3>4. got'[c] \in [Dirs -> Seq(Nat)]
      BY <1>0, <3>1, SayTyped DEF Carried, Dirs
    <3>5. DataTypes(c)'
      BY <1>0, <3>1, <3>4 DEF Carried, DataTypes, copies
    <3>6. ~Blind(c)' /\ at'[c] = "ended"
      BY <1>0, <2>1, <3>1 DEF Return, Goto, Domains, Booked, Blind
    <3>7. Carried(c)'
      BY <3>5, <3>6 DEF Carried
    <3> QED
      BY <3>2, <3>3, <3>7, OneMoves
  <2>2. CASE kind[c] # "connect"
    BY <1>18, <2>2, ConnStart DEF InterceptAnswers, ProcessEnds
  <2> QED
    BY <2>1, <2>2
<1>19. CASE Dial(c)
  <2>1. Domains' /\ \A e \in Conns \ {c} : Same(e)
    BY <1>0, <1>19 DEF Dial, Goto, Say, StartRelay, Domains, Same
  <2>2. Booked(c)'
    BY <1>0, <1>19 DEF Dial, Goto, StartRelay, Domains, Booked, Places, Kinds, NoFlow, Both
  <2>3. /\ UNCHANGED << kind, mitm, peer, sent, read, held >> /\ at[c] = "dial" /\ at'[c] = "relay"
        /\ \A d \in Dirs : copier'[c][d] = "reading"
        /\ Domains /\ DataTypes(c) /\ kind[c] \in Kinds
    BY <1>0, <1>19 DEF Dial, Goto, StartRelay, Domains, Both, Booked, Carried
  <2>4. got' = got \/ \E d \in Dirs : Say(c, d)
    BY <1>19 DEF Dial, Dirs
  <2>5. DataTypes(c)'
    <3>1. got'[c] \in [Dirs -> Seq(Nat)]
      BY <2>3, <2>4, SayTyped DEF DataTypes
    <3> QED
      BY <2>3, <3>1 DEF DataTypes
  <2>6. ASSUME Blind(c), NEW d \in Dirs PROVE Whole(c, d)'
    <3>1. Fresh(c) /\ kind[c] \in {"connect", "socks5", "tproxy"}
      BY <1>0, <2>3, <2>6 DEF Carried, Blind
    <3>2. read'[c][d] = 0 /\ got[c][d] = <<>> /\ 0 \in 0 .. 0
      BY <2>3, <3>1 DEF Fresh
    <3>3. CASE d = "up" \/ kind[c] = "tproxy"
      <4>1. got'[c][d] = <<>>
        BY <1>19, <2>3, <3>1, <3>2, <3>3 DEF Dial, Say, Domains, DataTypes, Dirs
      <4>2. Exact(c, d, 0)'
        BY <2>3, <3>3, <4>1 DEF Exact, Lead
      <4> QED
        BY <2>3, <3>2, <4>2 DEF Whole
    <3>4. CASE d = "down" /\ kind[c] # "tproxy"
      <4>1. Say(c, "down")
        BY <1>19, <3>1, <3>4 DEF Dial
      <4>2. CASE peer[c]["up"] = "closed"
        BY <2>3, <3>2, <3>4, <4>1, <4>2 DEF Say, Whole, Other
      <4>3. CASE peer[c]["up"] # "closed"
        <5>1. got' = [got EXCEPT ![c]["down"] = Append(@, 0)]
          BY <4>1, <4>3 DEF Say, Other
        <5>2. got'[c]["down"] = Append(<<>>, 0)
          BY <2>3, <3>2, <3>4, <5>1 DEF Domains, DataTypes
        <5>3. Len(got'[c]["down"]) = 1 /\ got'[c]["down"][1] = 0
          BY <5>2
        <5>4. Exact(c, d, 0)'
          BY <2>3, <3>4, <5>3 DEF Exact, Lead
        <5> QED
          BY <2>3, <3>2, <5>4 DEF Whole
      <4> QED
        BY <4>2, <4>3
    <3> QED
      BY <3>3, <3>4 DEF Dirs
  <2>7. Carried(c)'
    <3>1. Blind(c)' = Blind(c)
      BY <2>3 DEF Blind
    <3> QED
      BY <2>3, <2>5, <2>6, <3>1 DEF Carried
  <2> QED
    BY <2>1, <2>2, <2>7, OneMoves
<1> QED
  BY <1>1, <1>2, <1>3, <1>4, <1>d, <1>5, <1>6, <1>7, <1>8, <1>9, <1>10, <1>11, <1>12, <1>13,
         <1>14, <1>15, <1>16, <1>17, <1>18, <1>19 DEF Handle

\* A connection that arrives starts anew, in the place of one that has ended.
LEMMA ArriveInv ==
  ASSUME ConnInv, NEW c \in Conns, Arrive(c)
  PROVE  ConnInv'
<1>0. Domains /\ Booked(c) /\ Carried(c)
  BY DEF ConnInv
<1>1. PICK k \in Kinds, m \in {"no", "try"} : Accept(c, k, m)
  BY DEF Arrive
<1>2. Domains' /\ \A e \in Conns \ {c} : Same(e)
  BY <1>0, <1>1 DEF Accept, Goto, Domains, Same
<1>3. /\ kind'[c] = k /\ mitm'[c] = m /\ peer'[c] = Both("open") /\ sent'[c] = Both(0) /\ read'[c] = Both(0)
      /\ got'[c] = Both(<<>>) /\ copier'[c] = Both("off") /\ held'[c] = Both(0) /\ flow'[c] = NoFlow
      /\ m = "try" => k \in {"connect", "tproxy"}
      /\ at'[c] = IF k = "tproxy" THEN (IF m = "try" THEN "intercept" ELSE "dial") ELSE "reading"
  BY <1>0, <1>1 DEF Accept, Goto, Domains
<1>4. Booked(c)'
  BY <1>3 DEF Booked, Places, Kinds, NoFlow, Both
<1>5. Fresh(c)' /\ DataTypes(c)'
  <2>1. <<>> \in Seq(Nat)
    BY EmptySeq
  <2> QED
    BY <1>3, <2>1 DEF Fresh, DataTypes, Both
<1>6. Carried(c)'
  BY <1>3, <1>5 DEF Carried
<1> QED
  BY <1>2, <1>4, <1>6, OneMoves

\* relay's copiers: what was read is held until it is written, and written once.
LEMMA CopyInv ==
  ASSUME ConnInv, NEW c \in Conns, NEW d \in Dirs, Copy(c, d)
  PROVE  ConnInv'
<1>0. Domains /\ Booked(c) /\ Carried(c) /\ DataTypes(c)
  BY DEF ConnInv, Carried
<1>a. UNCHANGED << at, kind, mitm, flow, peer, sent >>
  BY DEF Copy, CopyRead, CopyWrite, CopyClose, handler
<1>b. Domains' /\ \A e \in Conns \ {c} : Same(e)
  BY <1>0 DEF Copy, CopyRead, CopyWrite, CopyClose, Ends, handler, Domains, Same
<1>c. Blind(c)' = Blind(c)
  BY <1>a DEF Blind
<1>d. at[c] \in {"relay", "ended"}
  BY <1>0 DEF Copy, CopyRead, CopyWrite, CopyClose, Booked
<1>1. Booked(c)'
  <2>1. flow[c].dones # 1 \/ (counted' = counted /\ copier'[c][d] \in {"ended", "closed"})
    BY <1>0 DEF Copy, CopyRead, CopyWrite, CopyClose, Ends, Booked, Domains
  <2>2. DOMAIN copier'[c] = Dirs /\ \A e \in Dirs \ {d} : copier'[c][e] = copier[c][e]
    BY <1>0 DEF Copy, CopyRead, CopyWrite, CopyClose, Ends, Booked, Domains
  <2> QED
    BY <1>0, <1>a, <1>d, <2>1, <2>2 DEF Booked
\* the other direction is not touched
<1>2. ASSUME NEW e \in Dirs \ {d}, Whole(c, e) PROVE Whole(c, e)'
  <2>1. got'[c][e] = got[c][e] /\ read'[c][e] = read[c][e] /\ held'[c][e] = held[c][e]
        /\ copier'[c][e] = copier[c][e]
    BY <1>0 DEF Copy, CopyRead, CopyWrite, CopyClose, Ends, Domains, DataTypes, Booked
  <2> QED
    BY <1>2, <1>a, <2>1 DEF Whole, Exact, Lead
<1>3. CASE CopyRead(c, d) /\ copier'[c][d] = "writing"
  <2>1. /\ copier[c][d] = "reading" /\ read[c][d] < sent[c][d] /\ got' = got
        /\ read' = [read EXCEPT ![c][d] = read[c][d] + 1]
        /\ held' = [held EXCEPT ![c][d] = read[c][d] + 1]
    BY <1>0, <1>3 DEF CopyRead, Ends, Domains, Booked
  <2>2. read[c][d] \in Nat /\ read[c][d] + 1 \in Nat /\ read[c][d] + 1 <= sent[c][d]
    BY <1>0, <2>1 DEF DataTypes
  <2>3. read'[c] \in [Dirs -> Nat] /\ \A e \in Dirs : read'[c][e] <= sent[c][e]
    BY <1>0, <2>1, <2>2, ReadTyped
  <2>4. read'[c][d] = read[c][d] + 1 /\ held'[c][d] = read[c][d] + 1 /\ held'[c] \in [Dirs -> Nat]
    BY <1>0, <2>1, <2>2 DEF Domains, DataTypes
  <2>5. DataTypes(c)'
    BY <1>0, <1>a, <2>1, <2>3, <2>4 DEF DataTypes
  <2>6. Whole(c, d) => Whole(c, d)'
    <3>1. CASE got[c][d] = <<>> /\ peer[c][Other(d)] = "closed"
      BY <1>a, <2>1, <3>1 DEF Whole
    <3>2. ASSUME NEW n \in 0 .. read[c][d], Exact(c, d, n),
                 peer[c][Other(d)] # "closed" => n = read[c][d]
          PROVE  Whole(c, d)'
      <4>1. Exact(c, d, n)' /\ n \in 0 .. read'[c][d]
        BY <1>a, <2>1, <2>2, <2>4, <3>2 DEF Exact, Lead
      <4> QED
        BY <1>3, <1>a, <2>4, <3>2, <4>1 DEF Whole
    <3> QED
      BY <2>1, <3>1, <3>2 DEF Whole
  <2>7. Carried(c)'
    BY <1>0, <1>2, <1>a, <1>c, <1>d, <2>5, <2>6 DEF Carried
  <2> QED
    BY <1>1, <1>b, <2>7, OneMoves
<1>4. CASE CopyWrite(c, d) /\ copier'[c][d] = "reading"
  <2>1. /\ copier[c][d] = "writing" /\ UNCHANGED << read, held >>
        /\ got' = IF peer[c][Other(d)] = "closed" THEN got
                  ELSE [got EXCEPT ![c][d] = Append(got[c][d], held[c][d])]
    BY <1>0, <1>4 DEF CopyWrite, Ends, Domains, Booked, DataTypes
  <2>2. held[c][d] \in Nat /\ got[c][d] \in Seq(Nat) /\ read[c][d] \in Nat
    BY <1>0 DEF DataTypes
  <2>3. /\ Append(got[c][d], held[c][d]) \in Seq(Nat)
        /\ Len(Append(got[c][d], held[c][d])) = Len(got[c][d]) + 1
        /\ \A i \in 1 .. Len(got[c][d]) : Append(got[c][d], held[c][d])[i] = got[c][d][i]
        /\ Append(got[c][d], held[c][d])[Len(got[c][d]) + 1] = held[c][d]
        /\ Len(got[c][d]) \in Nat
    BY <2>2, AppendProperties, LenProperties
  <2>4. got'[c] \in [Dirs -> Seq(Nat)]
    <3>1. CASE got' = got
      BY <1>0, <3>1 DEF DataTypes
    <3>2. CASE got' = [got EXCEPT ![c][d] = Append(got[c][d], held[c][d])]
      <4>1. got'[c] = [got[c] EXCEPT ![d] = Append(got[c][d], held[c][d])]
        BY <1>0, <3>2 DEF Domains
      <4> QED
        BY <1>0, <2>3, <4>1 DEF DataTypes
    <3> QED
      BY <2>1, <3>1, <3>2
  <2>5. DataTypes(c)'
    BY <1>0, <1>a, <2>1, <2>4 DEF DataTypes
  <2>6. Whole(c, d) => Whole(c, d)'
    <3>1. CASE peer[c][Other(d)] = "closed"
      <4>1. got' = got
        BY <2>1, <3>1
      <4> QED
        BY <1>a, <2>1, <3>1, <4>1 DEF Whole, Exact, Lead
    <3>2. CASE peer[c][Other(d)] # "closed"
      <4>1. got'[c][d] = Append(got[c][d], held[c][d])
        BY <1>0, <2>1, <3>2 DEF Domains, DataTypes
      <4>2. ASSUME NEW n \in 0 .. read[c][d], Exact(c, d, n), n + 1 = read[c][d], held[c][d] = read[c][d]
            PROVE  Whole(c, d)'
        <5> DEFINE g == got'[c][d]
        <5>1. /\ Len(g) = Len(got[c][d]) + 1 /\ g[Len(got[c][d]) + 1] = n + 1
              /\ \A i \in 1 .. Len(got[c][d]) : g[i] = got[c][d][i]
          BY <2>3, <4>1, <4>2
        <5>2. Lead(c, d)' = Lead(c, d) /\ Lead(c, d) \in {0, 1}
          BY <1>a DEF Lead
        <5>3. Len(got[c][d]) = n + Lead(c, d) /\ (\A i \in 1 .. n : got[c][d][i + Lead(c, d)] = i)
              /\ (Lead(c, d) = 1 => got[c][d][1] = 0)
          BY <4>2 DEF Exact
        <5> HIDE DEF g
        <5>4. Len(g) = n + 1 + Lead(c, d)
          BY <5>1, <5>2, <5>3
        <5>5. \A i \in 1 .. n + 1 : g[i + Lead(c, d)] = i
          <6> SUFFICES ASSUME NEW i \in 1 .. n + 1 PROVE g[i + Lead(c, d)] = i
            OBVIOUS
          <6>1. CASE i = n + 1
            BY <5>1, <5>2, <5>3, <6>1
          <6>2. CASE i \in 1 .. n
            <7>1. i + Lead(c, d) \in 1 .. Len(got[c][d])
              BY <5>2, <5>3, <6>2
            <7> QED
              BY <5>1, <5>3, <6>2, <7>1
          <6> QED
            BY <6>1, <6>2
        <5>6. Lead(c, d) = 1 => g[1] = 0
          BY <5>1, <5>3
        <5>7. Exact(c, d, n + 1)'
          BY <5>2, <5>4, <5>5, <5>6 DEF Exact, g
        <5>8. n + 1 \in 0 .. read'[c][d] /\ n + 1 = read'[c][d]
          BY <2>1, <2>2, <4>2
        <5> QED
          BY <1>4, <5>7, <5>8 DEF Whole
      <4> QED
        BY <2>1, <3>2, <4>2 DEF Whole
    <3> QED
      BY <3>1, <3>2
  <2>7. Carried(c)'
    BY <1>0, <1>2, <1>a, <1>c, <1>d, <2>5, <2>6 DEF Carried
  <2> QED
    BY <1>1, <1>b, <2>7, OneMoves
<1>5. CASE copier'[c][d] \notin {"reading", "writing"}
  <2>1. UNCHANGED << got, read, held >>
    BY <1>0, <1>5 DEF Copy, CopyRead, CopyWrite, CopyClose, Ends, Domains, Booked
  <2>2. Whole(c, d) => Whole(c, d)'
    BY <1>5, <1>a, <2>1 DEF Whole, Exact, Lead
  <2>3. DataTypes(c)'
    BY <1>0, <1>a, <2>1 DEF DataTypes
  <2>4. Carried(c)'
    BY <1>0, <1>2, <1>a, <1>c, <1>d, <2>2, <2>3 DEF Carried
  <2> QED
    BY <1>1, <1>b, <2>4, OneMoves
<1>6. \/ CopyRead(c, d) /\ copier'[c][d] = "writing"
      \/ CopyWrite(c, d) /\ copier'[c][d] = "reading"
      \/ copier'[c][d] \notin {"reading", "writing"}
  BY <1>0 DEF Copy, CopyRead, CopyWrite, CopyClose, Ends, Domains, Booked
<1> QED
  BY <1>3, <1>4, <1>d, <1>5, <1>6

\* What the peers do: data to come, or its end.
LEMMA PeerInv ==
  ASSUME ConnInv, NEW c \in Conns, NEW d \in Dirs, Peer(c, d)
  PROVE  ConnInv'
<1>0. Domains /\ Booked(c) /\ Carried(c) /\ DataTypes(c)
  BY DEF ConnInv, Carried
<1>a. UNCHANGED << at, kind, mitm, flow, read, got, copier, held, counted >>
  BY DEF Peer, PeerSends, PeerCloses, handler, copies
<1>b. Domains' /\ \A e \in Conns \ {c} : Same(e)
  BY <1>0, <1>a DEF Peer, PeerSends, PeerCloses, Domains, Same
<1>1. Booked(c)'
  BY <1>0, <1>a DEF Booked
<1>2. sent'[c] \in [Dirs -> Nat] /\ \A e \in Dirs : sent[c][e] <= sent'[c][e]
  <2>1. CASE PeerSends(c, d)
    <3>1. sent'[c] = [sent[c] EXCEPT ![d] = sent[c][d] + 1]
      BY <1>0, <2>1 DEF PeerSends, Domains
    <3>2. sent[c] \in [Dirs -> Nat]
      BY <1>0 DEF DataTypes
    <3> QED
      BY <3>1, <3>2
  <2>2. CASE PeerCloses(c, d)
    BY <1>0, <2>2 DEF PeerCloses, DataTypes
  <2> QED
    BY <2>1, <2>2 DEF Peer
<1>3. DOMAIN peer'[c] = Dirs /\ \A e \in Dirs : peer[c][e] = "closed" => peer'[c][e] = "closed"
  BY <1>0 DEF Peer, PeerSends, PeerCloses, Domains, DataTypes
<1>4. DataTypes(c)'
  <2>1. \A e \in Dirs : read[c][e] \in Nat /\ sent[c][e] \in Nat /\ sent'[c][e] \in Nat /\ read[c][e] <= sent[c][e]
    BY <1>0, <1>2 DEF DataTypes
  <2>2. \A e \in Dirs : read'[c][e] <= sent'[c][e]
    BY <1>2, <1>a, <2>1
  <2> QED
    BY <1>0, <1>2, <1>3, <1>a, <2>2 DEF DataTypes
<1>5. ASSUME NEW e \in Dirs, Whole(c, e) PROVE Whole(c, e)'
  <2>1. Other(e) \in Dirs
    BY DEF Other, Dirs
  <2> QED
    BY <1>3, <1>5, <1>a, <2>1 DEF Whole, Exact, Lead
<1>6. Blind(c)' = Blind(c) /\ Fresh(c)' = Fresh(c)
  BY <1>a DEF Blind, Fresh
<1>7. Carried(c)'
  BY <1>0, <1>4, <1>5, <1>6, <1>a DEF Carried
<1> QED
  BY <1>1, <1>7, <1>b, OneMoves

\* Before the first connection.
LEMMA ConnInitInv == Init => ConnInv
<1> SUFFICES ASSUME Init PROVE ConnInv
  OBVIOUS
<1>0. <<>> \in Seq(Nat)
  BY EmptySeq
<1>1. Domains
  BY DEF Init, Domains
<1>2. \A c \in Conns : Booked(c)
  <2> SUFFICES ASSUME NEW c \in Conns PROVE Booked(c)
    OBVIOUS
  <2>1. /\ at[c] = "idle" /\ kind[c] = "plain" /\ mitm[c] = "no"
        /\ copier[c] = Both("off") /\ flow[c] = NoFlow
    BY DEF Init
  <2> QED
    BY <2>1 DEF Booked, Places, Kinds, Both, NoFlow
<1>3. \A c \in Conns : Carried(c)
  <2> SUFFICES ASSUME NEW c \in Conns PROVE Carried(c)
    OBVIOUS
  <2>1. /\ at[c] = "idle" /\ kind[c] = "plain" /\ peer[c] = Both("open") /\ sent[c] = Both(0)
        /\ read[c] = Both(0) /\ got[c] = Both(<<>>) /\ held[c] = Both(0)
    BY DEF Init
  <2>2. DataTypes(c)
    BY <1>0, <2>1 DEF DataTypes, Both
  <2>3. Fresh(c)
    BY <2>1 DEF Fresh, Both
  <2> QED
    BY <2>1, <2>2, <2>3 DEF Carried
<1> QED
  BY <1>1, <1>2, <1>3 DEF ConnInv

\* Every step keeps the invariant.
LEMMA ConnNextInv == ConnInv /\ [Next]_vars => ConnInv'
<1> SUFFICES ASSUME ConnInv, [Next]_vars PROVE ConnInv'
  OBVIOUS
<1>1. CASE Next
  BY <1>1, ArriveInv, HandleInv, CopyInv, PeerInv DEF Next
<1>2. CASE UNCHANGED vars
  <2>1. Domains' /\ \A e \in Conns : Same(e)
    BY <1>2 DEF vars, handler, sockets, copies, ConnInv, Domains, Same
  <2> QED
    BY <2>1, Stays DEF ConnInv
<1> QED
  BY <1>1, <1>2

\* Wherever each handler is, and whatever the others do, its Flow, its copiers and what it has
\* read and written agree.
THEOREM ConnectionsInvariant == Spec => []ConnInv
BY ConnInitInv, ConnNextInv, PTL DEF Spec

\* A Flow gets to emitDone exactly once on every path through handleHTTP: a hook's no, a URL
\* action, a failed dial, a failed write, or the end of the relay.
THEOREM FlowsEndOnce == Spec => []FlowOnce
<1>1. ConnInv => FlowOnce
  <2> SUFFICES ASSUME ConnInv, NEW c \in Conns
               PROVE  flow[c].dones <= 1 /\ (at[c] = "ended" => flow[c].dones # 0)
    BY DEF FlowOnce
  <2>1. Booked(c)
    BY DEF ConnInv
  <2>2. flow[c].dones \in {-1, 0, 1}
    BY <2>1 DEF Booked, NoFlow
  <2> QED
    BY <2>1, <2>2 DEF Booked
<1> QED
  BY <1>1, ConnectionsInvariant, PTL

\* The counters of a recorded Flow are final: relay has waited for both its copiers
\* (http.go), so no later step of one changes them.
THEOREM RecordsAreSettled == Spec => []RecordSettled
<1>1. ConnInv => RecordSettled
  BY DEF ConnInv, Booked, RecordSettled
<1> QED
  BY <1>1, ConnectionsInvariant, PTL

\* The pointwise form of the invariant is the property's.
LEMMA ExactMeans ==
  ASSUME NEW c \in Conns, NEW d \in Dirs, got[c][d] \in Seq(Nat), NEW n \in Nat, Exact(c, d, n)
  PROVE  got[c][d] = IF d = "down" /\ kind[c] # "tproxy" THEN <<0>> \o Counting(n) ELSE Counting(n)
<1> DEFINE g == got[c][d]
           k == Counting(n)
<1>1. k \in Seq(Nat) /\ Len(k) = n /\ \A i \in 1 .. n : k[i] = i
  BY DEF Counting
<1>2. g \in Seq(Nat) /\ Len(g) \in Nat
  BY LenProperties
<1>3. CASE d = "down" /\ kind[c] # "tproxy"
  <2>1. Len(g) = n + 1 /\ g[1] = 0 /\ \A i \in 1 .. n : g[i + 1] = i
    BY <1>3 DEF Exact, Lead
  <2>2. <<0>> \in Seq(Nat) /\ Len(<<0>>) = 1 /\ <<0>>[1] = 0
    OBVIOUS
  <2> HIDE DEF g, k
  <2>3. /\ <<0>> \o k \in Seq(Nat) /\ Len(<<0>> \o k) = n + 1
        /\ \A i \in 1 .. 1 + n : (<<0>> \o k)[i] = IF i <= 1 THEN <<0>>[i] ELSE k[i - 1]
    BY <1>1, <2>2, ConcatProperties
  <2>4. \A i \in 1 .. n + 1 : g[i] = (<<0>> \o k)[i]
    <3> SUFFICES ASSUME NEW i \in 1 .. n + 1 PROVE g[i] = (<<0>> \o k)[i]
      OBVIOUS
    <3>1. CASE i = 1
      BY <2>1, <2>2, <2>3, <3>1
    <3>2. CASE i # 1
      <4>1. i - 1 \in 1 .. n
        BY <3>2
      <4>2. g[(i - 1) + 1] = i - 1
        BY <2>1, <4>1
      <4> QED
        BY <1>1, <2>3, <3>2, <4>1, <4>2
    <3> QED
      BY <3>1, <3>2
  <2>5. g = <<0>> \o k
    BY <1>2, <2>1, <2>3, <2>4, SeqEqual
  <2> QED
    BY <1>3, <2>5 DEF g, k
<1>4. CASE ~(d = "down" /\ kind[c] # "tproxy")
  <2>1. Len(g) = n /\ \A i \in 1 .. n : g[i + 0] = i
    BY <1>4 DEF Exact, Lead
  <2> HIDE DEF g, k
  <2>2. \A i \in 1 .. n : g[i] = k[i]
    BY <1>1, <2>1
  <2>3. g = k
    BY <1>1, <1>2, <2>1, <2>2, SeqEqual
  <2> QED
    BY <1>4, <2>3 DEF g, k
<1> QED
  BY <1>3, <1>4

\* A tunnel that was never intercepted, or whose origin refused it, gives each side the other's
\* bytes from the first on, in order and without a gap, behind the one reply of the proxy.
THEOREM TunnelsAreExact == Spec => []TunnelExact
<1>1. ASSUME ConnInv PROVE TunnelExact
  <2> SUFFICES ASSUME NEW c \in Conns, NEW d \in Dirs, Blind(c), got[c][d] # <<>>
               PROVE  \E n \in 0 .. sent[c][d] :
                        got[c][d] = IF d = "down" /\ kind[c] # "tproxy" THEN <<0>> \o Counting(n) ELSE Counting(n)
    BY DEF TunnelExact
  <2>1. Carried(c) /\ DataTypes(c)
    BY <1>1 DEF ConnInv, Carried
  <2>2. Whole(c, d)
    BY <2>1 DEF Carried, Fresh
  <2>3. PICK n \in 0 .. read[c][d] : Exact(c, d, n)
    BY <2>2 DEF Whole
  <2>4. read[c][d] \in Nat /\ sent[c][d] \in Nat /\ read[c][d] <= sent[c][d] /\ got[c][d] \in Seq(Nat)
    BY <2>1 DEF DataTypes
  <2>5. n \in Nat /\ n \in 0 .. sent[c][d]
    BY <2>3, <2>4
  <2> QED
    BY <2>3, <2>4, <2>5, ExactMeans
<1> QED
  BY <1>1, ConnectionsInvariant, PTL
=============================================================================
