------------------------------ MODULE LogRing ------------------------------
(***************************************************************************)
(* The dashboard's log (web/logs.go) and its event stream (handleLogs in   *)
(* web/handlers.go): a ring of the latest entries, written to by every     *)
(* subsystem, and the channels of the clients that stream it.              *)
(*                                                                         *)
(* An entry is its number. The ring's lock covers the ring and the list of *)
(* listeners; a writer goes on without it, to the log file first and then  *)
(* to the listeners it found, one after the other. A client is one request.*)
(***************************************************************************)
EXTENDS Integers, SequencesExt

CONSTANTS Writers,    \* goroutines that log
          Clients,    \* requests of /api/logs
          MaxSize,    \* maxSize (1000)
          Replayed,   \* what handleLogs asks Recent for (50)
          ChanCap,    \* capacity of a listener's channel (64)
          MaxEntries  \* bound: entries ever written

ASSUME LogRingAssumption ==
  /\ MaxSize \in Nat \ {0} /\ Replayed \in Nat \ {0}
  /\ ChanCap \in Nat \ {0} /\ MaxEntries \in Nat

VARIABLES
  entries,    \* the ring
  listeners,  \* whose channels are listed
  last,       \* the latest entry
  writing,    \* Write of each writer: where it is, its entry, who is left to send to
  phase,      \* handleLogs of each client
  index,      \* the index its unsubscribe has captured
  chan,       \* its channel
  shown,      \* entries it was sent
  since,      \* the latest entry when it subscribed
  full        \* its channel was full once, and an entry lost

ring   == <<entries, listeners, last>>
client == <<phase, index, since>>
stream == <<chan, shown, full>>
ringVars == <<ring, writing, client, stream>>

Entry == 1 .. MaxEntries

Idle == [at |-> "idle", entry |-> 0, rest |-> <<>>]

RingTypeOK ==
  /\ entries \in BoundedSeq(Entry, MaxSize)
  /\ listeners \in BoundedSeq(Clients, Cardinality(Clients))
  /\ IsInjective(listeners)
  /\ last \in 0 .. MaxEntries
  /\ \A w \in Writers : /\ writing[w].at \in {"idle", "file", "sending"}
                        /\ writing[w].entry \in 0 .. last
                        /\ ToSet(writing[w].rest) \subseteq Clients
  /\ phase \in [Clients -> {"off", "subscribed", "streaming", "gone"}]
  /\ index \in [Clients -> 0 .. Cardinality(Clients)]
  /\ \A c \in Clients : Len(chan[c]) <= ChanCap
  /\ shown \in [Clients -> SUBSET Entry]
  /\ since \in [Clients -> 0 .. MaxEntries]
  /\ full \in [Clients -> BOOLEAN]

RingInit ==
  /\ entries = <<>> /\ listeners = <<>> /\ last = 0
  /\ writing = [w \in Writers |-> Idle]
  /\ phase = [c \in Clients |-> "off"]
  /\ index = [c \in Clients |-> 0]
  /\ chan = [c \in Clients |-> <<>>]
  /\ shown = [c \in Clients |-> {}]
  /\ since = [c \in Clients |-> 0]
  /\ full = [c \in Clients |-> FALSE]

-----------------------------------------------------------------------------
(* Write. *)

Latest(n, s) == SubSeq(s, IF n < Len(s) THEN Len(s) - n + 1 ELSE 1, Len(s))

MakeRoom(s) == IF Len(s) >= MaxSize THEN Tail(s) ELSE s

\* Under the lock: into the ring, with a copy of the list of listeners.
Enter(w) ==
  /\ writing[w] = Idle /\ last < MaxEntries
  /\ last' = last + 1
  /\ entries' = Append(MakeRoom(entries), last + 1)
  /\ writing' = [writing EXCEPT ![w] = [at |-> "file", entry |-> last + 1, rest |-> listeners]]
  /\ UNCHANGED <<listeners, client, stream>>

\* writeLogLine, however long the disk takes.
File(w) ==
  /\ writing[w].at = "file"
  /\ writing' = [writing EXCEPT ![w].at = "sending"]
  /\ UNCHANGED <<ring, client, stream>>

\* Mutants, here and below, are slips the runs must notice; no action uses them.
SendBlocks(w) ==
  LET c == Head(writing[w].rest) IN
  /\ writing[w].at = "sending" /\ writing[w].rest # <<>>
  /\ Len(chan[c]) < ChanCap
  /\ chan' = [chan EXCEPT ![c] = Append(@, writing[w].entry)]
  /\ writing' = [writing EXCEPT ![w].rest = Tail(@)]
  /\ UNCHANGED <<ring, client, shown, full>>

SendGivesUp(w) ==
  LET c == Head(writing[w].rest) IN
  /\ writing[w].at = "sending" /\ writing[w].rest # <<>>
  /\ IF Len(chan[c]) < ChanCap
     THEN /\ chan' = [chan EXCEPT ![c] = Append(@, writing[w].entry)]
          /\ writing' = [writing EXCEPT ![w].rest = Tail(@)]
          /\ UNCHANGED full
     ELSE /\ full' = [full EXCEPT ![c] = TRUE]
          /\ writing' = [writing EXCEPT ![w].rest = <<>>]
          /\ UNCHANGED chan
  /\ UNCHANGED <<ring, client, shown>>

\* The next listener of the copy, without waiting: a full channel loses the entry.
SendEntry(w) ==
  LET c == Head(writing[w].rest) IN
  /\ writing[w].at = "sending" /\ writing[w].rest # <<>>
  /\ writing' = [writing EXCEPT ![w].rest = Tail(@)]
  /\ IF Len(chan[c]) < ChanCap
     THEN chan' = [chan EXCEPT ![c] = Append(@, writing[w].entry)] /\ UNCHANGED full
     ELSE full' = [full EXCEPT ![c] = TRUE] /\ UNCHANGED chan
  /\ UNCHANGED <<ring, client, shown>>

Written(w) ==
  /\ writing[w].at = "sending" /\ writing[w].rest = <<>>
  /\ writing' = [writing EXCEPT ![w] = Idle]
  /\ UNCHANGED <<ring, client, stream>>

-----------------------------------------------------------------------------
(* handleLogs. *)

Subscribe(c) ==
  /\ phase[c] = "off"
  /\ phase' = [phase EXCEPT ![c] = "subscribed"]
  /\ listeners' = Append(listeners, c)
  /\ index' = [index EXCEPT ![c] = Len(listeners) + 1]
  /\ since' = [since EXCEPT ![c] = last]
  /\ UNCHANGED <<entries, last, writing, stream>>

\* Recent, and what it returned goes to the client.
Replay(c) ==
  /\ phase[c] = "subscribed"
  /\ phase' = [phase EXCEPT ![c] = "streaming"]
  /\ shown' = [shown EXCEPT ![c] = ToSet(Latest(Replayed, entries))]
  /\ UNCHANGED <<ring, writing, index, since, chan, full>>

Stream(c) ==
  /\ phase[c] = "streaming" /\ chan[c] # <<>>
  /\ shown' = [shown EXCEPT ![c] = @ \cup {Head(chan[c])}]
  /\ chan' = [chan EXCEPT ![c] = Tail(@)]
  /\ UNCHANGED <<ring, writing, client, full>>

\* The client is gone. unsubscribe removes the channel that is now where the
\* client's own was; when the list is shorter it panics, which net/http recovers,
\* and removes none.
Leave(c) ==
  /\ phase[c] = "streaming"
  /\ phase' = [phase EXCEPT ![c] = "gone"]
  /\ listeners' = IF index[c] <= Len(listeners) THEN RemoveAt(listeners, index[c]) ELSE listeners
  /\ UNCHANGED <<entries, last, writing, index, since, stream>>

WriteStep(w) == File(w) \/ SendEntry(w) \/ Written(w)

RingNext ==
  \/ \E w \in Writers : Enter(w) \/ WriteStep(w)
  \/ \E c \in Clients : Subscribe(c) \/ Replay(c) \/ Stream(c) \/ Leave(c)

RingSpec == RingInit /\ [][RingNext]_ringVars

\* Goroutines run; the disk, and what a client's connection takes, are not owed.
RingFairness == \A w \in Writers : WF_ringVars(SendEntry(w) \/ Written(w))

RingFairSpec == RingSpec /\ RingFairness

-----------------------------------------------------------------------------
(* Properties. *)

\* Entries on their way to a client: in its channel, or with a writer that has
\* yet to send to it.
Coming(c) ==
  ToSet(chan[c]) \cup {writing[w].entry : w \in {v \in Writers : c \in ToSet(writing[v].rest)}}

\* Replay and stream leave no gap: a listed client whose channel never
\* overflowed has, or is going to have, every entry since it subscribed, the
\* ones between its subscription and its replay included, in whatever order
\* writers, with their copies of the list, come to its channel.
NoGap ==
  \A c \in ToSet(listeners) :
    phase[c] = "streaming" /\ ~full[c] => since[c] + 1 .. last \subseteq shown[c] \cup Coming(c)

\* Whoever logs is not held up by a client: a writer that is past the disk
\* comes to its end, though clients stop reading, leave, or stay listed after
\* they left.
WritesFinish == \A w \in Writers : writing[w].at = "sending" ~> writing[w].at = "idle"
=============================================================================
