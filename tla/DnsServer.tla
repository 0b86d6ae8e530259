----------------------------- MODULE DnsServer -----------------------------
(***************************************************************************)
(* The DNS server: two loops that start a goroutine for each query         *)
(* (dns/server.go), the resolvers (dns/resolver.go) and the cache they     *)
(* share (dns/cache.go).                                                   *)
(*                                                                         *)
(* An answer is known by when its server gave it.  The fake addresses are  *)
(* never allocated by this program: a query never finds one.               *)
(***************************************************************************)
EXTENDS Integers

CONSTANTS
  Queries,    \* queries, each over UDP or TCP
  Domains,    \* keys of the cache: a name and a type
  TTL,        \* of an entry (5 minutes)
  MaxFetch,   \* longest a DoH request or the system's lookup takes
  Patience,   \* a TCP client's deadline
  MaxTime     \* bound: ticks

ASSUME DnsAssumption ==
  /\ TTL \in Nat \ {0} /\ MaxFetch \in Nat \ {0} /\ Patience \in Nat \ {0} /\ MaxTime \in Nat

Resolvers == {"direct", "doh", "dot"}

VARIABLES
  resolver,   \* which, "off" when this process is something else
  dns,        \* "on", "cancelled", "closed" (the sockets), "joined" or "ended"
  loops,      \* the loops of UDP and TCP that run
  cache,      \* of each domain: when its answer was given, and its entry's end
  query,      \* the goroutines of the queries
  now

dnsVars == << resolver, dns, loops, cache, query, now >>

NoEntry == [taken |-> -1, till |-> -1]

NoQuery == [pc |-> "none", via |-> "UDP", of |-> CHOOSE d \in Domains : TRUE,
            since |-> 0, asked |-> 0, taken |-> -1, age |-> -1]

DnsStart ==
  /\ dns = "on" /\ loops = {"UDP", "TCP"} /\ now = 0
  /\ cache = [d \in Domains |-> NoEntry]
  /\ query = [q \in Queries |-> NoQuery]

DnsOff == resolver = "off" /\ DnsStart

DnsInit == resolver \in Resolvers /\ DnsStart

Serving == resolver # "off" /\ dns # "ended"

Moves(q, rec) ==
  /\ query' = [query EXCEPT ![q] = rec]
  /\ UNCHANGED << resolver, dns, loops, now >>

At(q, pc) == Serving /\ query[q].pc = pc

-----------------------------------------------------------------------------
(* The loops *)

ReceiveQuery(q) ==
  /\ At(q, "none") /\ dns \in {"on", "cancelled"}
  /\ \E via \in loops : \E d \in Domains :
       Moves(q, [NoQuery EXCEPT !.pc = IF via = "UDP" THEN "parse" ELSE "read",
                                !.via = via, !.of = d,
                                !.since = IF via = "TCP" THEN now ELSE 0])
  /\ UNCHANGED cache

CancelDns ==
  /\ Serving /\ dns = "on" /\ dns' = "cancelled"
  /\ UNCHANGED << resolver, loops, cache, query, now >>

\* Stop
SocketsClose ==
  /\ Serving /\ dns = "cancelled" /\ dns' = "closed"
  /\ UNCHANGED << resolver, loops, cache, query, now >>

\* the next read fails, or ran into its two seconds, and the context is done
LoopEnds ==
  /\ Serving /\ dns \in {"cancelled", "closed"}
  /\ \E via \in loops : loops' = loops \ {via}
  /\ UNCHANGED << resolver, dns, cache, query, now >>

\* the wait is for the loops, not for what they started
StopReturns ==
  /\ Serving /\ dns = "closed" /\ loops = {}
  /\ dns' = "ended"
  /\ UNCHANGED << resolver, loops, cache, query, now >>

-----------------------------------------------------------------------------
(* A query *)

QueryOver == [NoQuery EXCEPT !.pc = "done"]

\* age: of the addresses, -1 for a failure
Answers(rec, age) == [rec EXCEPT !.pc = "answer", !.age = age, !.asked = 0, !.taken = -1]

Late(q) == query[q].via = "TCP" /\ now > query[q].since + Patience

\* the length and the message, under the deadline; how the query came makes no
\* difference from here on
ReadQuery(q) ==
  /\ At(q, "read")
  /\ \/ ~Late(q) /\ Moves(q, [query[q] EXCEPT !.pc = "parse", !.via = "UDP", !.since = 0])
     \/ Moves(q, QueryOver)
  /\ UNCHANGED cache

\* what does not parse or asks nothing is not answered
Parse(q) ==
  /\ At(q, "parse")
  /\ \/ Moves(q, [query[q] EXCEPT !.pc = "cache"])
     \/ Moves(q, QueryOver)
  /\ UNCHANGED cache

\* A fault the properties are to notice: an entry is good until the cleanup
CachedAlways(d) == cache[d].taken >= 0

Cached(d) == cache[d].taken >= 0 /\ now <= cache[d].till

\* Cache.Get
LookIn(q) ==
  /\ At(q, "cache")
  /\ LET d == query[q].of
     IN Moves(q, IF Cached(d)
                 THEN Answers(query[q], now - cache[d].taken)
                 ELSE [query[q] EXCEPT !.pc = "fetch", !.asked = now])
  /\ UNCHANGED cache

\* the server's answer is under way
ServerAnswers(q) ==
  /\ At(q, "fetch")
  /\ Moves(q, [query[q] EXCEPT !.pc = "receive", !.taken = now])
  /\ UNCHANGED cache

FetchFails(q) ==
  /\ query[q].pc \in {"fetch", "receive"} /\ Serving
  /\ Moves(q, Answers(query[q], -1))
  /\ UNCHANGED cache

\* Cache.Set: the time to live is counted from here
Store(q) ==
  /\ At(q, "receive")
  /\ cache' = [cache EXCEPT ![query[q].of] = [taken |-> query[q].taken, till |-> now + TTL]]
  /\ Moves(q, Answers(query[q], now - query[q].taken))

\* over UDP into a socket that may be closed, over TCP under the deadline
Respond(q) ==
  /\ At(q, "answer") /\ Moves(q, QueryOver)
  /\ UNCHANGED cache

\* every ten minutes, what has expired
Cleanup ==
  /\ Serving
  /\ \E d \in Domains : cache[d].taken >= 0 /\ now > cache[d].till
  /\ cache' = [d \in Domains |-> IF now > cache[d].till THEN NoEntry ELSE cache[d]]
  /\ UNCHANGED << resolver, dns, loops, query, now >>

\* DoH's client and the system's resolver give up; DoT reads without a deadline,
\* and a TCP client's deadline does not reach the resolver
Tick ==
  /\ Serving /\ now < MaxTime
  /\ resolver # "dot" =>
       \A q \in Queries : query[q].pc \in {"fetch", "receive"} => now < query[q].asked + MaxFetch
  /\ now' = now + 1
  /\ UNCHANGED << resolver, dns, loops, cache, query >>

-----------------------------------------------------------------------------
QuerySteps(q) ==
  \/ ReadQuery(q) \/ Parse(q) \/ LookIn(q)
  \/ ServerAnswers(q) \/ FetchFails(q) \/ Store(q) \/ Respond(q)

DnsStops == SocketsClose \/ LoopEnds \/ StopReturns

DnsNext ==
  \/ CancelDns \/ DnsStops \/ Cleanup \/ Tick
  \/ \E q \in Queries : ReceiveQuery(q) \/ QuerySteps(q)

-----------------------------------------------------------------------------
(* Properties *)

(***************************************************************************)
(* Addresses that are handed out were given by their server no longer ago  *)
(* than an entry lives, and a fetch took: two queries may fetch at once,   *)
(* the older answer may be stored last, and the cleanup comes less often   *)
(* than entries expire (cache.go:54).  DoT may take any time.             *)
(***************************************************************************)
AnswersFresh ==
  \A q \in Queries :
    query[q].pc = "answer" /\ resolver # "dot" => query[q].age <= TTL + MaxFetch
=============================================================================
