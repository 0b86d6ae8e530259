------------------------------ MODULE Routing ------------------------------
(***************************************************************************)
(* From an address to a connection: the router's rules (router/router.go), *)
(* the registry (proxy/registry.go) and the groups, which call each other  *)
(* by name (selector.go, round_robin.go, load_balance.go,                  *)
(* failover_group.go, urltest.go, chain.go).                               *)
(*                                                                         *)
(* Every look at the registry, the rules or a group takes its own lock and *)
(* gives it back, so that proxies are added and removed and choices made   *)
(* between two steps of a connection.  A rule is the hosts it is on, and   *)
(* those for which a lookup decides.  A configured proxy answers, refuses, *)
(* or takes the connection and stays silent.                               *)
(***************************************************************************)
EXTENDS Integers, Sequences, SequencesExt

CONSTANTS
  Clients,   \* connections at a time
  Setups,    \* configurations and what happens to them, see SetupOK
  MaxDepth   \* bound: groups within groups before the stack is full

Hosts == {"x", "y"}

Proxies == {"a", "b"}

Groups == {"g", "h"}

Names == Proxies \cup Groups

Builtin == {"DIRECT", "REJECT"}

Targets == Names \cup Builtin

Kinds == {"proxy", "selector", "urltest", "round-robin", "load-balance", "failover", "chain"}

\* form: well formed, with too few parts, or with a regular expression or a
\* range of ports that does not parse
Rules == [form : {"ok", "short", "regex", "range"},
          on : SUBSET Hosts, may : SUBSET Hosts, target : Targets]

\* default: of a selector, "" when none is configured
Entries == [name : Names, kind : Kinds, members : Seq(Targets), default : Targets \cup {""}]

EntriesOK(es) ==
  /\ es \in Seq(Entries)
  /\ \A i \in 1..Len(es) :
       IF es[i].kind = "proxy" THEN es[i].name \in Proxies /\ es[i].members = << >>
       ELSE es[i].name \in Groups
  /\ \A i, j \in 1..Len(es) :  \* probe is of one group
       es[i].kind = "urltest" /\ es[j].kind = "urltest" => es[i].name = es[j].name

SetupOK(s) ==
  /\ DOMAIN s = {"mode", "proxies", "rules", "dynamic", "added", "asks", "changes", "outages"}
  /\ s.mode \in {"rule", "global", "direct"}
  /\ EntriesOK(s.proxies)
  /\ \A i \in 1..Len(s.rules) : s.rules[i] \in Rules
  /\ s.dynamic \in BOOLEAN
  /\ s.added \subseteq Rules
  /\ s.asks \in Nat /\ s.changes \in Nat /\ s.outages \in Nat

ASSUME RoutingAssumption ==
  /\ Clients # {} /\ MaxDepth \in Nat \ {0}
  /\ \A s \in Setups : SetupOK(s)

VARIABLES
  setup,     \* with what is left of its connections, changes and outages
  phase,     \* "off", "probe", "on", "refused" or "crashed"
  rules,     \* of the router
  registry,  \* the names that are registered
  made,      \* the proxies and groups that were made, which chains hold on to
  choice,    \* of each selector
  idx,       \* of each round-robin group
  best,      \* of each url-test group
  failed,    \* of each url-test group
  probe,     \* of each member of the url-test group: where its goroutine is, what it
             \* measured, and whose appends met its own
  up,        \* proxies that answer
  silent,    \* proxies that take a connection and never answer
  conn       \* connections

groups      == << made, choice, idx, best, failed >>
routingVars == << setup, phase, rules, registry, groups, probe, up, silent, conn >>

Idle == [pc |-> "idle", want |-> "DIRECT", stack |-> << >>, ok |-> FALSE,
         why |-> "refused", route |-> "DIRECT", steady |-> {}]

-----------------------------------------------------------------------------
(* buildRouter *)

\* NewChain: each hop is there already; NewFailoverGroup, NewLoadBalance: some member
MayBuild(names, e) ==
  /\ e.kind = "chain" => ToSet(e.members) \subseteq names \cup Builtin
  /\ e.kind \in {"chain", "failover", "load-balance"} => e.members # << >>

\* Register: the proxies, then the groups, ...
Earlier(es, i, j) ==
  IF es[i].kind = "proxy" THEN es[j].kind = "proxy" => i < j
  ELSE es[j].kind # "proxy" /\ i < j

\* ... each over what is there already, and in the place of what had its name
AllBuild(es) ==
  \A j \in 1..Len(es) :
    MayBuild({es[i].name : i \in {k \in 1..Len(es) : Earlier(es, k, j)}}, es[j])

Latest(es, n) ==
  CHOOSE i \in 1..Len(es) :
    es[i].name = n /\ \A j \in 1..Len(es) : es[j].name = n => j = i \/ Earlier(es, j, i)

Built(es) == [n \in {es[i].name : i \in 1..Len(es)} |-> es[Latest(es, n)]]

FirstOf(s) == IF s = << >> THEN "" ELSE s[1]

ChoiceOf(e) == IF e.default # "" THEN e.default ELSE FirstOf(e.members)

\* New: a rule with too few parts is skipped
Parsed(raw) == SelectSeq(raw, LAMBDA r : r.form # "short")

RoutingInit ==
  /\ setup \in Setups
  /\ phase = "off"
  /\ rules = << >> /\ registry = {} /\ made = << >>
  /\ choice = << >> /\ best = << >>
  /\ idx = [g \in Groups |-> 0]
  /\ failed = [g \in Groups |-> {}]
  /\ probe = [t \in Targets |-> [at |-> "none", took |-> 0, met |-> {}]]
  /\ up \in SUBSET Proxies
  /\ silent = {}
  /\ conn = [c \in Clients |-> Idle]

\* MergeDynamic hands the decoder its struct, not a pointer: what the file sets panics
BuildRouter ==
  /\ phase = "off"
  /\ LET built == Built(setup.proxies)
         list  == Parsed(setup.rules)
     IN IF setup.dynamic THEN
          /\ phase' = "crashed"
          /\ UNCHANGED << rules, registry, made, choice, best >>
        ELSE IF ~AllBuild(setup.proxies) \/ \E i \in 1..Len(list) : list[i].form # "ok" THEN
          /\ phase' = "refused"
          /\ UNCHANGED << rules, registry, made, choice, best >>
        ELSE
          /\ phase' = IF \E n \in DOMAIN built : built[n].kind = "urltest"
                      THEN "probe" ELSE "on"
          /\ rules' = list
          /\ registry' = DOMAIN built /\ made' = built
          /\ choice' = [n \in DOMAIN built |-> ChoiceOf(built[n])]
          /\ best' = [n \in DOMAIN built |-> FirstOf(built[n].members)]
  /\ UNCHANGED << setup, idx, failed, probe, up, silent, conn >>

-----------------------------------------------------------------------------
(* URLTest.Probe: a goroutine for each member, which appends its result to *)
(* a slice that has no lock.  An append is a handful of writes: the words  *)
(* of the element, and the header of the slice.  One that meets no other   *)
(* leaves its element, and those that are there.  Of those that meet, two  *)
(* may write the words of one element, or one the header over another's    *)
(* header: an element may be lost, be of two results, or be counted and    *)
(* not written.  The order is lost in the sort, so that the results are a  *)
(* set.                                                                    *)

Kind(n) == made[n].kind

Members(n) == made[n].members

URLTests == {n \in DOMAIN made : Kind(n) = "urltest"}

Probed == CHOOSE n \in URLTests : TRUE

Appending == {m \in Targets : probe[m].at = "append"}

\* what Latency says, 0 for an error; a silent proxy is waited for
Measure(m) ==
  /\ phase = "probe" /\ m \in ToSet(Members(Probed)) /\ probe[m].at = "none"
  /\ m \notin silent
  /\ \E took \in 0..2 :
       /\ took > 0 => m \in registry \cup {"DIRECT"}
       /\ probe' = [n \in Targets |->
            IF n = m THEN [at |-> "append", took |-> took, met |-> Appending]
            ELSE IF n \in Appending THEN [probe[n] EXCEPT !.met = @ \cup {m}]
            ELSE probe[n]]
  /\ UNCHANGED << setup, phase, rules, registry, groups, up, silent, conn >>

Appends(m) ==
  /\ phase = "probe" /\ m \in Appending
  /\ probe' = [probe EXCEPT ![m].at = "done"]
  /\ UNCHANGED << setup, phase, rules, registry, groups, up, silent, conn >>

\* those whose appends met another's
Met == {m \in Targets : probe[m].met # {}}

\* an append that met another's wrote where nothing is, or what it left cannot be read
Torn ==
  /\ phase = "probe" /\ Met # {}
  /\ phase' = "crashed"
  /\ UNCHANGED << setup, rules, registry, groups, probe, up, silent, conn >>

\* the elements that are there for sure
Own == {[name |-> m, took |-> probe[m].took, err |-> probe[m].took = 0] :
          m \in ToSet(Members(Probed)) \ Met}

\* those that may be: a name of two others' words, or of none, is nobody's, and a word that
\* was not written is 0
Mixed ==
  IF Met = {} THEN {}
  ELSE [name : Met \cup {""}, took : {0} \cup {probe[m].took : m \in Met}, err : BOOLEAN]

AllDone == \A m \in ToSet(Members(Probed)) : probe[m].at = "done"

GoodOf(results) == {r \in results : ~r.err}

\* A fault the properties are to notice: the first result, failed or not
ProbeEndsFirst ==
  /\ phase = "probe" /\ AllDone
  /\ \E r \in Own \cup Mixed : best' = [best EXCEPT ![Probed] = r.name]
  /\ failed' = failed
  /\ phase' = "on"
  /\ UNCHANGED << setup, rules, registry, made, choice, idx, probe, up, silent, conn >>

\* the ticker is stopped behind the first round: there is no second
ProbeEnds ==
  /\ phase = "probe" /\ AllDone
  /\ \/ GoodOf(Own) = {} /\ UNCHANGED best
     \/ \E r \in GoodOf(Own \cup Mixed) :
          /\ \A own \in GoodOf(Own) : r.took <= own.took
          /\ best' = [best EXCEPT ![Probed] = r.name]
  /\ \E mixed \in SUBSET {r.name : r \in Mixed} :
       failed' = [failed EXCEPT ![Probed] = {r.name : r \in Own \ GoodOf(Own)} \cup mixed]
  /\ phase' = "on"
  /\ UNCHANGED << setup, rules, registry, made, choice, idx, probe, up, silent, conn >>

-----------------------------------------------------------------------------
(* Router.Pick *)

\* rules that may be the first to match: the rule is on the host, or a lookup says so
FirstMatches(host) ==
  {i \in 1..Len(rules) : /\ host \in rules[i].on \cup rules[i].may
                         /\ \A j \in 1..(i - 1) : host \notin rules[j].on}

MayMatchNone(host) == \A i \in 1..Len(rules) : host \notin rules[i].on

\* the target, under the router's lock; "first": selectFirst
Picked(host) ==
  CASE setup.mode = "direct" -> {"DIRECT"}
    [] setup.mode = "global" -> {"first"}
    [] OTHER -> {rules[i].target : i \in FirstMatches(host)}
                  \cup (IF MayMatchNone(host) THEN {"first"} ELSE {})

Steps(c, rec) ==
  /\ conn' = [conn EXCEPT ![c] = rec]
  /\ UNCHANGED << phase, rules, registry, probe, up, silent >>

Pick(c) ==
  /\ phase = "on" /\ conn[c].pc = "idle" /\ setup.asks > 0
  /\ setup' = [setup EXCEPT !.asks = @ - 1]
  /\ \E host \in Hosts : \E t \in Picked(host) :
       Steps(c, [Idle EXCEPT !.pc = IF t = "first" THEN "first" ELSE "get",
                             !.want = t, !.route = t, !.steady = registry \ (Proxies \ up)])
  /\ UNCHANGED groups

\* Names, in the order of a map
SelectFirst(c) ==
  /\ phase = "on" /\ conn[c].pc = "first"
  /\ \E n \in IF registry = {} THEN {"DIRECT"} ELSE registry :
       Steps(c, [conn[c] EXCEPT !.pc = "get", !.want = n])
  /\ UNCHANGED << setup, groups >>

Fails(rec, how) == [rec EXCEPT !.pc = "back", !.ok = FALSE, !.why = how]

IsGroup(n) == n \in Groups

\* the hop behind the first is a group, DIRECT or REJECT; every configured proxy has an
\* address (server_addr.go, frp.go:23, vless.go:201, http3.go:89)
NoServer(todo) == Len(todo) > 1 /\ todo[2] \notin Proxies

\* about to call a group on a full stack
Sinks(rec) ==
  /\ Len(rec.stack) = MaxDepth
  /\ \/ rec.pc = "get" /\ IsGroup(rec.want) /\ rec.want \in registry
     \/ rec.pc = "group" /\ Kind(rec.stack[1].name) = "chain"
          /\ IsGroup(rec.stack[1].todo[1]) /\ ~NoServer(rec.stack[1].todo)

\* Connect of a proxy or of a group
Connects(rec, n) ==
  IF n = "REJECT" THEN Fails(rec, "refused")
  ELSE IF IsGroup(n) THEN [rec EXCEPT !.pc = "group",
                                      !.stack = << [name |-> n, todo |-> Members(n)] >> \o @]
  ELSE [rec EXCEPT !.pc = "dial", !.want = n]

\* A fault the properties are to notice: what is not there goes out directly
GetsDirect(c) ==
  LET rec == conn[c] IN
  /\ phase = "on" /\ rec.pc = "get"
  /\ ~Sinks(rec)
  /\ Steps(c, IF rec.want \in registry \cup Builtin THEN Connects(rec, rec.want)
              ELSE Connects(rec, "DIRECT"))
  /\ UNCHANGED << setup, groups >>

\* Registry.Get, and the Connect of what it returns
Get(c) ==
  LET rec == conn[c] IN
  /\ phase = "on" /\ rec.pc = "get"
  /\ ~Sinks(rec)
  /\ Steps(c, IF rec.want \in registry \cup Builtin THEN Connects(rec, rec.want)
              ELSE Fails(rec, "missing"))
  /\ UNCHANGED << setup, groups >>

\* groups that call each other in a circle: the stack overflows and the process ends
Overflow(c) ==
  /\ phase = "on" /\ Sinks(conn[c])
  /\ phase' = "crashed"
  /\ UNCHANGED << setup, rules, registry, groups, probe, up, silent, conn >>

-----------------------------------------------------------------------------
(* Connect of the groups *)

InGroup(c, kind) ==
  /\ phase = "on" /\ conn[c].pc = "group"
  /\ Kind(conn[c].stack[1].name) = kind

Group(c) == conn[c].stack[1].name

Gets(c, n) == Steps(c, [conn[c] EXCEPT !.pc = "get", !.want = n])

Select(c) ==
  /\ InGroup(c, "selector")
  /\ Gets(c, choice[Group(c)])
  /\ UNCHANGED << setup, groups >>

\* failed is not looked at, pickBestLocked has no caller
UseBest(c) ==
  /\ InGroup(c, "urltest")
  /\ Steps(c, [conn[c] EXCEPT !.pc = "get", !.want = best[Group(c)],
                                !.stack[1].todo = << best[Group(c)] >>])
  /\ UNCHANGED << setup, groups >>

Rotate(c) ==
  /\ InGroup(c, "round-robin")
  /\ LET g == Group(c)
         m == Members(g)[(idx[g] % Len(Members(g))) + 1]
     IN IF Members(g) = << >> THEN Steps(c, Fails(conn[c], "refused")) /\ UNCHANGED idx
        ELSE /\ Gets(c, m)
             /\ idx' = [idx EXCEPT ![g] = @ + 1]
  /\ UNCHANGED << setup, made, choice, best, failed >>

Balance(c) ==
  /\ InGroup(c, "load-balance")
  /\ \E m \in ToSet(Members(Group(c))) : Gets(c, m)
  /\ UNCHANGED << setup, groups >>

Try(c) ==
  /\ InGroup(c, "failover")
  /\ Gets(c, conn[c].stack[1].todo[1])
  /\ UNCHANGED << setup, groups >>

\* a hop is called as it was found when the chain was made
Hop(c) ==
  /\ InGroup(c, "chain")
  /\ LET todo == conn[c].stack[1].todo
     IN /\ ~Sinks(conn[c])
        /\ Steps(c, IF NoServer(todo) THEN Fails(conn[c], "refused")
                    ELSE Connects(conn[c], todo[1]))
  /\ UNCHANGED << setup, groups >>

\* a handshake is read without a deadline: a silent proxy's has no end
DialProxy(c) ==
  /\ phase = "on" /\ conn[c].pc = "dial"
  /\ conn[c].want \notin silent
  /\ \E ok \in BOOLEAN :
       /\ conn[c].want # "DIRECT" => (ok <=> conn[c].want \in up)
       /\ Steps(c, [conn[c] EXCEPT !.pc = "back", !.ok = ok, !.why = "refused"])
  /\ UNCHANGED << setup, groups >>

-----------------------------------------------------------------------------
(* The way back: the group that called goes on, or returns to its caller. *)

ToCaller(rec) == [rec EXCEPT !.stack = Tail(@), !.why = "refused"]

\* A fault the properties are to notice: the member that failed is tried again
GoesOnSame(rec) == [rec EXCEPT !.pc = "group"]

GoesOn(rec) == [rec EXCEPT !.pc = "group", !.stack[1].todo = Tail(@)]

\* A fault the properties are to notice: the first member's error is the group's
BackAtOnce(c) ==
  LET rec == conn[c] IN
  /\ phase = "on" /\ rec.pc = "back"
  /\ IF rec.stack = << >> THEN Steps(c, [rec EXCEPT !.pc = IF rec.ok THEN "made" ELSE "failed"])
     ELSE Steps(c, ToCaller(rec))
  /\ UNCHANGED << setup, groups >>

\* a failover tries the next, a chain goes to the next hop, a url-test group
\* marks what did not connect, but not what is not registered
Back(c) ==
  LET rec  == conn[c]
      kind == Kind(rec.stack[1].name)
      more == Len(rec.stack[1].todo) > 1
  IN
  /\ phase = "on" /\ rec.pc = "back"
  /\ IF rec.stack = << >> THEN
       /\ Steps(c, [rec EXCEPT !.pc = IF rec.ok THEN "made" ELSE "failed"])
       /\ UNCHANGED failed
     ELSE IF more /\ kind = (IF rec.ok THEN "chain" ELSE "failover") THEN
       /\ Steps(c, GoesOn(rec))
       /\ UNCHANGED failed
     ELSE
       /\ Steps(c, ToCaller(rec))
       /\ failed' = IF kind = "urltest" /\ ~rec.ok /\ rec.why = "refused"
                    THEN [failed EXCEPT ![rec.stack[1].name] = @ \cup ToSet(rec.stack[1].todo)]
                    ELSE failed
  /\ UNCHANGED << setup, made, choice, idx, best >>

Finish(c) ==
  /\ conn[c].pc \in {"made", "failed"}
  /\ conn' = [conn EXCEPT ![c] = Idle]
  /\ UNCHANGED << setup, phase, rules, registry, groups, probe, up, silent >>

-----------------------------------------------------------------------------
(* What is done meanwhile, and what happens to the proxies *)

Changes ==
  /\ phase = "on" /\ setup.changes > 0
  /\ setup' = [setup EXCEPT !.changes = @ - 1]
  /\ UNCHANGED << phase, idx, best, failed, probe, silent >>

\* a range that does not parse is let in, and matches nothing
AddRule ==
  /\ Changes
  /\ \E r \in setup.added : r.form \notin {"short", "regex"} /\ rules' = << r >> \o rules
  /\ UNCHANGED << registry, made, choice, up, conn >>

AddProxy ==
  /\ Changes
  /\ \E p \in Proxies \ registry :
       /\ registry' = registry \cup {p}
       /\ made' = [n \in DOMAIN made \cup {p} |->
                     IF n = p THEN [name |-> p, kind |-> "proxy", members |-> << >>, default |-> ""]
                     ELSE made[n]]
  /\ UNCHANGED << rules, choice, up, conn >>

Unsteady(n) == conn' = [c \in Clients |-> [conn[c] EXCEPT !.steady = @ \ {n}]]

RemoveProxy ==
  /\ Changes
  /\ \E n \in registry : registry' = registry \ {n} /\ Unsteady(n)
  /\ UNCHANGED << rules, made, choice, up >>

\* any name that is registered, a member or not
SetChoice ==
  /\ Changes
  /\ \E g \in DOMAIN made : \E n \in registry \cup Builtin :
       Kind(g) = "selector" /\ choice' = [choice EXCEPT ![g] = n]
  /\ UNCHANGED << rules, registry, made, up, conn >>

Outage ==
  /\ setup.outages > 0
  /\ setup' = [setup EXCEPT !.outages = @ - 1]
  /\ UNCHANGED << phase, rules, registry, groups, probe >>

GoesDown ==
  /\ Outage
  /\ \E p \in up \cup silent : up' = up \ {p} /\ silent' = silent \ {p} /\ Unsteady(p)

GoesSilent ==
  /\ Outage
  /\ \E p \in Proxies \ silent : up' = up \ {p} /\ silent' = silent \cup {p} /\ Unsteady(p)

ComesBack ==
  /\ Outage
  /\ \E p \in Proxies \ up : up' = up \cup {p} /\ silent' = silent \ {p}
  /\ UNCHANGED conn

-----------------------------------------------------------------------------
Connecting(c) ==
  \/ SelectFirst(c) \/ Get(c) \/ Overflow(c)
  \/ Select(c) \/ UseBest(c) \/ Rotate(c) \/ Balance(c) \/ Try(c) \/ Hop(c)
  \/ DialProxy(c) \/ Back(c) \/ Finish(c)

Probing == (\E m \in Targets : Measure(m) \/ Appends(m)) \/ Torn \/ ProbeEnds

RoutingNext ==
  \/ BuildRouter \/ Probing
  \/ \E c \in Clients : Pick(c) \/ Connecting(c)
  \/ AddRule \/ AddProxy \/ RemoveProxy \/ SetChoice
  \/ GoesDown \/ GoesSilent \/ ComesBack

RoutingSpec == RoutingInit /\ [][RoutingNext]_routingVars

\* a goroutine that can go on does
RoutingFairSpec == RoutingSpec /\ \A c \in Clients : WF_routingVars(Connecting(c))

-----------------------------------------------------------------------------
(* Properties *)

\* the configured proxies, and DIRECT, that a target's groups lead to
Onward(S) == S \cup UNION {ToSet(Members(n)) : n \in S \cap DOMAIN made}

Leads(t) == Onward(Onward({t})) \ (Groups \cup {"REJECT"})

HasSelector == \E n \in DOMAIN made : Kind(n) = "selector"

(***************************************************************************)
(* A connection is made through what its rule's target leads to and        *)
(* nothing else, whatever is added or removed while it is under way: a     *)
(* target or a member that is gone is an error (router.go:77), never       *)
(* another way out, and REJECT leads nowhere.  A selector may have been    *)
(* set to anything (selector.go:35).                                       *)
(***************************************************************************)
RouteKept ==
  \A c \in Clients :
    conn[c].pc = "made" /\ conn[c].route # "first" /\ ~HasSelector
      => conn[c].want \in Leads(conn[c].route)

(***************************************************************************)
(* A failover group's error says that each of its members failed: none     *)
(* was registered and answered all the time since the connection was asked *)
(* for (failover_group.go:40).                                             *)
(***************************************************************************)
FailoverFinds ==
  \A c \in Clients :
    conn[c].pc = "failed" /\ conn[c].route \in conn[c].steady \cap Groups
      /\ Kind(conn[c].route) = "failover"
      => Proxies \cap ToSet(Members(conn[c].route)) \cap conn[c].steady = {}

(***************************************************************************)
(* The best proxy of a url-test group is one that answered and was as fast *)
(* as every other that did, if one did: this is so of all whose appends    *)
(* met no other (urltest.go:123, 127).  Of those that met, one that failed *)
(* or was slower may be best, or nobody, but never a proxy that is not a   *)
(* member.                                                                 *)
(***************************************************************************)
BestMeasured ==
  phase = "on" =>
    \A g \in URLTests :
      /\ best[g] \in ToSet(Members(g)) \cup {""}
      /\ \A m \in ToSet(Members(g)) \ Met :
           probe[m].took > 0 =>
             \/ Met # {} /\ best[g] \in Met \cup {""}
             \/ probe[best[g]].took \in 1..probe[m].took

(***************************************************************************)
(* A connection that was asked for is made or refused, through groups of   *)
(* groups, unless a group that leads to itself ends the process, or the    *)
(* proxy it came to is silent: its answer is read without a deadline       *)
(* (http.go:84, socks5.go:48, vless.go:79, trojan.go:57), against          *)
(* chain.go:49.  A proxy that is not silent answers or refuses in the end. *)
(***************************************************************************)
Held(c) == conn[c].pc = "dial" /\ conn[c].want \in silent

Circle(c) == \E i, j \in 1..Len(conn[c].stack) :
               i # j /\ conn[c].stack[i].name = conn[c].stack[j].name

CircleEnds == phase = "crashed" /\ \E c \in Clients : Circle(c)

ConnectsEnd ==
  \A c \in Clients : conn[c].pc # "idle" ~> (conn[c].pc = "idle" \/ CircleEnds \/ Held(c))
=============================================================================
