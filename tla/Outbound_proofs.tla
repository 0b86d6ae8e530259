-------------------------- MODULE Outbound_proofs --------------------------
(***************************************************************************)
(* How a connection goes out, for every value of the constants.            *)
(*                                                                         *)
(* What every protocol's Connect keeps, and every chain of two hops, for   *)
(* any amount of payload: no socket is left behind, and the stream that is *)
(* returned begins where the server's answer ends (Outbound).  The first   *)
(* needs of a script only which of its calls keep the socket.  The second  *)
(* needs its lengths: for each protocol, the marks of what is read before  *)
(* each call, which together are as long as the answers are.  That is the  *)
(* one place where the scripts are looked at one by one.                   *)
(*                                                                         *)
(* And how it comes to a proxy, for every configuration, any number of     *)
(* connections and any depth of the stack (Routing): each is on a way      *)
(* that its rule and the groups lay out, whatever is changed meanwhile.    *)
(***************************************************************************)
EXTENDS Outbound, Routing, SequenceTheorems, NaturalsInduction, WellFoundedInduction,
        TLAPS

-----------------------------------------------------------------------------
(* Scripts that are made of parts *)

\* What two sequences are one behind the other.
LEMMA Glue ==
  ASSUME NEW S, NEW s \in Seq(S), NEW t \in Seq(S), NEW u \in Seq(S),
         Len(u) = Len(s) + Len(t),
         \A i \in 1..Len(u) : u[i] = IF i <= Len(s) THEN s[i] ELSE t[i - Len(s)]
  PROVE  s \o t = u
BY ConcatProperties, SeqEqual, LenProperties

\* The lengths the scripts are glued of: one and two,
LEMMA OneTwo ==
  ASSUME NEW S, NEW a \in S, NEW b \in S, NEW c \in S
  PROVE  << a >> \o << b, c >> = << a, b, c >>
<1> DEFINE s == << a >>
           t == << b, c >>
           u == << a, b, c >>
<1>1. s \in Seq(S) /\ t \in Seq(S) /\ u \in Seq(S) /\ Len(s) = 1 /\ Len(t) = 2 /\ Len(u) = 3
  OBVIOUS
<1>2. \A i \in 1..3 : u[i] = IF i <= 1 THEN s[i] ELSE t[i - 1]
  OBVIOUS
<1> HIDE DEF s, t, u
<1>3. /\ Len(u) = Len(s) + Len(t)
      /\ \A i \in 1..Len(u) : u[i] = IF i <= Len(s) THEN s[i] ELSE t[i - Len(s)]
  BY <1>1, <1>2
<1>4. s \o t = u
  BY <1>1, <1>3, Glue
<1> QED
  BY <1>4 DEF s, t, u

\* ... two and three.
LEMMA TwoThree ==
  ASSUME NEW S, NEW a \in S, NEW b \in S, NEW c \in S, NEW d \in S, NEW e \in S
  PROVE  << a, b >> \o << c, d, e >> = << a, b, c, d, e >>
<1> DEFINE s == << a, b >>
           t == << c, d, e >>
           u == << a, b, c, d, e >>
<1>1. s \in Seq(S) /\ t \in Seq(S) /\ u \in Seq(S) /\ Len(s) = 2 /\ Len(t) = 3 /\ Len(u) = 5
  OBVIOUS
<1>2. \A i \in 1..5 : u[i] = IF i <= 2 THEN s[i] ELSE t[i - 2]
  OBVIOUS
<1> HIDE DEF s, t, u
<1>3. /\ Len(u) = Len(s) + Len(t)
      /\ \A i \in 1..Len(u) : u[i] = IF i <= Len(s) THEN s[i] ELSE t[i - Len(s)]
  BY <1>1, <1>2
<1>4. s \o t = u
  BY <1>1, <1>3, Glue
<1> QED
  BY <1>4 DEF s, t, u

\* ... three and two.
LEMMA ThreeTwo ==
  ASSUME NEW S, NEW a \in S, NEW b \in S, NEW c \in S, NEW d \in S, NEW e \in S
  PROVE  << a, b, c >> \o << d, e >> = << a, b, c, d, e >>
<1> DEFINE s == << a, b, c >>
           t == << d, e >>
           u == << a, b, c, d, e >>
<1>1. s \in Seq(S) /\ t \in Seq(S) /\ u \in Seq(S) /\ Len(s) = 3 /\ Len(t) = 2 /\ Len(u) = 5
  OBVIOUS
<1>2. \A i \in 1..5 : u[i] = IF i <= 3 THEN s[i] ELSE t[i - 3]
  OBVIOUS
<1> HIDE DEF s, t, u
<1>3. /\ Len(u) = Len(s) + Len(t)
      /\ \A i \in 1..Len(u) : u[i] = IF i <= Len(s) THEN s[i] ELSE t[i - Len(s)]
  BY <1>1, <1>2
<1>4. s \o t = u
  BY <1>1, <1>3, Glue
<1> QED
  BY <1>4 DEF s, t, u

\* ... four and three.
LEMMA FourThree ==
  ASSUME NEW S, NEW a \in S, NEW b \in S, NEW c \in S, NEW d \in S, NEW e \in S, NEW f \in S, NEW g \in S
  PROVE  << a, b, c, d >> \o << e, f, g >> = << a, b, c, d, e, f, g >>
<1> DEFINE s == << a, b, c, d >>
           t == << e, f, g >>
           u == << a, b, c, d, e, f, g >>
<1>1. s \in Seq(S) /\ t \in Seq(S) /\ u \in Seq(S) /\ Len(s) = 4 /\ Len(t) = 3 /\ Len(u) = 7
  OBVIOUS
<1>2. \A i \in 1..7 : u[i] = IF i <= 4 THEN s[i] ELSE t[i - 4]
  OBVIOUS
<1> HIDE DEF s, t, u
<1>3. /\ Len(u) = Len(s) + Len(t)
      /\ \A i \in 1..Len(u) : u[i] = IF i <= Len(s) THEN s[i] ELSE t[i - Len(s)]
  BY <1>1, <1>2
<1>4. s \o t = u
  BY <1>1, <1>3, Glue
<1> QED
  BY <1>4 DEF s, t, u

\* ... two and two.
LEMMA TwoTwo ==
  ASSUME NEW S, NEW a \in S, NEW b \in S, NEW c \in S, NEW d \in S
  PROVE  << a, b >> \o << c, d >> = << a, b, c, d >>
<1> DEFINE s == << a, b >>
           t == << c, d >>
           u == << a, b, c, d >>
<1>1. s \in Seq(S) /\ t \in Seq(S) /\ u \in Seq(S) /\ Len(s) = 2 /\ Len(t) = 2 /\ Len(u) = 4
  OBVIOUS
<1>2. \A i \in 1..4 : u[i] = IF i <= 2 THEN s[i] ELSE t[i - 2]
  OBVIOUS
<1> HIDE DEF s, t, u
<1>3. /\ Len(u) = Len(s) + Len(t)
      /\ \A i \in 1..Len(u) : u[i] = IF i <= Len(s) THEN s[i] ELSE t[i - Len(s)]
  BY <1>1, <1>2
<1>4. s \o t = u
  BY <1>1, <1>3, Glue
<1> QED
  BY <1>4 DEF s, t, u

-----------------------------------------------------------------------------
(* The invariant *)

Leaky == {"http3", "trojan", "upstreamHTTPS"}

\* The calls and ways out that leave a socket, for each protocol.
Excused(p, i, way) ==
  \/ p = "http3"
  \/ p = "trojan" /\ i = Len(Trojan) /\ way = "broken"
  \/ p = "upstreamHTTPS" /\ Script[p][i].op = "crash"

\* The sockets: where the hop's is, and what became of it.
Sockets ==
  /\ at.hop \in 1..Len(hops) /\ Len(hops) \in 1..2 /\ at.call \in Nat
  /\ \A h \in 1..Len(hops) : hops[h] \in Protocols
  /\ lost \subseteq [hop : 1..Len(hops), call : Nat, way : Ways \cup {"closed"}]
  /\ socket \in {"none", "open", "closed"} /\ result \in {"none", "conn", "error", "crash"}
  /\ \A l \in lost : Known(l)
  /\ result \in {"none", "conn"} => \A l \in lost : hops[l.hop] \in {"http3"}
  /\ result = "none" => socket = IF at.call = 0 THEN "none" ELSE "open"
  /\ result = "conn" => socket = "open" \/ (socket = "closed" /\ caller = "latency")
  /\ result = "error" => (\E l \in lost : l.hop = at.hop) \/ socket \in {"none", "closed"}

\* What a script has read off the connection before each of its calls, as long as
\* no call of it ends a read early: the upstreams' waits for a blank line do.
Marks(p) ==
  CASE p \in {"direct", "forward"} -> << >>
    [] p \in {"forwardTLS", "shadowsocks"} -> << 0 >>
    [] p \in {"vmess", "frp", "upstreamHTTP"} -> << 0, 0 >>
    [] p = "http3" -> << 0, 0, 0, 1 >>
    [] p \in {"trojan", "vless", "upstreamHTTPS"} -> << 0, 0, 0 >>
    [] p = "reality" -> << 0, 0, 0, 0, 0 >>
    [] p = "upstreamSOCKS5" -> << 0, 0, 2, 2, 6 >>
    [] p = "upstreamSOCKS5Auth" -> << 0, 0, 2, 2, 4, 4, 8 >>

\* The bytes of a server's first k answers, and of all of them.
Owed(p, f, k) ==
  CASE k = 0 -> 0
    [] k = 1 -> Answers(p, f)[1]
    [] k = 2 -> Answers(p, f)[1] + Answers(p, f)[2]
    [] k = 3 -> Answers(p, f)[1] + Answers(p, f)[2] + Answers(p, f)[3]

Total(p, f) == Owed(p, f, Len(Answers(p, f)))

Skipping == {"upstreamSOCKS5", "upstreamSOCKS5Auth"}

Blanks == {"upstreamHTTP", "upstreamHTTPS"}

\* The server: it has sent what its answers are, and more only behind the last.
Serves ==
  LET p == Protocol  f == server.form  last == Len(Answers(Protocol, server.form))
  IN  /\ DOMAIN server = {"form", "answered", "owed", "sent", "blanks", "refused", "gone"}
      /\ f \in Forms /\ server.refused \in BOOLEAN /\ server.gone \in BOOLEAN
      /\ server.answered \in 0..last
      /\ server.owed = Owed(p, f, server.answered)
      /\ server.sent \in Nat
      /\ server.answered < last => server.sent <= server.owed
      /\ server.blanks \subseteq {b \in Nat : b > Total(p, f) /\ b <= server.sent}
      /\ server.answered < last => server.blanks = {}

\* What a script has read when it is done.
Whole(p, f, n) ==
  /\ n < Total(p, f) => p \in Skipping
  /\ n > Total(p, f) => p \in Blanks /\ n \in server.blanks

\* The reader: it is where the script's marks say.
Reads ==
  LET p == Protocol  f == server.form  end == Len(Script[Protocol])
  IN  /\ got \in 0..server.sent
      /\ at.call = 0 => got = 0
      /\ at.call \in 1..end /\ TheCall.op # "blank" => got = Marks(p)[at.call]
      /\ at.call > end => Whole(p, f, got)

Streams ==
  result \in {"none", "conn"} /\ Protocol \notin ReadsAhead =>
    Serves /\ Reads /\ (result = "conn" => at.call > Len(Script[Protocol]))

OutInv == Sockets /\ Streams

-----------------------------------------------------------------------------
(* The scripts *)

Ops == {"local", "crash", "write", "read", "skip", "header", "blank"}

CallType == [op : Ops, n : [Forms -> Nat], looks : BOOLEAN, keeps : SUBSET Ways]

\* A failure of these closes the socket.
Closing == {c \in CallType : c.keeps = {}}

\* The calls of which all but the TLS of an https upstream close the socket when they fail.
LEMMA CallTyped ==
  /\ TLS \in Closing /\ Local \in Closing /\ Write \in Closing
  /\ ReadHeader \in Closing /\ ReadUntilBlank \in Closing /\ WrapTLS \in CallType
  /\ \A n \in Nat : Read(n) \in Closing
  /\ \A n \in [Forms -> Nat] : Skip(n) \in Closing
BY DEF Closing, CallType, Ops, Ways, TLS, Local, Write, WrapTLS, ReadHeader, ReadUntilBlank, Read,
       Skip, Call, Always, Forms

\* Calls that more than one script or lemma names.
Skips   == [ip4 |-> 6, name |-> 1 + 2 + 2]
Behind  == Call("read", [ip4 |-> 6, name |-> 1 + 97 + 2], FALSE, {})
Status  == Call("read", Always(2), FALSE, {})
Verdict == Call("read", Always(1), TRUE, {"broken"})

\* The scripts made of parts, in full.
LEMMA Unrolled ==
  /\ VLESS = << TLS, Write, Read(1) >>
  /\ Reality = << Local, Local, TLS, Write, Read(1) >>
  /\ UpstreamHTTPS = << WrapTLS, Write, ReadUntilBlank >>
  /\ UpstreamSOCKS5 = << Write, Read(2), Write, Read(4), Skip(Skips) >>
  /\ UpstreamSOCKS5Auth = << Write, Read(2), Write, Read(2), Write, Read(4), Skip(Skips) >>
<1>0. Skips \in [Forms -> Nat]
  BY DEF Skips, Forms
<1>c. Closing \subseteq CallType
  BY DEF Closing
<1>r. /\ Read(1) \in Closing /\ Read(2) \in Closing /\ Read(4) \in Closing
      /\ Skip(Skips) \in Closing /\ TLS \in Closing /\ Local \in Closing /\ Write \in Closing
      /\ ReadUntilBlank \in CallType /\ WrapTLS \in CallType /\ Write \in CallType
  BY <1>0, <1>c, CallTyped
<1>1. VLESS = << TLS, Write, Read(1) >>
  BY <1>r, OneTwo DEF VLESS, VLESSHead
<1>2. Reality = << Local, Local, TLS, Write, Read(1) >>
  BY <1>r, ThreeTwo DEF Reality, RealityHello, VLESSHead
<1>3. UpstreamHTTPS = << WrapTLS, Write, ReadUntilBlank >>
  BY <1>r, OneTwo DEF UpstreamHTTPS, UpstreamHTTPHandshake
<1>4. UpstreamSOCKS5 = << Write, Read(2), Write, Read(4), Skip(Skips) >>
  BY <1>r, TwoThree DEF UpstreamSOCKS5, UpstreamGreeting, UpstreamRequest, Skips
<1>5. UpstreamSOCKS5Auth = << Write, Read(2), Write, Read(2), Write, Read(4), Skip(Skips) >>
  <2>1. << Write, Read(2) >> \o << Write, Read(2) >> = << Write, Read(2), Write, Read(2) >>
    BY <1>r, TwoTwo
  <2>2. << Write, Read(2), Write, Read(2) >> \o << Write, Read(4), Skip(Skips) >>
          = << Write, Read(2), Write, Read(2), Write, Read(4), Skip(Skips) >>
    BY <1>r, FourThree
  <2> QED
    BY <2>1, <2>2 DEF UpstreamSOCKS5Auth, UpstreamGreeting, UpstreamAuth, UpstreamRequest, Skips
<1> QED
  BY <1>1, <1>2, <1>3, <1>4, <1>5

\* Three scripts have a call that fails and leaves its socket open; the others have none.
LEMMA ScriptTyped ==
  \A p \in Protocols : /\ Script[p] \in Seq(CallType)
                       /\ p \notin Leaky => Script[p] \in Seq(Closing)
                       /\ p \in Leaky => \A i \in 1..Len(Script[p]) : \A way \in Script[p][i].keeps :
                                          Excused(p, i, way)
<1>0. Closing \subseteq CallType
  BY DEF Closing
<1>a. \A s, t \in Seq(Closing) : s \o t \in Seq(Closing)
  BY ConcatProperties
<1>b. \A s \in Seq(Closing) : s \in Seq(CallType)
  BY <1>0
<1>1. /\ Read(1) \in Closing /\ Read(2) \in Closing /\ Read(4) \in Closing /\ Read(5) \in Closing
      /\ Skip(Skips) \in Closing /\ Skip([ip4 |-> 6, name |-> 1 + 97 + 2]) \in Closing
      /\ Skip([ip4 |-> 6, name |-> 1 + 2 + 2]) \in Closing
  <2>1. Skips \in [Forms -> Nat] /\ [ip4 |-> 6, name |-> 1 + 97 + 2] \in [Forms -> Nat]
    BY DEF Skips, Forms
  <2> QED
    BY <2>1, CallTyped DEF Skips
<1>2. Behind \in Closing /\ Status \in Closing /\ Verdict \in CallType
  BY DEF Behind, Status, Verdict, Call, Always, Closing, CallType, Ops, Forms, Ways
<1>3. SendConnect \in Seq(Closing) /\ << TLS >> \in Seq(Closing)
  BY CallTyped DEF SendConnect
<1>4. HTTP \in Seq(Closing) /\ HTTPSNI \in Seq(Closing) /\ HTTPS \in Seq(Closing)
  BY <1>3, <1>a DEF HTTP, HTTPSNI, HTTPS
<1>5. HTTP3 \in Seq(CallType) /\ FRP \in Seq(Closing)
  BY <1>1, CallTyped DEF HTTP3, FRP, Call, Always, CallType, Ops, Forms
<1>6. Greeting \in Seq(Closing) /\ Auth \in Seq(Closing) /\ SOCKS5Request \in Seq(Closing)
      /\ UDPAssociate \in Seq(Closing) /\ << Local >> \in Seq(Closing)
  <2>1. Greeting \in Seq(Closing) /\ Auth \in Seq(Closing) /\ << Local >> \in Seq(Closing)
    BY <1>1, CallTyped DEF Greeting, Auth
  <2>2. SOCKS5Request \in Seq(Closing)
    BY <1>1, CallTyped DEF SOCKS5Request
  <2>3. UDPAssociate \in Seq(Closing)
    <3>1. UDPAssociate = << Write, Read(5), Behind >>
      BY DEF UDPAssociate, Behind
    <3> QED
      BY <1>1, <1>2, <3>1, CallTyped
  <2> QED
    BY <2>1, <2>2, <2>3
<1>7. SOCKS5 \in Seq(Closing) /\ SOCKS5Auth \in Seq(Closing) /\ ConnectUDP \in Seq(Closing)
  BY <1>6, <1>a DEF SOCKS5, SOCKS5Auth, ConnectUDP
<1>8. /\ Shadowsocks \in Seq(Closing) /\ Forward \in Seq(Closing) /\ Direct \in Seq(Closing)
      /\ ForwardTLS \in Seq(Closing) /\ VMess \in Seq(Closing) /\ UpstreamHTTP \in Seq(Closing)
  <2>1. Shadowsocks \in Seq(Closing) /\ ForwardTLS \in Seq(Closing)
    BY CallTyped DEF Shadowsocks, ForwardTLS
  <2>2. Forward \in Seq(Closing) /\ Direct \in Seq(Closing)
    BY EmptySeq DEF Forward, Direct
  <2>3. VMess \in Seq(Closing)
    <3>1. VMess = << Write, Status >>
      BY DEF VMess, Status
    <3> QED
      BY <1>2, <3>1, CallTyped
  <2>4. UpstreamHTTP \in Seq(Closing)
    BY CallTyped DEF UpstreamHTTP, UpstreamHTTPHandshake
  <2> QED
    BY <2>1, <2>2, <2>3, <2>4
<1>9. /\ VLESS \in Seq(Closing) /\ Reality \in Seq(Closing)
      /\ UpstreamSOCKS5 \in Seq(Closing) /\ UpstreamSOCKS5Auth \in Seq(Closing)
  BY <1>1, Unrolled, CallTyped
<1>10. Trojan \in Seq(CallType) /\ UpstreamHTTPS \in Seq(CallType)
  <2>1. TLS \in CallType /\ Write \in CallType /\ ReadUntilBlank \in CallType /\ WrapTLS \in CallType
    BY <1>0, CallTyped
  <2>2. Trojan \in Seq(CallType)
    <3>1. Trojan = << TLS, Write, Verdict >>
      BY DEF Trojan, Verdict
    <3> QED
      BY <1>2, <2>1, <3>1
  <2>3. UpstreamHTTPS \in Seq(CallType)
    BY <2>1, Unrolled
  <2> QED
    BY <2>2, <2>3
<1>k. \A i \in 1..Len(Trojan) : \A way \in Trojan[i].keeps : Excused("trojan", i, way)
  <2>1. Trojan = << TLS, Write, Verdict >>
    BY DEF Trojan, Verdict
  <2>2. TLS.keeps = {} /\ Write.keeps = {} /\ Verdict.keeps = {"broken"}
    BY DEF TLS, Write, Verdict, Call
  <2> QED
    BY <2>1, <2>2 DEF Excused
<1>l. \A i \in 1..Len(UpstreamHTTPS) : \A way \in UpstreamHTTPS[i].keeps :
        Excused("upstreamHTTPS", i, way)
  <2>1. UpstreamHTTPS = << WrapTLS, Write, ReadUntilBlank >>
    BY Unrolled
  <2>2. WrapTLS.op = "crash" /\ Write.keeps = {} /\ ReadUntilBlank.keeps = {}
    BY DEF WrapTLS, Write, ReadUntilBlank, Call
  <2>3. Script["upstreamHTTPS"] = UpstreamHTTPS
    BY DEF Script
  <2> QED
    BY <2>1, <2>2, <2>3 DEF Excused
<1> SUFFICES ASSUME NEW p \in Protocols
             PROVE  /\ Script[p] \in Seq(CallType)
                    /\ p \notin Leaky => Script[p] \in Seq(Closing)
                    /\ p \in Leaky => \A i \in 1..Len(Script[p]) : \A way \in Script[p][i].keeps :
                                       Excused(p, i, way)
  OBVIOUS
<1>11. CASE p \in {"direct", "forward", "forwardTLS", "vmess", "shadowsocks", "upstreamHTTP"}
  BY <1>b, <1>8, <1>11 DEF Script, Leaky
<1>12. CASE p \in {"http", "httpSNI", "https", "frp"}
  BY <1>b, <1>4, <1>5, <1>12 DEF Script, Leaky
<1>13. CASE p \in {"socks5", "socks5Auth", "associate"}
  BY <1>b, <1>7, <1>13 DEF Script, Leaky
<1>14. CASE p \in {"vless", "reality", "upstreamSOCKS5", "upstreamSOCKS5Auth"}
  BY <1>b, <1>9, <1>14 DEF Script, Leaky
<1>15. CASE p = "trojan"
  BY <1>10, <1>k, <1>15 DEF Script, Leaky
<1>16. CASE p = "upstreamHTTPS"
  BY <1>10, <1>l, <1>16 DEF Script, Leaky
<1>17. CASE p = "http3"
  BY <1>5, <1>17 DEF Script, Leaky, Excused
<1> QED
  BY <1>11, <1>12, <1>13, <1>14, <1>15, <1>16, <1>17 DEF Protocols, Script, Leaky

\* What a server answers, in all and one after the other.
LEMMA AnswersAdd ==
  ASSUME NEW p \in Protocols, NEW f \in Forms
  PROVE  LET last == Len(Answers(p, f))
         IN  /\ last \in 0..3 /\ Total(p, f) \in Nat /\ Owed(p, f, 0) = 0
             /\ \A k \in 0..last : Owed(p, f, k) \in Nat
             /\ \A k \in 0..last : k < last =>
                  /\ Answers(p, f)[k + 1] \in Nat \ {0}
                  /\ Owed(p, f, k + 1) = Owed(p, f, k) + Answers(p, f)[k + 1]
                  /\ Owed(p, f, k) < Total(p, f)
<1>1. Bound(f) \in Nat \ {0}
  BY DEF Bound
<1>2. /\ Len(Answers(p, f)) \in 0..3
      /\ \A k \in 1..Len(Answers(p, f)) : Answers(p, f)[k] \in Nat \ {0}
  BY <1>1 DEF Answers, Protocols, Script
<1> DEFINE A == Answers(p, f)
<1>3. Len(A) \in 0..3 /\ \A k \in 1..Len(A) : A[k] \in Nat \ {0}
  BY <1>2
<1>4. /\ \A k \in 0..3 : Owed(p, f, k) = IF k = 0 THEN 0 ELSE IF k = 1 THEN A[1]
                           ELSE IF k = 2 THEN A[1] + A[2] ELSE A[1] + A[2] + A[3]
      /\ Total(p, f) = Owed(p, f, Len(A))
  BY <1>3 DEF Owed, Total
<1> HIDE DEF A
<1>5. /\ Len(A) \in 0..3 /\ Total(p, f) \in Nat /\ Owed(p, f, 0) = 0
      /\ \A k \in 0..Len(A) : Owed(p, f, k) \in Nat
      /\ \A k \in 0..Len(A) : k < Len(A) =>
           /\ A[k + 1] \in Nat \ {0}
           /\ Owed(p, f, k + 1) = Owed(p, f, k) + A[k + 1]
           /\ Owed(p, f, k) < Total(p, f)
  <2>1. CASE Len(A) = 0
    BY <1>3, <1>4, <2>1
  <2>2. CASE Len(A) = 1
    <3>1. A[1] \in Nat \ {0}
      BY <1>3, <2>2
    <3> QED
      BY <1>4, <2>2, <3>1
  <2>3. CASE Len(A) = 2
    <3>1. A[1] \in Nat \ {0} /\ A[2] \in Nat \ {0}
      BY <1>3, <2>3
    <3> QED
      BY <1>4, <2>3, <3>1
  <2>4. CASE Len(A) = 3
    <3>1. A[1] \in Nat \ {0} /\ A[2] \in Nat \ {0} /\ A[3] \in Nat \ {0}
      BY <1>3, <2>4
    <3> QED
      BY <1>4, <2>4, <3>1
  <2> QED
    BY <1>3, <2>1, <2>2, <2>3, <2>4
<1> QED
  BY <1>5 DEF A

\* A call of a script, with the marks before and behind it.
Follows(p, f, i) ==
  LET c     == Script[p][i]
      end   == Len(Script[p])
      after == IF i = end THEN Total(p, f) ELSE Marks(p)[i + 1]
  IN  /\ Marks(p)[i] \in Nat
      /\ c.op \in {"local", "crash", "write"} => after = Marks(p)[i]
      /\ c.op = "read" => c.n[f] \in Nat /\ after = Marks(p)[i] + c.n[f]
      /\ c.op = "skip" =>
           i = end /\ p \in Skipping /\ c.n[f] \in Nat /\ Marks(p)[i] + c.n[f] <= Total(p, f)
      /\ c.op = "blank" => i = end /\ Len(Answers(p, f)) = 1 /\ p \in Blanks
      /\ c.op # "header"

\* The lengths of what is read and of what is answered agree, protocol by protocol.
LEMMA ScriptFollows ==
  ASSUME NEW p \in Protocols, p \notin ReadsAhead, NEW f \in Forms
  PROVE  /\ \A i \in 1..Len(Script[p]) : Follows(p, f, i)
         /\ Len(Script[p]) = 0 => Total(p, f) = 0
         /\ Len(Script[p]) > 0 => Marks(p)[1] = 0
<1>1. CASE p = "direct"
  <2>1. Script[p] = << >> /\ Marks(p) = << >>
    BY <1>1 DEF Script, Direct, Marks
  <2>2. Total(p, f) = 0 /\ Len(Answers(p, f)) \in Nat
    BY <1>1 DEF Total, Owed, Answers, Bound
  <2> QED
    BY <1>1, <2>1, <2>2 DEF Follows
<1>2. CASE p = "forward"
  <2>1. Script[p] = << >> /\ Marks(p) = << >>
    BY <1>2 DEF Script, Forward, Marks
  <2>2. Total(p, f) = 0 /\ Len(Answers(p, f)) \in Nat
    BY <1>2 DEF Total, Owed, Answers, Bound
  <2> QED
    BY <1>2, <2>1, <2>2 DEF Follows
<1>3. CASE p = "forwardTLS"
  <2>1. Script[p] = << TLS >> /\ Marks(p) = << 0 >>
    BY <1>3 DEF Script, ForwardTLS, Marks
  <2>2. Total(p, f) = 0 /\ Len(Answers(p, f)) \in Nat
    BY <1>3 DEF Total, Owed, Answers, Bound
  <2> QED
    BY <1>3, <2>1, <2>2 DEF Follows, TLS, Call, Always, Forms
<1>4. CASE p = "http3"
  <2> DEFINE here == Call("local", Always(0), FALSE, Ways)
  <2>1. /\ Script[p] = << here, Call("write", Always(0), FALSE, Ways),
                         Call("read", Always(1), TRUE, Ways), here >>
        /\ Marks(p) = << 0, 0, 0, 1 >>
    BY <1>4 DEF Script, HTTP3, Marks
  <2>2. Total(p, f) = 1 /\ Len(Answers(p, f)) \in Nat
    BY <1>4 DEF Total, Owed, Answers, Bound
  <2> QED
    BY <1>4, <2>1, <2>2 DEF Follows, TLS, Local, Write, Read, Call, Always, Forms
<1>5. CASE p = "trojan"
  <2>1. Script[p] = << TLS, Write, Call("read", Always(1), TRUE, {"broken"}) >> /\ Marks(p) = << 0, 0, 0 >>
    BY <1>5 DEF Script, Trojan, Marks
  <2>2. Total(p, f) = 1 /\ Len(Answers(p, f)) \in Nat
    BY <1>5 DEF Total, Owed, Answers, Bound
  <2> QED
    BY <1>5, <2>1, <2>2 DEF Follows, TLS, Write, Call, Always, Forms
<1>6. CASE p = "vmess"
  <2>1. Script[p] = << Write, Call("read", Always(2), FALSE, {}) >> /\ Marks(p) = << 0, 0 >>
    BY <1>6 DEF Script, VMess, Marks
  <2>2. Total(p, f) = 2 /\ Len(Answers(p, f)) \in Nat
    BY <1>6 DEF Total, Owed, Answers, Bound
  <2> QED
    BY <1>6, <2>1, <2>2 DEF Follows, Write, Call, Always, Forms
<1>7. CASE p = "shadowsocks"
  <2>1. Script[p] = << Write >> /\ Marks(p) = << 0 >>
    BY <1>7 DEF Script, Shadowsocks, Marks
  <2>2. Total(p, f) = 0 /\ Len(Answers(p, f)) \in Nat
    BY <1>7 DEF Total, Owed, Answers, Bound
  <2> QED
    BY <1>7, <2>1, <2>2 DEF Follows, Write, Call, Always, Forms
<1>8. CASE p = "vless"
  <2>1. Script[p] = << TLS, Write, Read(1) >> /\ Marks(p) = << 0, 0, 0 >>
    BY <1>8, Unrolled DEF Script, VLESS, Marks
  <2>2. Total(p, f) = 1 /\ Len(Answers(p, f)) \in Nat
    BY <1>8 DEF Total, Owed, Answers, Bound
  <2> QED
    BY <1>8, <2>1, <2>2 DEF Follows, TLS, Write, Read, Call, Always, Forms
<1>9. CASE p = "reality"
  <2>1. Script[p] = << Local, Local, TLS, Write, Read(1) >> /\ Marks(p) = << 0, 0, 0, 0, 0 >>
    BY <1>9, Unrolled DEF Script, Reality, Marks
  <2>2. Total(p, f) = 1 /\ Len(Answers(p, f)) \in Nat
    BY <1>9 DEF Total, Owed, Answers, Bound
  <2> QED
    BY <1>9, <2>1, <2>2 DEF Follows, TLS, Local, Write, Read, Call, Always, Forms
<1>10. CASE p = "frp"
  <2>1. Script[p] = << Write, Read(1) >> /\ Marks(p) = << 0, 0 >>
    BY <1>10 DEF Script, FRP, Marks
  <2>2. Total(p, f) = 1 /\ Len(Answers(p, f)) \in Nat
    BY <1>10 DEF Total, Owed, Answers, Bound
  <2> QED
    BY <1>10, <2>1, <2>2 DEF Follows, Write, Read, Call, Always, Forms
<1>11. CASE p = "upstreamHTTP"
  <2>1. Script[p] = << Write, ReadUntilBlank >> /\ Marks(p) = << 0, 0 >>
    BY <1>11 DEF Script, UpstreamHTTP, Marks, UpstreamHTTPHandshake
  <2>2. Total(p, f) = 2 /\ Len(Answers(p, f)) \in Nat /\ Len(Answers(p, f)) = 1
    BY <1>11 DEF Total, Owed, Answers, Bound
  <2> QED
    BY <1>11, <2>1, <2>2 DEF Follows, Write, ReadUntilBlank, Call, Always, Forms, Blanks
<1>12. CASE p = "upstreamHTTPS"
  <2>1. Script[p] = << WrapTLS, Write, ReadUntilBlank >> /\ Marks(p) = << 0, 0, 0 >>
    BY <1>12, Unrolled DEF Script, UpstreamHTTPS, Marks
  <2>2. Total(p, f) = 2 /\ Len(Answers(p, f)) \in Nat /\ Len(Answers(p, f)) = 1
    BY <1>12 DEF Total, Owed, Answers, Bound
  <2> QED
    BY <1>12, <2>1, <2>2 DEF Follows, Write, WrapTLS, ReadUntilBlank, Call, Always, Forms, Blanks
<1>13. CASE p = "upstreamSOCKS5"
  <2>1. Script[p] = << Write, Read(2), Write, Read(4), Skip(Skips) >> /\ Marks(p) = << 0, 0, 2, 2, 6 >>
    BY <1>13, Unrolled DEF Script, UpstreamSOCKS5, Marks
  <2>2. Total(p, f) = 2 + Bound(f) /\ Len(Answers(p, f)) \in Nat
    BY <1>13 DEF Total, Owed, Answers, Bound
  <2> QED
    BY <1>13, <2>1, <2>2 DEF Follows, Write, Read, Skip, Skips, Call, Always, Forms, Skipping, Bound
<1>14. CASE p = "upstreamSOCKS5Auth"
  <2>1. Script[p] = << Write, Read(2), Write, Read(2), Write, Read(4), Skip(Skips) >>
        /\ Marks(p) = << 0, 0, 2, 2, 4, 4, 8 >>
    BY <1>14, Unrolled DEF Script, UpstreamSOCKS5Auth, Marks
  <2>2. Total(p, f) = 4 + Bound(f) /\ Len(Answers(p, f)) \in Nat
    BY <1>14 DEF Total, Owed, Answers, Bound
  <2> QED
    BY <1>14, <2>1, <2>2, SMTT(60)
       DEF Follows, Write, Read, Skip, Skips, Call, Always, Forms, Skipping, Bound
<1> QED
  BY <1>1, <1>2, <1>3, <1>4, <1>5, <1>6, <1>7, <1>8, <1>9, <1>10, <1>11, <1>12, <1>13, <1>14
     DEF Protocols, Script, ReadsAhead

-----------------------------------------------------------------------------
(* The sockets *)

\* The protocol that is asked, and its calls.
LEMMA Scripted ==
  ASSUME Sockets
  PROVE  /\ Protocol \in Protocols /\ Len(Script[Protocol]) \in Nat
         /\ \A i \in 1..Len(Script[Protocol]) :
              /\ Script[Protocol][i] \in CallType
              /\ \A way \in Script[Protocol][i].keeps : Excused(Protocol, i, way)
<1>1. Protocol \in Protocols
  BY DEF Sockets, Protocol
<1>2. Script[Protocol] \in Seq(CallType)
  BY <1>1, ScriptTyped
<1>3. Protocol \notin Leaky => \A i \in 1..Len(Script[Protocol]) : Script[Protocol][i].keeps = {}
  <2> SUFFICES ASSUME Protocol \notin Leaky, NEW i \in 1..Len(Script[Protocol])
               PROVE  Script[Protocol][i].keeps = {}
    OBVIOUS
  <2>1. Script[Protocol] \in Seq(Closing)
    BY <1>1, ScriptTyped
  <2> QED
    BY <2>1, ElementOfSeq DEF Closing
<1> QED
  BY <1>1, <1>2, <1>3, ScriptTyped, ElementOfSeq, LenProperties

\* A call that fails: its socket is closed, or lost.
LEMMA FailSettles ==
  ASSUME Sockets, result = "none", at.call \in 1..Len(Script[Protocol]), NEW way \in Ways,
         Fail(way), UNCHANGED << at, hops, caller >>
  PROVE  Sockets'
<1>1. /\ TheCall \in CallType /\ (way \in TheCall.keeps => Excused(Protocol, at.call, way))
      /\ at.hop \in 1..Len(hops) /\ at.call \in Nat
      /\ \A l \in lost : l.hop \in 1..Len(hops) /\ hops[l.hop] = "http3"
  BY Scripted DEF TheCall, Sockets
<1>2. result' \in {"error", "crash"} /\ (TheCall.op = "crash" => result' = "crash")
  BY DEF Fail
<1>3. CASE way \in TheCall.keeps
  <2> DEFINE new == Left(way)
  <2>1. lost' = lost \cup {new} /\ socket' = socket
    BY <1>3 DEF Fail
  <2>2. /\ new \in [hop : 1..Len(hops), call : Nat, way : Ways \cup {"closed"}]
        /\ new.hop = at.hop /\ new.call = at.call /\ new.way = way
    BY <1>1 DEF Left
  <2> HIDE DEF new
  <2>3. \A l \in {new} : Known(l)'
    <3> SUFFICES ASSUME NEW l, l = new PROVE Known(l)'
      OBVIOUS
    <3>1. Excused(hops[at.hop], at.call, way) /\ hops' = hops /\ TheCall = Script[hops[at.hop]][at.call]
      BY <1>1, <1>3 DEF Protocol, TheCall
    <3> QED
      BY <1>2, <2>2, <3>1 DEF Known, Excused
  <2>4. \A l \in lost : Known(l)'
    BY <1>1 DEF Known
  <2> QED
    BY <1>1, <1>2, <2>1, <2>2, <2>3, <2>4 DEF Sockets
<1>4. CASE way \notin TheCall.keeps
  <2>1. lost' = lost /\ socket' = "closed"
    BY <1>4 DEF Fail
  <2>2. \A l \in lost : Known(l)'
    BY <1>1 DEF Known
  <2> QED
    BY <1>2, <2>1, <2>2 DEF Sockets
<1> QED
  BY <1>3, <1>4

\* A step that adds no lost socket but an HTTP3's, and none behind a crash.
LEMMA LostKept ==
  ASSUME Sockets, result \in {"none", "conn"}, UNCHANGED hops, lost' = lost \/ CloseConn
  PROVE  /\ lost' \subseteq [hop : 1..Len(hops), call : Nat, way : Ways \cup {"closed"}]
         /\ \A l \in lost' : Known(l)' /\ hops[l.hop] = "http3"
<1>1. /\ at.hop \in 1..Len(hops) /\ at.call \in Nat
      /\ \A l \in lost : l.hop \in 1..Len(hops) /\ hops[l.hop] = "http3"
  BY DEF Sockets
<1> DEFINE new == Left("closed")
<1>2. new \in [hop : 1..Len(hops), call : Nat, way : Ways \cup {"closed"}] /\ new.hop = at.hop
  BY <1>1 DEF Left
<1>3. lost' = lost \/ (lost' = lost \cup {new} /\ hops[at.hop] = "http3")
  BY DEF CloseConn, Protocol
<1>4. \A l \in lost' : l.hop \in 1..Len(hops) /\ hops[l.hop] = "http3"
  BY <1>1, <1>2, <1>3
<1> QED
  BY <1>2, <1>3, <1>4 DEF Known, Sockets

\* A call that does not.
LEMMA GoOnSettled ==
  ASSUME Sockets, result = "none", at.call \in Nat \ {0}, Proceed,
         UNCHANGED << hops, caller, socket, lost, result >>
  PROVE  Sockets'
<1>1. at'.hop = at.hop /\ at'.call = at.call + 1
  BY DEF Proceed
<1> QED
  BY <1>1, LostKept DEF Sockets

\* Before the first dial.
LEMMA SocketsInit == Init => Sockets
<1> SUFFICES ASSUME Init PROVE Sockets
  OBVIOUS
<1>1. Len(hops) \in 1..2 /\ \A h \in 1..Len(hops) : hops[h] \in Protocols
  <2>1. CASE hops \in {<< p >> : p \in Protocols}
    BY <2>1
  <2>2. CASE hops \in Registered \X Registered
    <3>1. Registered \subseteq Protocols
      BY DEF Registered, Protocols, Script
    <3>2. PICK p \in Registered, q \in Registered : hops = << p, q >>
      BY <2>2
    <3>3. p \in Protocols /\ q \in Protocols /\ Len(hops) = 2 /\ hops[1] = p /\ hops[2] = q
      BY <3>1, <3>2
    <3> QED
      BY <3>3
  <2> QED
    BY <2>1, <2>2 DEF Init
<1> QED
  BY <1>1 DEF Init, Sockets

\* Every step, of the client and of the server, keeps account of the sockets.
LEMMA SocketsNext == Sockets /\ [Next]_vars => Sockets'
<1> SUFFICES ASSUME Sockets, [Next]_vars PROVE Sockets'
  OBVIOUS
<1>0. /\ Protocol \in Protocols /\ Len(Script[Protocol]) \in Nat /\ at.call \in Nat
  BY Scripted DEF Sockets
<1>1. CASE NoAddress
  BY <1>1, LostKept DEF NoAddress, Keep, Sockets
<1>2. CASE Dial
  <2>1. at'.hop = at.hop /\ at'.call = at.call + 1 /\ at.call = 0
    BY <1>2 DEF Dial, MayDial, Proceed
  <2> QED
    BY <1>2, <2>1, LostKept DEF Dial, MayDial, Keep, Sockets
<1>3. CASE DialFails
  BY <1>3, LostKept DEF DialFails, MayDial, Keep, Sockets
<1>4. CASE DoLocal \/ DoWrite \/ DoRead \/ ReadFails \/ DoSkip \/ DoReadHeader \/ HeaderFails
           \/ BlankFails
  <2>1. result = "none" /\ at.call \in 1..Len(Script[Protocol]) /\ UNCHANGED << hops, caller >>
    BY <1>4 DEF DoLocal, DoWrite, DoRead, ReadFails, DoSkip, DoReadHeader, HeaderFails,
       BlankFails, In, Keep
  <2>2. \/ (\E way \in Ways : Fail(way)) /\ UNCHANGED at
        \/ Proceed /\ UNCHANGED << socket, lost, result >>
    BY <1>4 DEF DoLocal, DoWrite, DoRead, ReadFails, DoSkip, DoReadHeader, HeaderFails, BlankFails,
       Ways
  <2> QED
    BY <1>0, <2>1, <2>2, FailSettles, GoOnSettled
<1>5. CASE DoReadUntilBlank
  <2>1. result = "none" /\ at.call \in 1..Len(Script[Protocol]) /\ UNCHANGED << hops, caller >>
    BY <1>5 DEF DoReadUntilBlank, In, Keep
  <2>2. \/ Fail("refused") /\ UNCHANGED at
        \/ Proceed /\ UNCHANGED << socket, lost, result >>
        \/ UNCHANGED << at, socket, lost, result >>
    BY <1>5 DEF DoReadUntilBlank
  <2>3. CASE UNCHANGED << at, socket, lost, result >>
    BY <2>1, <2>3, LostKept DEF Sockets
  <2> QED
    BY <1>0, <2>1, <2>2, <2>3, FailSettles, GoOnSettled DEF Ways
<1>6. CASE Return
  BY <1>0, <1>6, LostKept DEF Return, HopDone, Keep, Sockets
<1>7. CASE NextHop
  <2>1. at'.hop = at.hop + 1 /\ at'.call = 0
    BY <1>7 DEF NextHop
  <2> QED
    BY <1>7, <2>1, LostKept DEF NextHop, HopDone, Keep, Sockets
<1>8. CASE Measured
  BY <1>8, LostKept DEF Measured, Keep, Sockets
<1>9. CASE Answer \/ Deliver \/ SendPayload \/ HangUp \/ UNCHANGED vars
  <2>1. UNCHANGED << client, hops, caller >>
    BY <1>9 DEF Answer, Deliver, SendPayload, HangUp, Keep, vars, client
  <2> QED
    BY <2>1 DEF client, Sockets, Known, Protocol
<1> QED
  BY <1>1, <1>2, <1>3, <1>4, <1>5, <1>6, <1>7, <1>8, <1>9 DEF Next, Client

\* At every call of every Connect each socket of the chain is open and the hop's, closed, or
\* one of those known to be lost (proxy/*.go, Chain.Connect).
THEOREM SocketsInvariant == Spec => []Sockets
BY SocketsInit, SocketsNext, PTL DEF Spec

\* Connect returns an error and no open socket, or a connection and no other: on every path but
\* those that trojan.go, upstream.go and http3.go are known to have.
THEOREM SocketsAreSettled == Spec => []SocketsSettled
<1>1. Sockets => SocketsSettled
  BY DEF Sockets, SocketsSettled
<1> QED
  BY <1>1, SocketsInvariant, PTL

-----------------------------------------------------------------------------
(* The streams *)

\* Nothing is read and nothing sent.
LEMMA StreamsInit == Init /\ Sockets => Streams
<1> SUFFICES ASSUME Init, Sockets PROVE Streams
  OBVIOUS
<1>1. PICK f \in Forms : server = NewServer(f)
  BY DEF Init
<1>2. Serves
  <2>1. Protocol \in Protocols
    BY Scripted
  <2>2. Len(Answers(Protocol, f)) \in 0..3 /\ Owed(Protocol, f, 0) = 0
    BY <2>1, AnswersAdd
  <2> QED
    BY <1>1, <2>2 DEF NewServer, Serves
<1>3. at.call = 0 /\ got = 0 /\ server.sent = 0 /\ result = "none" /\ Len(Script[Protocol]) \in Nat
  BY <1>1, Scripted DEF Init, NewServer
<1>4. Reads
  BY <1>3 DEF Reads
<1> QED
  BY <1>2, <1>3, <1>4 DEF Streams

\* The other end moves on.
LEMMA ServerMoves ==
  ASSUME Sockets, Streams, Answer \/ Deliver \/ SendPayload \/ HangUp
  PROVE  Streams'
<1>1. UNCHANGED << at, result, got, hops >>
  BY DEF Answer, Deliver, SendPayload, HangUp, Keep, client
<1>2. Protocol' = Protocol /\ TheCall' = TheCall
  BY <1>1 DEF Protocol, TheCall
<1> SUFFICES ASSUME result \in {"none", "conn"}, Protocol \notin ReadsAhead
             PROVE  Serves' /\ Reads' /\ (result' = "conn" => at'.call > Len(Script[Protocol]'))
  BY <1>1, <1>2 DEF Streams
<1>3. Serves /\ Reads /\ (result = "conn" => at.call > Len(Script[Protocol]))
  BY DEF Streams
<1> DEFINE p    == Protocol
           f    == server.form
           last == Len(Answers(p, f))
<1>4. /\ last \in 0..3 /\ Total(p, f) = Owed(p, f, last)
      /\ \A k \in 0..last : Owed(p, f, k) \in Nat
      /\ \A k \in 0..last : k < last =>
           /\ Answers(p, f)[k + 1] \in Nat \ {0}
           /\ Owed(p, f, k + 1) = Owed(p, f, k) + Answers(p, f)[k + 1]
  BY <1>3, AnswersAdd, Scripted DEF Serves, Total
<1> DEFINE j == server.answered
<1>5. /\ j \in 0..last /\ server.owed = Owed(p, f, j) /\ server.sent \in Nat /\ f \in Forms
      /\ j < last => server.sent <= server.owed
      /\ server.blanks \subseteq {b \in Nat : b > Total(p, f) /\ b <= server.sent}
      /\ j < last => server.blanks = {}
      /\ DOMAIN server = {"form", "answered", "owed", "sent", "blanks", "refused", "gone"}
      /\ server.refused \in BOOLEAN /\ server.gone \in BOOLEAN
  BY <1>3 DEF Serves
<1>b. server.owed \in Nat
  BY <1>4, <1>5
<1>6. /\ server'.form = f /\ server'.sent >= server.sent /\ server'.sent \in Nat
      /\ server.blanks \subseteq server'.blanks /\ Serves'
  <2>1. CASE Answer
    <3>1. j < last
      BY <2>1 DEF Answer
    <3>2. PICK no \in BOOLEAN : server' = [server EXCEPT
                    !.answered = j + 1, !.owed = server.owed + Answers(p, f)[j + 1], !.refused = no]
      BY <1>5, <2>1 DEF Answer
    <3>3. /\ server'.form = f /\ server'.answered = j + 1 /\ server'.sent = server.sent
          /\ server'.owed = server.owed + Answers(p, f)[j + 1]
          /\ server'.refused \in BOOLEAN /\ server'.gone = server.gone
          /\ server'.blanks = {} /\ server.blanks = {}
          /\ DOMAIN server' = DOMAIN server
      BY <1>5, <3>1, <3>2
    <3>4. /\ Owed(p, f, j + 1) = server'.owed /\ j + 1 \in 0..last
          /\ Answers(p, f)[j + 1] \in Nat
      BY <1>4, <1>5, <3>1, <3>3
    <3>5. server'.sent <= server'.owed
      BY <1>5, <1>b, <3>1, <3>3, <3>4
    <3> QED
      BY <1>2, <1>5, <3>3, <3>4, <3>5 DEF Serves
  <2>2. CASE Deliver \/ SendPayload \/ HangUp
    <3>1. /\ server'.form = f /\ server'.answered = j /\ server'.owed = server.owed
          /\ server'.refused = server.refused /\ server'.gone \in BOOLEAN
          /\ DOMAIN server' = DOMAIN server
      BY <1>5, <2>2 DEF Deliver, SendPayload, HangUp
    <3>2. /\ server'.sent \in Nat /\ server'.sent >= server.sent
          /\ j < last => server'.sent <= server'.owed
          /\ server.blanks \subseteq server'.blanks
          /\ server'.blanks \subseteq {b \in Nat : b > Total(p, f) /\ b <= server'.sent}
          /\ j < last => server'.blanks = {}
      <4>1. CASE Deliver
        <5>1. PICK n \in {server.sent + 1, server.owed} : server' = [server EXCEPT !.sent = n]
          BY <4>1 DEF Deliver
        <5>2. server'.sent = n /\ server.sent < server.owed /\ server'.blanks = server.blanks
          BY <1>5, <4>1, <5>1 DEF Deliver
        <5> QED
          BY <1>5, <1>b, <3>1, <5>2
      <4>2. CASE SendPayload
        <5>1. PICK ends \in {{}, {server.sent + 1}} :
                server' = [server EXCEPT !.sent = @ + 1, !.blanks = @ \cup ends]
          BY <4>2 DEF SendPayload
        <5>s. j = last /\ server.sent \in server.owed..(server.owed + MaxPayload - 1)
          BY <4>2 DEF SendPayload
        <5>r. server.sent >= server.owed
          BY <1>5, <1>b, <5>s, MaxPayloadAssumption
        <5>t. server'.sent = server.sent + 1 /\ server'.blanks = server.blanks \cup ends
          BY <1>5, <5>1
        <5>2. /\ server'.sent = server.sent + 1 /\ j = last /\ server.sent >= server.owed
              /\ server'.blanks = server.blanks \cup ends
          BY <5>s, <5>r, <5>t
        <5>3. server.owed = Total(p, f)
          BY <1>4, <1>5, <5>2
        <5>4. ends \subseteq {b \in Nat : b > Total(p, f) /\ b <= server'.sent}
          BY <1>5, <1>b, <5>2, <5>3
        <5>5. server'.blanks \subseteq {b \in Nat : b > Total(p, f) /\ b <= server'.sent}
          <6> DEFINE total == Total(p, f)
          <6>1. \A b \in server.blanks : b \in Nat /\ b > total /\ b <= server.sent
            BY <1>5
          <6>2. \A b \in ends : b \in Nat /\ b > total /\ b <= server'.sent
            BY <5>4
          <6>3. server'.sent = server.sent + 1 /\ server.sent \in Nat
            BY <1>5, <5>2
          <6>4. server'.blanks = server.blanks \cup ends
            BY <5>2
          <6> HIDE DEF total
          <6>5. \A b \in server'.blanks : b \in Nat /\ b > total /\ b <= server'.sent
            BY <6>1, <6>2, <6>3, <6>4
          <6> QED
            BY <6>5 DEF total
        <5> QED
          BY <1>5, <1>b, <5>2, <5>5
      <4>3. CASE HangUp
        <5>1. server'.sent = server.sent /\ server'.blanks = server.blanks
          BY <1>5, <4>3 DEF HangUp
        <5> QED
          BY <1>5, <3>1, <5>1
      <4> QED
        BY <2>2, <4>1, <4>2, <4>3
    <3> QED
      BY <1>2, <1>5, <3>1, <3>2 DEF Serves
  <2> QED
    BY <2>1, <2>2
<1>7. Reads'
  <2>1. got' \in 0..server'.sent
    BY <1>1, <1>3, <1>5, <1>6 DEF Reads
  <2> QED
    BY <1>1, <1>2, <1>3, <1>6, <2>1 DEF Reads, Whole
<1> QED
  BY <1>1, <1>2, <1>3, <1>6, <1>7

\* A script goes on to its next call with as much read as the marks say.
LEMMA GoOnReads ==
  ASSUME Sockets, Streams, result = "none", Protocol \notin ReadsAhead, Proceed,
         at.call \in 1..Len(Script[Protocol]), UNCHANGED << hops, server, result >>,
         got' \in 0..server.sent,
         LET p == Protocol  i == at.call  end == Len(Script[Protocol])
         IN  IF i = end THEN Whole(p, server.form, got') ELSE got' = Marks(p)[i + 1]
  PROVE  Streams'
<1>1. at'.hop = at.hop /\ at'.call = at.call + 1
  BY DEF Proceed, Sockets
<1>2. Protocol' = Protocol
  BY <1>1 DEF Protocol
<1>3. Serves /\ Len(Script[Protocol]) \in Nat
  BY Scripted DEF Streams
<1>4. Serves'
  BY <1>2, <1>3 DEF Serves
<1>5. Reads'
  <2>1. at'.call # 0
    BY <1>1, <1>3
  <2>2. at'.call \in 1..Len(Script[Protocol]) =>
          at.call # Len(Script[Protocol]) /\ got' = Marks(Protocol)[at'.call]
    BY <1>1, <1>3
  <2>3. at'.call > Len(Script[Protocol]) => at.call = Len(Script[Protocol])
    BY <1>1, <1>3
  <2> QED
    BY <1>2, <2>1, <2>2, <2>3 DEF Reads, Whole
<1> QED
  BY <1>4, <1>5 DEF Streams

\* Every step keeps account of what was read.
LEMMA StreamsNext == Sockets /\ Streams /\ [Next]_vars => Streams'
<1> SUFFICES ASSUME Sockets, Streams, [Next]_vars PROVE Streams'
  OBVIOUS
<1> DEFINE p   == Protocol
           i   == at.call
           end == Len(Script[p])
<1>0. p \in Protocols /\ end \in Nat /\ at.call \in Nat
  BY Scripted DEF Sockets
<1>1. CASE Answer \/ Deliver \/ SendPayload \/ HangUp
  BY <1>1, ServerMoves
\* behind an error, or where a reader reads ahead, there is nothing to show
<1>2. CASE result' \in {"error", "crash"}
  BY <1>2 DEF Streams
<1>3. CASE UNCHANGED << hops, at, result, got, server >>
  <2>1. Protocol' = Protocol /\ TheCall' = TheCall
    BY <1>3 DEF Protocol, TheCall
  <2> QED
    BY <1>3, <2>1 DEF Streams, Serves, Reads, Whole
<1>4. ASSUME result = "none", i \in 1..end, UNCHANGED hops, UNCHANGED at \/ Proceed,
             Protocol \in ReadsAhead
      PROVE  Streams'
  <2>1. Protocol' = Protocol
    <3>1. at'.hop = at.hop
      <4>1. CASE UNCHANGED at
        BY <4>1
      <4>2. CASE Proceed
        BY <4>2 DEF Proceed, Sockets
      <4> QED
        BY <1>4, <4>1, <4>2
    <3> QED
      BY <1>4, <3>1 DEF Protocol
  <2> QED
    BY <1>4, <2>1 DEF Streams
<1>5. ASSUME Protocol \notin ReadsAhead, result = "none", i \in 1..end
      PROVE  /\ Serves /\ Reads /\ Follows(p, server.form, i)
             /\ got \in 0..server.sent /\ server.sent \in Nat /\ Total(p, server.form) \in Nat
             /\ TheCall.op # "blank" => got = Marks(p)[i]
  <2>1. Serves /\ Reads
    BY <1>5 DEF Streams
  <2> QED
    BY <1>0, <1>5, <2>1, ScriptFollows, AnswersAdd DEF Serves, Reads
\* a call that reads nothing
<1>6. CASE DoLocal \/ DoWrite
  <2>1. /\ result = "none" /\ i \in 1..end /\ UNCHANGED << hops, got, server >>
        /\ TheCall.op \in {"local", "crash", "write"}
    BY <1>6 DEF DoLocal, DoWrite, In, Keep
  <2>2. (Proceed /\ UNCHANGED result) \/ ((\E way \in Ways : Fail(way)) /\ UNCHANGED at)
    BY <1>6 DEF DoLocal, DoWrite, Ways
  <2>3. CASE \E way \in Ways : Fail(way)
    BY <1>2, <2>3 DEF Fail
  <2>4. CASE Proceed /\ UNCHANGED result /\ Protocol \notin ReadsAhead
    <3>1. Follows(p, server.form, i) /\ Serves /\ Reads /\ got \in 0..server.sent /\ got = Marks(p)[i]
      BY <1>5, <2>1, <2>4
    <3>2. IF i = end THEN got = Total(p, server.form) ELSE got = Marks(p)[i + 1]
      BY <2>1, <3>1 DEF Follows, TheCall
    <3>3. i = end => Whole(p, server.form, got')
      BY <1>5, <2>1, <2>4, <3>2 DEF Whole
    <3> QED
      BY <2>1, <2>4, <3>1, <3>2, <3>3, GoOnReads
  <2> QED
    BY <1>4, <2>1, <2>2, <2>3, <2>4
\* a read that got what it wants
<1>7. CASE DoRead
  <2>1. /\ result = "none" /\ i \in 1..end /\ UNCHANGED << hops, server >> /\ TheCall.op = "read"
        /\ server.sent - got >= Wanted /\ got' = got + Wanted
    BY <1>7 DEF DoRead, In, Keep
  <2>2. (Proceed /\ UNCHANGED result) \/ ((\E way \in Ways : Fail(way)) /\ UNCHANGED at)
    BY <1>7 DEF DoRead, Ways
  <2>3. CASE \E way \in Ways : Fail(way)
    BY <1>2, <2>3 DEF Fail
  <2>4. CASE Proceed /\ UNCHANGED result /\ Protocol \notin ReadsAhead
    <3>1. Follows(p, server.form, i) /\ got \in 0..server.sent /\ server.sent \in Nat /\ got = Marks(p)[i]
      BY <1>5, <2>1, <2>4
    <3>2. /\ Wanted \in Nat
          /\ IF i = end THEN Total(p, server.form) = Marks(p)[i] + Wanted
                        ELSE Marks(p)[i + 1] = Marks(p)[i] + Wanted
      BY <2>1, <3>1 DEF Follows, TheCall, Wanted
    <3>3. got' \in 0..server.sent
      BY <2>1, <3>1, <3>2
    <3>4. IF i = end THEN got' = Total(p, server.form) ELSE got' = Marks(p)[i + 1]
      BY <2>1, <3>1, <3>2
    <3>5. i = end => Whole(p, server.form, got')
      BY <1>5, <2>1, <2>4, <3>4 DEF Whole
    <3> QED
      BY <2>1, <2>4, <3>3, <3>4, <3>5, GoOnReads
  <2> QED
    BY <1>4, <2>1, <2>2, <2>3, <2>4
\* the address of an upstream's answer, whether it came or not
<1>8. CASE DoSkip
  <2>1. /\ result = "none" /\ i \in 1..end /\ UNCHANGED << hops, server, result >>
        /\ TheCall.op = "skip" /\ Proceed
        /\ \/ server.sent - got >= Wanted /\ got' = got + Wanted
           \/ server.sent - got < Wanted /\ got' = server.sent
    BY <1>8 DEF DoSkip, In, Keep
  <2>2. CASE Protocol \notin ReadsAhead
    <3>1. Follows(p, server.form, i) /\ got \in 0..server.sent /\ server.sent \in Nat /\ got = Marks(p)[i]
      BY <1>5, <2>1, <2>2
    <3>2. /\ Wanted \in Nat /\ i = end /\ p \in Skipping
          /\ Marks(p)[i] + Wanted <= Total(p, server.form)
      BY <2>1, <3>1 DEF Follows, TheCall, Wanted
    <3>3. Total(p, server.form) \in Nat
      BY <1>0, <1>5, <2>1, <2>2, AnswersAdd DEF Serves
    <3>4. got' \in 0..server.sent /\ Whole(p, server.form, got')
      BY <2>1, <3>1, <3>2, <3>3 DEF Whole
    <3> QED
      BY <2>1, <2>2, <3>2, <3>4, GoOnReads
  <2> QED
    BY <1>4, <2>1, <2>2
\* the blank line, which ends the answer
<1>9. CASE DoReadUntilBlank
  <2>1. /\ result = "none" /\ i \in 1..end /\ UNCHANGED << hops, server >> /\ TheCall.op = "blank"
        /\ got' \in (got + 1)..server.sent
    BY <1>9 DEF DoReadUntilBlank, In, Keep
  <2>2. \/ got' = server.owed /\ Proceed /\ UNCHANGED result
        \/ got' \in server.blanks /\ Proceed /\ UNCHANGED result
        \/ (\E way \in Ways : Fail(way)) /\ UNCHANGED at
        \/ UNCHANGED << at, result >>
    BY <1>9 DEF DoReadUntilBlank, Ways
  <2>3. CASE \E way \in Ways : Fail(way)
    BY <1>2, <2>3 DEF Fail
  <2>4. ASSUME Protocol \notin ReadsAhead, ~(\E way \in Ways : Fail(way)) PROVE Streams'
    <3>1. /\ Follows(p, server.form, i) /\ Serves /\ Reads /\ got \in 0..server.sent
          /\ server.sent \in Nat
      BY <1>5, <2>1, <2>4
    <3>2. i = end /\ Len(Answers(p, server.form)) = 1 /\ p \in Blanks
      BY <2>1, <3>1 DEF Follows, TheCall
    <3>3. got' \in 0..server.sent /\ server.sent >= 1
      BY <2>1, <3>1
    <3>4. CASE UNCHANGED << at, result >>
      <4>1. Protocol' = Protocol /\ TheCall' = TheCall
        BY <2>1, <3>4 DEF Protocol, TheCall
      <4>2. Serves'
        BY <2>1, <3>1, <4>1 DEF Serves
      <4>3. Reads'
        BY <1>0, <2>1, <3>1, <3>3, <3>4, <4>1 DEF Reads, Whole
      <4> QED
        BY <2>1, <3>4, <4>2, <4>3 DEF Streams
    <3>5. CASE got' = server.owed /\ Proceed /\ UNCHANGED result
      <4>1. Owed(p, server.form, 0) = 0 /\ Total(p, server.form) = Owed(p, server.form, 1)
        BY <1>0, <3>1, <3>2, AnswersAdd DEF Serves, Total
      <4>2. server.answered = 1
        BY <3>1, <3>2, <3>3, <4>1 DEF Serves
      <4>3. got' = Total(p, server.form) /\ Whole(p, server.form, got')
        BY <1>5, <2>1, <2>4, <3>1, <3>3, <3>5, <4>1, <4>2 DEF Serves, Whole
      <4> QED
        BY <2>1, <2>4, <3>2, <3>3, <3>5, <4>3, GoOnReads
    <3>6. CASE got' \in server.blanks /\ Proceed /\ UNCHANGED result
      <4>1. Whole(p, server.form, got')
        BY <1>5, <2>1, <2>4, <3>1, <3>2, <3>3, <3>6 DEF Serves, Whole
      <4> QED
        BY <2>1, <2>4, <3>2, <3>3, <3>6, <4>1, GoOnReads
    <3> QED
      BY <2>2, <2>4, <3>4, <3>5, <3>6
  <2> QED
    BY <1>4, <2>1, <2>2, <2>3, <2>4
<1>k. \A f \in Forms : Total(p, f) \in Nat
  BY <1>0, AnswersAdd
\* the header of a reader that reads ahead
<1>10. CASE DoReadHeader
  <2>1. result = "none" /\ i \in 1..end /\ UNCHANGED hops /\ TheCall.op = "header"
    BY <1>10 DEF DoReadHeader, In, Keep
  <2>2. UNCHANGED at \/ Proceed
    BY <1>10 DEF DoReadHeader
  <2>3. Protocol \in ReadsAhead
    BY <1>5, <2>1 DEF Follows, TheCall
  <2> QED
    BY <1>4, <2>1, <2>2, <2>3
<1>11. CASE Dial
  <2>1. /\ i = 0 /\ at'.call = 1 /\ at'.hop = at.hop /\ result = "none"
        /\ UNCHANGED << hops, result, got, server >>
    BY <1>11 DEF Dial, MayDial, Proceed, Keep, Sockets
  <2>2. Protocol' = Protocol
    BY <2>1 DEF Protocol
  <2>3. ASSUME Protocol \notin ReadsAhead PROVE Serves' /\ Reads'
    <3>1. Serves /\ Reads /\ got = 0 /\ server.sent \in Nat /\ server.form \in Forms
      BY <2>1, <2>3 DEF Streams, Serves, Reads
    <3>2. (end = 0 => Total(p, server.form) = 0) /\ (end > 0 => Marks(p)[1] = 0)
      BY <1>0, <2>3, <3>1, ScriptFollows
    <3>3. Serves'
      BY <2>1, <2>2, <3>1 DEF Serves
    <3> QED
      BY <1>0, <1>k, <2>1, <2>2, <2>3, <3>1, <3>2, <3>3 DEF Reads, Whole
  <2> QED
    BY <2>1, <2>2, <2>3 DEF Streams
<1>12. CASE NextHop
  <2>1. PICK f \in Forms : server' = NewServer(f)
    BY <1>12 DEF NextHop
  <2>2. at'.call = 0 /\ got' = 0 /\ server'.sent = 0 /\ result' = "none"
    BY <1>12, <2>1 DEF NextHop, HopDone, NewServer
  <2>3. Protocol' \in Protocols
    <3>1. at'.hop \in 1..Len(hops) /\ hops' = hops
      BY <1>12 DEF NextHop, HopDone, Keep, Sockets
    <3> QED
      BY <3>1 DEF Protocol, Sockets
  <2>4. Len(Script[Protocol']) \in Nat
    BY <2>3, ScriptTyped, LenProperties
  <2>5. Serves'
    <3>1. Len(Answers(Protocol', f)) \in 0..3 /\ Owed(Protocol', f, 0) = 0
      BY <2>3, AnswersAdd
    <3> QED
      BY <2>1, <3>1 DEF NewServer, Serves
  <2>6. Reads'
    BY <2>2, <2>4 DEF Reads
  <2> QED
    BY <2>2, <2>5, <2>6 DEF Streams
<1>13. CASE Return
  <2>1. i > end /\ result = "none" /\ UNCHANGED << hops, at, got, server >>
    BY <1>13 DEF Return, HopDone, Keep
  <2>2. Protocol' = Protocol /\ TheCall' = TheCall
    BY <2>1 DEF Protocol, TheCall
  <2> QED
    BY <2>1, <2>2 DEF Streams, Serves, Reads, Whole
<1>14. CASE NoAddress \/ DialFails \/ ReadFails \/ HeaderFails \/ BlankFails \/ Measured
  <2>1. result' \in {"error", "crash"} \/ UNCHANGED << hops, at, result, got, server >>
    BY <1>14 DEF NoAddress, DialFails, ReadFails, HeaderFails, BlankFails, Measured, Fail, Keep
  <2> QED
    BY <1>2, <1>3, <2>1
<1>15. CASE UNCHANGED vars
  BY <1>3, <1>15 DEF vars
<1> QED
  BY <1>1, <1>6, <1>7, <1>8, <1>9, <1>10, <1>11, <1>12, <1>13, <1>14, <1>15 DEF Next, Client

\* At every call the reader is where the protocol says, in whatever pieces the server sent
\* (io.ReadFull, and the loop over doneHTTPResponse).
THEOREM StreamsInvariant == Spec => [](Sockets /\ Streams)
<1>1. Init => Sockets /\ Streams
  BY SocketsInit, StreamsInit
<1>2. Sockets /\ Streams /\ [Next]_vars => (Sockets /\ Streams)'
  BY SocketsNext, StreamsNext
<1> QED
  BY <1>1, <1>2, PTL DEF Spec

\* The connection begins with the first byte of the target's stream: of the readers that do not
\* read ahead none takes a byte of it or leaves one of the answer, but for the upstreams' skip
\* and their wait for a blank line (upstream.go, 306 and 315).
THEOREM StreamsAreExact == Spec => []StreamExact
<1>1. Sockets /\ Streams => StreamExact
  <2> SUFFICES ASSUME Sockets, Streams, result = "conn", Protocol \notin ReadsAhead
               PROVE  /\ got < server.owed => Protocol \in Skipping
                      /\ got > server.owed => Protocol \in Blanks /\ got \in server.blanks
    BY DEF StreamExact, Skipping, Blanks
  <2> DEFINE p    == Protocol
             f    == server.form
             last == Len(Answers(p, f))
  <2>1. Serves /\ Reads /\ at.call > Len(Script[p])
    BY DEF Streams
  <2>2. got \in 0..server.sent /\ Whole(p, f, got)
    BY <2>1 DEF Reads
  <2>3. p \in Protocols /\ f \in Forms
    BY <2>1, Scripted DEF Serves
  <2>4. CASE server.answered = last
    <3>1. server.owed = Total(p, f)
      BY <2>1, <2>4 DEF Serves, Total
    <3> QED
      BY <2>2, <3>1 DEF Whole
  <2>5. CASE server.answered # last
    <3>1. /\ server.answered \in 0..last /\ server.answered < last /\ server.sent \in Nat
          /\ server.owed = Owed(p, f, server.answered) /\ server.sent <= server.owed
      BY <2>1, <2>3, <2>5, AnswersAdd DEF Serves
    <3>2. server.owed \in Nat /\ Total(p, f) \in Nat /\ server.owed < Total(p, f)
      BY <2>3, <3>1, AnswersAdd
    <3>3. got < Total(p, f) /\ got <= server.owed
      BY <2>2, <3>1, <3>2
    <3> QED
      BY <2>2, <3>2, <3>3 DEF Whole
  <2> QED
    BY <2>4, <2>5
<1> QED
  BY <1>1, StreamsInvariant, PTL

-----------------------------------------------------------------------------
(* The router: what was made, ... *)

\* Tail takes at most the first one away, and adds none.
LEMMA ToSetTail ==
  ASSUME NEW S, NEW s \in Seq(S), s # << >>
  PROVE  /\ Tail(s) \in Seq(S) /\ s[1] \in S /\ s[1] \in ToSet(s)
         /\ Len(Tail(s)) = Len(s) - 1 /\ Len(s) \in Nat
         /\ ToSet(Tail(s)) \subseteq ToSet(s)
         /\ ToSet(s) \subseteq ToSet(Tail(s)) \cup {s[1]}
<1>1. /\ Tail(s) \in Seq(S) /\ Head(s) \in S /\ Head(s) = s[1]
      /\ Len(Tail(s)) = Len(s) - 1 /\ \A i \in 1..Len(Tail(s)) : Tail(s)[i] = s[i + 1]
  BY HeadTailProperties
<1>2. DOMAIN s = 1..Len(s) /\ DOMAIN Tail(s) = 1..(Len(s) - 1) /\ Len(s) \in Nat /\ Len(s) # 0
  BY <1>1, LenProperties, EmptySeq
<1>3. ASSUME NEW i \in 1..Len(s) PROVE s[i] \in ToSet(Tail(s)) \cup {s[1]}
  <2>1. CASE i = 1
    BY <2>1
  <2>2. CASE i # 1
    <3>1. i - 1 \in DOMAIN Tail(s) /\ Tail(s)[i - 1] = s[i]
      BY <1>1, <1>2, <2>2
    <3> QED
      BY <3>1 DEF ToSet
  <2> QED
    BY <2>1, <2>2
<1>4. ASSUME NEW i \in 1..(Len(s) - 1) PROVE Tail(s)[i] \in ToSet(s)
  <2>1. i + 1 \in DOMAIN s /\ Tail(s)[i] = s[i + 1]
    BY <1>1, <1>2
  <2> QED
    BY <2>1 DEF ToSet
<1>5. s[1] \in ToSet(s)
  BY <1>2 DEF ToSet
<1> QED
  BY <1>1, <1>2, <1>3, <1>4, <1>5 DEF ToSet

\* What is in a sequence is of its elements' kind.
LEMMA ToSetOf ==
  ASSUME NEW S, NEW s \in Seq(S)
  PROVE  ToSet(s) \subseteq S /\ (ToSet(s) = {} <=> s = << >>)
<1>1. DOMAIN s = 1..Len(s) /\ Len(s) \in Nat /\ \A i \in 1..Len(s) : s[i] \in S
  BY LenProperties, ElementOfSeq
<1>2. s = << >> <=> Len(s) = 0
  BY EmptySeq
<1>3. ToSet(s) \subseteq S
  BY <1>1 DEF ToSet
<1>4. CASE s = << >>
  <2>1. DOMAIN s = {}
    BY <1>1, <1>2, <1>4
  <2> QED
    BY <1>3, <1>4, <2>1 DEF ToSet
<1>5. CASE s # << >>
  <2>1. 1 \in DOMAIN s
    BY <1>1, <1>2, <1>5
  <2>2. s[1] \in ToSet(s)
    BY <2>1 DEF ToSet
  <2> QED
    BY <1>3, <1>5, <2>2
<1> QED
  BY <1>4, <1>5

\* A set of numbers up to some bound has a greatest one.
LEMMA GreatestExists ==
  ASSUME NEW N \in Nat, NEW I \in SUBSET (1..N), I # {}
  PROVE  \E i \in I : \A j \in I : j <= i
<1> DEFINE S == {N - i : i \in I}
<1>0. S \in SUBSET Nat /\ S # {}
  <2>1. \A i \in I : N - i \in Nat
    OBVIOUS
  <2>2. PICK i \in I : TRUE
    OBVIOUS
  <2>3. N - i \in S
    BY <2>2
  <2> QED
    BY <2>1, <2>3
<1>1. IsWellFoundedOn(OpToRel(<, Nat), Nat)
  BY NatLessThanWellFounded
<1>2. PICK x \in S : \A y \in S : ~(<<y, x>> \in OpToRel(<, Nat))
  <2> HIDE DEF S
  <2> QED
    BY <1>0, <1>1, WFMin, Zenon
<1>3. \A y \in S : ~(y < x)
  BY <1>0, <1>2 DEF OpToRel
<1>4. PICK i \in I : x = N - i
  BY <1>2
<1>5. ASSUME NEW j \in I PROVE j <= i
  BY <1>3, <1>4
<1> QED
  BY <1>5

\* Each name was registered by an entry of that name.
LEMMA BuiltOf ==
  ASSUME NEW es, EntriesOK(es)
  PROVE  /\ DOMAIN Built(es) = {es[i].name : i \in 1..Len(es)}
         /\ \A n \in DOMAIN Built(es) :
              Latest(es, n) \in 1..Len(es) /\ es[Latest(es, n)].name = n /\ Built(es)[n] = es[Latest(es, n)]
<1>1. DOMAIN Built(es) = {es[i].name : i \in 1..Len(es)}
  BY DEF Built
<1>2. /\ Len(es) \in Nat
      /\ \A i \in 1..Len(es) : es[i] \in Entries
  BY LenProperties, ElementOfSeq DEF EntriesOK
<1>3. ASSUME NEW n \in DOMAIN Built(es)
      PROVE  Latest(es, n) \in 1..Len(es) /\ es[Latest(es, n)].name = n
  <2> DEFINE I == {i \in 1..Len(es) : es[i].name = n}
  <2>1. I # {} /\ I \in SUBSET (1..Len(es))
    BY <1>1
  <2>2. PICK i \in I : \A j \in I : j <= i
    <3> HIDE DEF I
    <3> QED
      BY <1>2, <2>1, GreatestExists
  <2>3. ASSUME NEW j \in 1..Len(es), es[j].name = n, j # i PROVE Earlier(es, j, i)
    <3>1. j < i /\ es[i].name = n
      BY <2>2, <2>3
    <3>2. es[j].kind = "proxy" <=> es[i].kind = "proxy"
      BY <2>3, <3>1 DEF EntriesOK, Proxies, Groups
    <3> QED
      BY <3>1, <3>2 DEF Earlier
  <2>4. \E k \in 1..Len(es) :
          es[k].name = n /\ \A j \in 1..Len(es) : es[j].name = n => j = k \/ Earlier(es, j, k)
    BY <2>2, <2>3
  <2> QED
    BY <2>4 DEF Latest
<1> QED
  BY <1>1, <1>3 DEF Built

\* What was made: the proxies lead nowhere, the groups to their members.
MadeOK ==
  /\ DOMAIN made \subseteq Names /\ registry \subseteq DOMAIN made
  /\ \A n \in DOMAIN made :
       /\ Members(n) \in Seq(Targets)
       /\ IF n \in Proxies THEN Kind(n) = "proxy" /\ Members(n) = << >> ELSE Kind(n) # "proxy"
       /\ Kind(n) \in {"failover", "chain", "load-balance"} => Members(n) # << >>
       /\ Kind(n) = "chain" => ToSet(Members(n)) \subseteq DOMAIN made \cup Builtin
  /\ \A n, m \in URLTests : n = m

\* What was to be made, until it was.
Unbuilt ==
  phase = "off" =>
    /\ DOMAIN setup = {"mode", "proxies", "rules", "dynamic", "added", "asks", "changes", "outages"}
    /\ EntriesOK(setup.proxies)
    /\ made = << >> /\ registry = {}
    /\ \A m \in Targets : probe[m].at = "none"
    /\ \A c \in Clients : conn[c].pc = "idle"

Domains == conn = [c \in Clients |-> conn[c]] /\ up \subseteq Proxies

\* buildRouter makes what the configuration says.
LEMMA BuildMade ==
  ASSUME MadeOK, Unbuilt, BuildRouter
  PROVE  MadeOK'
<1> DEFINE es == setup.proxies
           b  == Built(es)
<1>1. EntriesOK(es) /\ phase = "off"
  BY DEF Unbuilt, BuildRouter
<1>2. CASE made' = made /\ registry' = registry
  BY <1>2 DEF MadeOK, Members, Kind, URLTests
<1>3. CASE ~(made' = made /\ registry' = registry)
  <2>1. AllBuild(es) /\ made' = b /\ registry' = DOMAIN b
    BY <1>3 DEF BuildRouter
  <2>2. /\ Len(es) \in Nat
        /\ \A i \in 1..Len(es) : es[i] \in Entries
    BY <1>1, LenProperties, ElementOfSeq DEF EntriesOK
  <2>3. /\ DOMAIN b = {es[i].name : i \in 1..Len(es)}
        /\ \A n \in DOMAIN b : \E i \in 1..Len(es) : es[i].name = n /\ b[n] = es[i]
    BY <1>1, BuiltOf
  <2> HIDE DEF b, es
  <2>4. DOMAIN b \subseteq Names
    BY <2>2, <2>3 DEF Entries
  <2>5. ASSUME NEW n \in DOMAIN b
        PROVE  /\ b[n].members \in Seq(Targets)
               /\ IF n \in Proxies THEN b[n].kind = "proxy" /\ b[n].members = << >> ELSE b[n].kind # "proxy"
               /\ b[n].kind \in {"failover", "chain", "load-balance"} => b[n].members # << >>
               /\ b[n].kind = "chain" => ToSet(b[n].members) \subseteq DOMAIN b \cup Builtin
    <3>1. PICK i \in 1..Len(es) : es[i].name = n /\ b[n] = es[i]
      BY <2>3
    <3>2. IF n \in Proxies THEN es[i].kind = "proxy" /\ es[i].members = << >> ELSE es[i].kind # "proxy"
      BY <1>1, <3>1 DEF EntriesOK, Proxies, Groups
    <3>3. MayBuild({es[j].name : j \in {k \in 1..Len(es) : Earlier(es, k, i)}}, es[i])
      BY <2>1 DEF AllBuild
    <3>4. {es[j].name : j \in {k \in 1..Len(es) : Earlier(es, k, i)}} \subseteq DOMAIN b
      BY <2>3
    <3> QED
      BY <2>2, <3>1, <3>2, <3>3, <3>4 DEF MayBuild, Entries
  <2>6. ASSUME NEW n \in DOMAIN b, NEW m \in DOMAIN b, b[n].kind = "urltest", b[m].kind = "urltest"
        PROVE  n = m
    <3>1. PICK i \in 1..Len(es) : es[i].name = n /\ b[n] = es[i]
      BY <2>3
    <3>2. PICK j \in 1..Len(es) : es[j].name = m /\ b[m] = es[j]
      BY <2>3
    <3> QED
      BY <1>1, <2>6, <3>1, <3>2 DEF EntriesOK
  <2> QED
    BY <2>1, <2>4, <2>5, <2>6 DEF MadeOK, Members, Kind, URLTests
<1> QED
  BY <1>2, <1>3

\* A proxy that is added changes nothing that leads anywhere.
LEMMA AddMade ==
  ASSUME MadeOK, AddProxy
  PROVE  /\ MadeOK'
         /\ DOMAIN made \subseteq DOMAIN made' /\ registry \subseteq registry'
         /\ \A n \in DOMAIN made : Members(n)' = Members(n) /\ Kind(n)' = Kind(n)
         /\ \A n \in DOMAIN made' \ DOMAIN made :
              n \in Proxies /\ Members(n)' = << >> /\ Kind(n)' = "proxy"
         /\ URLTests' = URLTests
<1>1. PICK p \in Proxies :
        /\ registry' = registry \cup {p}
        /\ made' = [n \in DOMAIN made \cup {p} |->
                      IF n = p THEN [name |-> p, kind |-> "proxy", members |-> << >>, default |-> ""]
                      ELSE made[n]]
  BY DEF AddProxy
<1>2. /\ DOMAIN made' = DOMAIN made \cup {p}
      /\ made'[p].kind = "proxy" /\ made'[p].members = << >>
      /\ \A n \in DOMAIN made \ {p} : made'[n] = made[n]
  BY <1>1
<1>3. \A n \in DOMAIN made : Members(n)' = Members(n) /\ Kind(n)' = Kind(n)
  BY <1>2 DEF MadeOK, Members, Kind
<1>4. \A n \in DOMAIN made' \ DOMAIN made : n \in Proxies /\ Members(n)' = << >> /\ Kind(n)' = "proxy"
  BY <1>2 DEF Members, Kind
<1>5. URLTests' = URLTests
  BY <1>2, <1>3, <1>4 DEF URLTests
<1>6. DOMAIN made' \subseteq Names /\ registry' \subseteq DOMAIN made'
  BY <1>1, <1>2 DEF MadeOK, Names
<1>7. ASSUME NEW n \in DOMAIN made'
      PROVE  /\ Members(n)' \in Seq(Targets)
             /\ IF n \in Proxies THEN Kind(n)' = "proxy" /\ Members(n)' = << >> ELSE Kind(n)' # "proxy"
             /\ Kind(n)' \in {"failover", "chain", "load-balance"} => Members(n)' # << >>
             /\ Kind(n)' = "chain" => ToSet(Members(n)') \subseteq DOMAIN made' \cup Builtin
  <2>1. CASE n \in DOMAIN made
    BY <1>2, <1>3, <2>1 DEF MadeOK
  <2>2. CASE n \notin DOMAIN made
    <3>1. n \in Proxies /\ Members(n)' = << >> /\ Kind(n)' = "proxy"
      BY <1>4, <1>7, <2>2
    <3>2. << >> \in Seq(Targets)
      BY EmptySeq
    <3> QED
      BY <3>1, <3>2
  <2> QED
    BY <2>1, <2>2
<1>8. MadeOK'
  BY <1>5, <1>6, <1>7 DEF MadeOK
<1> QED
  BY <1>1, <1>2, <1>3, <1>4, <1>5, <1>8

-----------------------------------------------------------------------------
(* ... what was measured, ... *)

ProbeTypes ==
  /\ probe \in [Targets -> [at : {"none", "append", "done"}, took : 0..2, met : SUBSET Targets]]
  /\ idx \in [Groups -> Nat]

\* Only a member measures, and only its append meets another.
ProbeOK ==
  /\ ProbeTypes
  /\ \A m \in Targets : probe[m].at = "none" => probe[m].met = {} /\ probe[m].took = 0
  /\ phase = "probe" =>
       URLTests # {} /\ \A m \in Targets : probe[m].at # "none" => m \in ToSet(Members(Probed))
  /\ BestMeasured

BestOK == \A g \in URLTests : g \in DOMAIN best /\ best[g] \in ToSet(Members(g)) \cup {""}

\* Nobody measures but the round of probes.
LEMMA ProbeStays ==
  ASSUME MadeOK, ProbeOK, BestOK, UNCHANGED << probe, best >>, idx' \in [Groups -> Nat],
         \/ UNCHANGED made /\ (phase' = phase \/ phase' = "crashed")
         \/ UNCHANGED phase /\ phase = "on" /\ URLTests' = URLTests
              /\ \A n \in DOMAIN made : Members(n)' = Members(n)
  PROVE  ProbeOK' /\ BestOK'
<1>1. probe' = probe /\ best' = best
  OBVIOUS
<1>2. ProbeTypes' /\ \A m \in Targets : probe'[m].at = "none" => probe'[m].met = {} /\ probe'[m].took = 0
  BY <1>1 DEF ProbeOK, ProbeTypes
<1>3. URLTests' = URLTests /\ Met' = Met /\ \A g \in URLTests : Members(g)' = Members(g)
  BY <1>1 DEF URLTests, Kind, Members, Met
<1>4. BestMeasured' /\ BestOK'
  BY <1>1, <1>3 DEF ProbeOK, BestMeasured, BestOK
<1>5. (phase = "probe" =>
        URLTests # {} /\ \A m \in Targets : probe[m].at # "none" => m \in ToSet(Members(Probed)))'
  <2>1. CASE phase' = "probe"
    <3>1. phase = "probe" /\ made' = made
      BY <2>1
    <3> QED
      BY <1>1, <3>1 DEF ProbeOK, URLTests, Kind, Members, Probed
  <2> QED
    BY <2>1
<1> QED
  BY <1>2, <1>4, <1>5 DEF ProbeOK

\* Before the first round nothing was measured.
LEMMA BuildProbes ==
  ASSUME MadeOK, Unbuilt, ProbeOK, BestOK, MadeOK', BuildRouter
  PROVE  ProbeOK' /\ BestOK'
<1> DEFINE b == Built(setup.proxies)
<1>1. /\ phase = "off" /\ probe' = probe /\ idx' = idx
      /\ \A m \in Targets : probe[m].at = "none"
  BY DEF BuildRouter, Unbuilt
<1>2. ProbeTypes' /\ \A m \in Targets : probe'[m].at = "none" /\ probe'[m].met = {} /\ probe'[m].took = 0
  BY <1>1 DEF ProbeOK, ProbeTypes
<1>3. phase' = "probe" => made' = b /\ \E n \in DOMAIN b : b[n].kind = "urltest"
  BY DEF BuildRouter
<1>4. phase' = "probe" => URLTests' # {}
  <2> HIDE DEF b
  <2> QED
    BY <1>3 DEF URLTests, Kind
<1>5. BestOK'
  <2>1. CASE made' = made /\ best' = best
    BY <2>1 DEF BestOK, URLTests, Kind, Members
  <2>2. CASE made' = b /\ best' = [n \in DOMAIN b |-> FirstOf(b[n].members)]
    <3> HIDE DEF b
    <3>1. ASSUME NEW g \in DOMAIN b
          PROVE  FirstOf(b[g].members) \in ToSet(b[g].members) \cup {""}
      <4>1. b[g].members \in Seq(Targets)
        BY <2>2 DEF MadeOK, Members
      <4> QED
        BY <4>1, ToSetTail DEF FirstOf
    <3> QED
      BY <2>2, <3>1 DEF BestOK, URLTests, Kind, Members
  <2> QED
    BY <2>1, <2>2 DEF BuildRouter
<1>6. BestMeasured'
  <2> SUFFICES ASSUME NEW g \in URLTests', NEW m \in ToSet(Members(g)') PROVE ~(probe'[m].took > 0)
    BY <1>5 DEF BestMeasured, BestOK
  <2>1. m \in Targets
    BY ToSetOf DEF MadeOK, URLTests
  <2> QED
    BY <1>2, <2>1
<1> QED
  BY <1>2, <1>4, <1>5, <1>6 DEF ProbeOK

\* The round of probes keeps what was measured, and ends with the best of it.
LEMMA RoundProbes ==
  ASSUME MadeOK, ProbeOK, BestOK, Probing
  PROVE  ProbeOK' /\ BestOK'
<1>0. phase = "probe" /\ made' = made /\ idx' = idx /\ URLTests' = URLTests /\ Probed' = Probed
  BY DEF Probing, Measure, Appends, Torn, ProbeEnds, groups, URLTests, Kind, Probed
<1>1. Probed \in URLTests /\ Members(Probed) \in Seq(Targets) /\ ToSet(Members(Probed)) \subseteq Targets
  <2>1. Probed \in URLTests
    BY <1>0 DEF ProbeOK, Probed
  <2>2. Members(Probed) \in Seq(Targets)
    BY <2>1 DEF MadeOK, URLTests
  <2> QED
    BY <2>1, <2>2, ToSetOf
<1>2. ASSUME NEW m \in Targets, Measure(m) PROVE ProbeOK' /\ BestOK'
  <2>1. PICK took \in 0..2 :
          probe' = [n \in Targets |->
            IF n = m THEN [at |-> "append", took |-> took, met |-> Appending]
            ELSE IF n \in Appending THEN [probe[n] EXCEPT !.met = @ \cup {m}]
            ELSE probe[n]]
    BY <1>2 DEF Measure
  <2>2. m \in ToSet(Members(Probed)) /\ phase' = phase /\ best' = best
    BY <1>2 DEF Measure, groups
  <2>3. ProbeTypes'
    BY <1>0, <2>1 DEF ProbeOK, ProbeTypes, Appending
  <2>4. /\ probe'[m].at = "append"
        /\ \A n \in Targets \ {m} : probe'[n].at = probe[n].at /\ probe'[n].took = probe[n].took
             /\ (probe[n].at = "none" => probe'[n] = probe[n])
    BY <2>1 DEF ProbeOK, ProbeTypes, Appending
  <2>5. BestMeasured' /\ BestOK'
    BY <1>0, <2>2 DEF BestMeasured, BestOK, Members
  <2>6. \A n \in Targets : probe'[n].at = "none" => probe'[n].met = {} /\ probe'[n].took = 0
    BY <2>4 DEF ProbeOK
  <2>7. \A n \in Targets : probe'[n].at # "none" => n \in ToSet(Members(Probed))
    BY <1>0, <2>2, <2>4 DEF ProbeOK
  <2> QED
    BY <1>0, <1>1, <2>3, <2>5, <2>6, <2>7 DEF ProbeOK, Members
<1>3. ASSUME NEW m \in Targets, Appends(m) PROVE ProbeOK' /\ BestOK'
  <2>1. probe[m].at = "append" /\ probe' = [probe EXCEPT ![m].at = "done"] /\ phase' = phase /\ best' = best
    BY <1>3 DEF Appends, Appending, groups
  <2>2. ProbeTypes' /\ probe'[m].at = "done" /\ \A n \in Targets \ {m} : probe'[n] = probe[n]
    BY <1>0, <2>1 DEF ProbeOK, ProbeTypes
  <2>3. BestMeasured' /\ BestOK'
    BY <1>0, <2>1 DEF BestMeasured, BestOK, Members
  <2> QED
    BY <1>0, <2>1, <2>2, <2>3 DEF ProbeOK, Members
<1>4. CASE Torn
  BY <1>0, <1>4, ProbeStays DEF Torn, groups, ProbeOK, ProbeTypes
<1>5. CASE ProbeEnds
  <2>1. probe' = probe /\ phase' = "on" /\ Met' = Met
    BY <1>5 DEF ProbeEnds, Met
  <2>2. ProbeTypes' /\ \A m \in Targets : probe'[m].at = "none" => probe'[m].met = {} /\ probe'[m].took = 0
    BY <1>0, <2>1 DEF ProbeOK, ProbeTypes
  <2>3. Met \subseteq ToSet(Members(Probed))
    BY <1>0 DEF ProbeOK, Met
  <2>4. \A m \in ToSet(Members(Probed)) \ Met : probe[m].took > 0 =>
          \E own \in GoodOf(Own) : own.took = probe[m].took
    <3> SUFFICES ASSUME NEW m \in ToSet(Members(Probed)) \ Met, probe[m].took > 0
                 PROVE  \E own \in GoodOf(Own) : own.took = probe[m].took
      OBVIOUS
    <3>1. probe[m].took # 0
      BY <1>1 DEF ProbeOK, ProbeTypes
    <3>2. [name |-> m, took |-> probe[m].took, err |-> FALSE] \in Own
      BY <3>1 DEF Own
    <3> QED
      BY <3>2 DEF GoodOf
  <2>5. BestOK' /\ BestMeasured'
    <3>1. CASE GoodOf(Own) = {} /\ best' = best
      <4>1. \A g \in URLTests : g = Probed
        BY <1>1 DEF MadeOK
      <4>2. \A m \in ToSet(Members(Probed)) \ Met : ~(probe[m].took > 0)
        BY <2>4, <3>1
      <4>3. \A g \in URLTests : Members(g)' = Members(g)
        BY <1>0 DEF Members
      <4> QED
        BY <1>0, <2>1, <3>1, <4>1, <4>2, <4>3 DEF BestOK, BestMeasured
    <3>2. ASSUME NEW r \in GoodOf(Own \cup Mixed), \A own \in GoodOf(Own) : r.took <= own.took,
                 best' = [best EXCEPT ![Probed] = r.name]
          PROVE  BestOK' /\ BestMeasured'
      <4>1. \A g \in URLTests : g = Probed
        BY <1>1 DEF MadeOK
      <4>2. best'[Probed] = r.name
        BY <1>1, <3>2 DEF BestOK
      <4>3. CASE r \in Own
        <5>1. PICK m \in ToSet(Members(Probed)) \ Met : r.name = m /\ r.took = probe[m].took /\ probe[m].took # 0
          <6>1. PICK m \in ToSet(Members(Probed)) \ Met :
                  r = [name |-> m, took |-> probe[m].took, err |-> probe[m].took = 0]
            BY <4>3 DEF Own
          <6>2. ~r.err
            BY <3>2 DEF GoodOf
          <6> QED
            BY <6>1, <6>2
        <5>2. probe[m].took \in 1..2 /\ \A n \in ToSet(Members(Probed)) : probe[n].took \in 0..2
          BY <1>1, <5>1 DEF ProbeOK, ProbeTypes
        <5>3. ASSUME NEW n \in ToSet(Members(Probed)) \ Met, probe[n].took > 0
              PROVE  probe[m].took \in 1..probe[n].took
          BY <2>4, <3>2, <5>1, <5>2, <5>3
        <5> QED
          BY <1>0, <1>1, <2>1, <3>2, <4>1, <4>2, <5>1, <5>3 DEF BestOK, BestMeasured, Members
      <4>4. CASE r \in Mixed
        <5>1. Met # {} /\ r.name \in Met \cup {""}
          BY <4>4 DEF Mixed
        <5> QED
          BY <1>0, <1>1, <2>1, <2>3, <3>2, <4>1, <4>2, <5>1 DEF BestOK, BestMeasured, Members
      <4> QED
        BY <3>2, <4>3, <4>4 DEF GoodOf
    <3> QED
      BY <1>5, <3>1, <3>2 DEF ProbeEnds
  <2> QED
    BY <2>1, <2>2, <2>5 DEF ProbeOK
<1> QED
  BY <1>2, <1>3, <1>4, <1>5 DEF Probing

-----------------------------------------------------------------------------
(* ... and who connects.  A connection's way through the groups is its     *)
(* stack, the group called last first.                                     *)

Fields == {"pc", "want", "stack", "ok", "why", "route", "steady"}

Places == {"idle", "first", "get", "group", "dial", "back", "made", "failed"}

Tries == Targets \cup {""}

Frames == [name : Groups, todo : Seq(Tries)]

\* A call of a group that was made; what it has left to try are its members.
FrameOK(f) ==
  /\ f.name \in DOMAIN made
  /\ Kind(f.name) \in {"failover", "chain"} =>
       f.todo # << >> /\ ToSet(f.todo) \subseteq ToSet(Members(f.name))

Shaped(rec) ==
  /\ DOMAIN rec = Fields /\ rec.pc \in Places /\ rec.ok \in BOOLEAN
  /\ rec.stack \in Seq(Frames) /\ \A i \in 1..Len(rec.stack) : FrameOK(rec.stack[i])
  /\ rec.steady \subseteq registry \ (Proxies \ up)
  /\ rec.pc = "group" => rec.stack # << >>
  /\ rec.pc \in {"idle", "first", "made", "failed"} => rec.stack = << >>
  /\ rec.pc = "idle" => rec.steady = {}
  /\ rec.pc = "first" => rec.route = "first"
  /\ rec.pc = "dial" => rec.want \in Proxies \cup {"DIRECT"}
  /\ rec.pc = "made" => rec.ok
  /\ rec.pc = "failed" => ~rec.ok

Reach(t) == Onward(Onward({t}))

\* It never leaves what its target leads to.
OnRoute(rec) ==
  rec.route # "first" /\ ~HasSelector =>
    /\ rec.pc = "get" => rec.want \in Reach(rec.route) \cup {""}
    /\ rec.pc = "dial" => rec.want \in Leads(rec.route)
    /\ rec.pc \in {"back", "made"} /\ rec.ok => rec.want \in Leads(rec.route)
    /\ \A i \in 1..Len(rec.stack) : rec.stack[i].name \in Reach(rec.route)

\* A failover group that was a rule's target, and there all the time, ...
Failing(rec) == rec.route \in rec.steady \cap Groups /\ Kind(rec.route) = "failover"

Live(rec) == Proxies \cap ToSet(Members(rec.route)) \cap rec.steady

Bottom(rec) == rec.stack[Len(rec.stack)]

\* ... has its live members before it, and what it tried and lost is not one.
Falls(rec) ==
  Failing(rec) =>
    /\ rec.stack = << >> =>
         /\ rec.pc # "dial"
         /\ rec.pc = "get" => rec.want = rec.route
         /\ rec.pc \in {"back", "failed"} /\ ~rec.ok => Live(rec) = {}
    /\ rec.stack # << >> =>
         /\ Bottom(rec).name = rec.route /\ Live(rec) \subseteq ToSet(Bottom(rec).todo)
         /\ Len(rec.stack) = 1 =>
              /\ rec.pc \in {"get", "dial"} => rec.want = Bottom(rec).todo[1]
              /\ rec.pc = "back" /\ ~rec.ok => Bottom(rec).todo[1] \notin Live(rec)
         /\ Len(rec.stack) > 1 => Bottom(rec).todo[1] \notin Proxies

ConnOK(rec) == Shaped(rec) /\ OnRoute(rec) /\ Falls(rec)

\* How long the way is: one call, ...
LEMMA OneIsOne == ASSUME NEW k, k = 1 PROVE ~(k > 1)
OBVIOUS

\* ... or more.
LEMMA OneOrMore == ASSUME NEW k \in Nat \ {0} PROVE k = 1 \/ (k > 1 /\ k # 1 /\ k \in 1..k)
OBVIOUS

\* A call on the stack of calls, ...
LEMMA Pushed ==
  ASSUME NEW s \in Seq(Frames), NEW f \in Frames
  PROVE  /\ << f >> \o s \in Seq(Frames) /\ Len(s) \in Nat
         /\ Len(<< f >> \o s) = Len(s) + 1
         /\ (<< f >> \o s)[1] = f
         /\ \A i \in 2..(Len(s) + 1) : (<< f >> \o s)[i] = s[i - 1]
<1> DEFINE t == << f >>
<1>1. t \in Seq(Frames) /\ Len(t) = 1 /\ t[1] = f /\ Len(s) \in Nat
  BY LenProperties
<1> HIDE DEF t
<1>a. /\ t \o s \in Seq(Frames) /\ Len(t \o s) = Len(t) + Len(s)
      /\ \A i \in 1..(Len(t) + Len(s)) : (t \o s)[i] = IF i <= Len(t) THEN t[i] ELSE s[i - Len(t)]
  BY <1>1, ConcatProperties
<1>2. /\ t \o s \in Seq(Frames) /\ Len(t \o s) = 1 + Len(s)
      /\ \A i \in 1..(1 + Len(s)) : (t \o s)[i] = IF i <= 1 THEN t[i] ELSE s[i - 1]
  BY <1>1, <1>a
<1>3. t \o s \in Seq(Frames) /\ Len(s) \in Nat /\ Len(t \o s) = Len(s) + 1 /\ (t \o s)[1] = f
      /\ \A i \in 2..(Len(s) + 1) : (t \o s)[i] = s[i - 1]
  BY <1>1, <1>2
<1> QED
  BY <1>3 DEF t

\* ... the last one's return, ...
LEMMA Popped ==
  ASSUME NEW s \in Seq(Frames), s # << >>
  PROVE  /\ Tail(s) \in Seq(Frames) /\ Len(s) \in Nat \ {0} /\ Len(Tail(s)) = Len(s) - 1
         /\ Tail(s) = << >> <=> Len(s) = 1
         /\ \A i \in 1..(Len(s) - 1) : Tail(s)[i] = s[i + 1]
<1>1. /\ Tail(s) \in Seq(Frames) /\ Len(Tail(s)) = Len(s) - 1
      /\ \A i \in 1..Len(Tail(s)) : Tail(s)[i] = s[i + 1]
  BY HeadTailProperties
<1>2. Len(s) \in Nat /\ Len(s) # 0 /\ (Tail(s) = << >> <=> Len(Tail(s)) = 0)
  BY <1>1, LenProperties, EmptySeq
<1> QED
  BY <1>1, <1>2

\* ... and its going on.
LEMMA GoneOn ==
  ASSUME NEW s \in Seq(Frames), s # << >>, NEW left \in Seq(Tries)
  PROVE  LET t == [s EXCEPT ![1].todo = left] IN
         /\ t \in Seq(Frames) /\ t # << >> /\ Len(t) = Len(s) /\ Len(s) \in Nat \ {0}
         /\ t[1].name = s[1].name /\ t[1].todo = left
         /\ \A i \in 1..Len(s) : i # 1 => t[i] = s[i]
         /\ \A i \in 1..Len(s) : t[i].name = s[i].name
<1> DEFINE f == [s[1] EXCEPT !.todo = left]
           t == [s EXCEPT ![1] = f]
<1>0. Len(s) \in Nat /\ DOMAIN s = 1..Len(s)
  BY LenProperties
<1>a. Len(s) # 0
  BY EmptySeq
<1>1. Len(s) \in Nat /\ Len(s) # 0 /\ DOMAIN s = 1..Len(s) /\ 1 \in 1..Len(s)
  BY <1>0, <1>a
<1>2. s[1] \in Frames
  BY <1>1, ElementOfSeq
<1>3. f \in Frames /\ f.name = s[1].name /\ f.todo = left
  BY <1>2 DEF Frames
<1> HIDE DEF f
<1>4. t \in Seq(Frames) /\ Len(t) = Len(s) /\ t[1] = f /\ \A i \in 1..Len(s) : i # 1 => t[i] = s[i]
  <2>1. /\ t \in Seq(Frames) /\ Len(t) = Len(s)
        /\ \A i \in 1..Len(s) : t[i] = IF i = 1 THEN f ELSE s[i]
    BY <1>1, <1>3, ExceptSeq
  <2> HIDE DEF t
  <2> QED
    BY <1>1, <2>1
<1>5. t # << >>
  BY <1>1, <1>4, EmptySeq
<1>6. [s EXCEPT ![1].todo = left] = t
  BY DEF f
<1> HIDE DEF t
<1>7. ASSUME NEW i \in 1..Len(s) PROVE t[i].name = s[i].name
  <2>1. i = 1 \/ i # 1
    OBVIOUS
  <2> QED
    BY <1>3, <1>4, <2>1
<1> QED
  BY <1>1, <1>3, <1>4, <1>5, <1>6, <1>7

\* Two groups are all there are: two steps lead wherever any number would.
LEMMA ReachCloses ==
  ASSUME MadeOK, NEW t, NEW n \in Reach(t) \cap DOMAIN made
  PROVE  ToSet(Members(n)) \subseteq Reach(t)
<1> DEFINE One == Onward({t})
<1>1. One = {t} \cup UNION {ToSet(Members(m)) : m \in {t} \cap DOMAIN made}
  BY DEF Onward
<1>2. Reach(t) = One \cup UNION {ToSet(Members(m)) : m \in One \cap DOMAIN made}
  BY DEF Reach, Onward
<1> HIDE DEF One
<1>3. CASE n \in One
  BY <1>2, <1>3
<1>4. CASE n \notin One
  <2>1. PICK m \in One \cap DOMAIN made : n \in ToSet(Members(m))
    BY <1>2, <1>4
  <2>2. m # t /\ t \in DOMAIN made /\ m \in ToSet(Members(t)) /\ n # t
    BY <1>1, <1>4, <2>1
  <2>3. Members(m) # << >> /\ Members(t) # << >>
    <3>1. Members(m) \in Seq(Targets) /\ Members(t) \in Seq(Targets)
      BY <2>1, <2>2 DEF MadeOK
    <3> QED
      BY <2>1, <2>2, <3>1, ToSetOf
  <2>4. m \in Groups /\ t \in Groups
    BY <2>1, <2>2, <2>3 DEF MadeOK, Names
  <2>5. n \notin Groups
    BY <1>4, <2>1, <2>2, <2>4 DEF Groups
  <2>6. Members(n) = << >>
    BY <2>5 DEF MadeOK, Names
  <2> QED
    BY <2>6, ToSetOf, EmptySeq
<1> QED
  BY <1>3, <1>4

\* A target leads to itself.
LEMMA ReachBegins == ASSUME NEW t PROVE t \in Reach(t)
BY DEF Reach, Onward

\* What failed is not a live member that is the failover group's to try.
Lost(rec) ==
  Failing(rec) =>
    /\ rec.stack = << >> => Live(rec) = {}
    /\ Len(rec.stack) = 1 => Bottom(rec).todo[1] \notin Live(rec)

\* What a failover group has before it depends on the way and nothing else.
LEMMA SameWay ==
  ASSUME NEW rec, NEW r, r.stack = rec.stack, r.route = rec.route, r.steady = rec.steady
  PROVE  Failing(r) = Failing(rec) /\ Live(r) = Live(rec) /\ Bottom(r) = Bottom(rec)
BY DEF Failing, Live, Bottom

\* An error goes back to who called.
LEMMA FailsKept ==
  ASSUME NEW rec, ConnOK(rec), Lost(rec), NEW how
  PROVE  ConnOK(Fails(rec, how))
<1> DEFINE r == Fails(rec, how)
<1>1. /\ DOMAIN r = Fields /\ r.pc = "back" /\ r.ok = FALSE
      /\ r.want = rec.want /\ r.stack = rec.stack /\ r.route = rec.route /\ r.steady = rec.steady
  BY DEF Fails, ConnOK, Shaped, Fields
<1> HIDE DEF r
<1>2. Failing(r) = Failing(rec) /\ Live(r) = Live(rec) /\ Bottom(r) = Bottom(rec)
  BY <1>1, SameWay
<1>3. Shaped(r)
  BY <1>1 DEF ConnOK, Shaped, Places
<1>4. OnRoute(r)
  BY <1>1 DEF ConnOK, OnRoute
<1>5. Falls(r)
  BY <1>1, <1>2 DEF ConnOK, Falls, Lost
<1> QED
  BY <1>3, <1>4, <1>5 DEF ConnOK, r

\* A proxy is dialled, a group called, and REJECT refuses.
LEMMA ConnectsKept ==
  ASSUME MadeOK, NEW rec, ConnOK(rec), NEW n \in Targets, IsGroup(n) => n \in DOMAIN made,
         rec.route # "first" /\ ~HasSelector => n \in Reach(rec.route),
         Failing(rec) => /\ rec.stack = << >> => n = rec.route
                         /\ Len(rec.stack) = 1 => n = Bottom(rec).todo[1]
  PROVE  ConnOK(Connects(rec, n))
<1>0. /\ DOMAIN rec = Fields /\ rec.stack \in Seq(Frames) /\ Len(rec.stack) \in Nat
      /\ Shaped(rec) /\ OnRoute(rec) /\ Falls(rec)
      /\ rec.stack = << >> <=> Len(rec.stack) = 0
  BY LenProperties, EmptySeq DEF ConnOK, Shaped
<1>1. CASE n = "REJECT"
  <2>1. Lost(rec)
    BY <1>1 DEF Lost, Failing, Groups, Live, Proxies
  <2> QED
    BY <1>1, <2>1, FailsKept DEF Connects
<1>2. CASE IsGroup(n)
  <2> DEFINE f == [name |-> n, todo |-> Members(n)]
             r == [rec EXCEPT !.pc = "group", !.stack = << f >> \o @]
             s == rec.stack
             t == << f >> \o s
  <2>1. n \in Groups /\ n \in DOMAIN made /\ n # "REJECT" /\ n \notin Proxies
    BY <1>2 DEF IsGroup, Groups, Proxies
  <2>2. /\ DOMAIN r = Fields /\ r.pc = "group" /\ r.stack = t
        /\ r.ok = rec.ok /\ r.want = rec.want /\ r.route = rec.route /\ r.steady = rec.steady
    BY <1>0 DEF Fields
  <2>3. Members(n) \in Seq(Targets) /\ (Kind(n) \in {"failover", "chain"} => Members(n) # << >>)
    BY <2>1 DEF MadeOK
  <2>4. f \in Frames /\ FrameOK(f) /\ f.name = n /\ f.todo = Members(n)
    <3>1. Members(n) \in Seq(Tries)
      <4>1. Targets \subseteq Tries
        BY DEF Tries
      <4> QED
        BY <2>3, <4>1, SeqDef, LenProperties, ElementOfSeq
    <3> QED
      BY <2>1, <2>3, <3>1 DEF Frames, FrameOK
  <2>5. ConnOK(r)
    <3> HIDE DEF f, r
    <3>1. /\ t \in Seq(Frames) /\ Len(t) = Len(s) + 1 /\ t[1] = f
          /\ \A i \in 2..(Len(s) + 1) : t[i] = s[i - 1]
      BY <1>0, <2>4, Pushed
    <3>2. t # << >>
      BY <1>0, <3>1, EmptySeq
    <3> HIDE DEF t
    <3>3. ASSUME NEW i \in 1..Len(t) PROVE i = 1 \/ (i - 1 \in 1..Len(s) /\ t[i] = s[i - 1])
      BY <1>0, <3>1
    <3>4. Shaped(r)
      <4>1. \A i \in 1..Len(t) : FrameOK(t[i])
        BY <1>0, <2>4, <3>1, <3>3 DEF Shaped
      <4> QED
        BY <1>0, <2>2, <3>1, <3>2, <4>1 DEF Shaped, Places
    <3>5. OnRoute(r)
      BY <1>0, <2>2, <2>4, <3>1, <3>3 DEF OnRoute
    <3>6. Failing(r) = Failing(rec) /\ Live(r) = Live(rec)
      BY <2>2 DEF Failing, Live
    <3>7. CASE s = << >>
      <4>1. Len(t) = 1 /\ Bottom(r) = f
        BY <1>0, <2>2, <3>1, <3>7 DEF Bottom
      <4>2. Failing(rec) => rec.route = n /\ Live(rec) \subseteq ToSet(f.todo)
        BY <2>4, <3>7 DEF Live
      <4> QED
        BY <2>2, <2>4, <3>2, <3>4, <3>5, <3>6, <4>1, <4>2 DEF ConnOK, Falls
    <3>8. CASE s # << >>
      <4>1. Len(t) > 1 /\ Len(t) # 1 /\ Bottom(r) = Bottom(rec)
        <5>1. Len(s) # 0
          BY <1>0, <3>8
        <5>2. Len(t) = Len(s) + 1 /\ Len(t) \in 2..(Len(s) + 1)
          BY <1>0, <3>1, <5>1
        <5>3. t[Len(t)] = s[Len(s)]
          BY <1>0, <3>1, <5>2
        <5> QED
          BY <1>0, <2>2, <5>1, <5>2, <5>3 DEF Bottom
      <4>2. Failing(rec) => /\ Bottom(rec).name = rec.route /\ Live(rec) \subseteq ToSet(Bottom(rec).todo)
                            /\ Bottom(rec).todo[1] \notin Proxies
        <5>a. Len(s) \in Nat \ {0}
          BY <1>0, <3>8
        <5>1. Len(s) = 1 \/ Len(s) > 1
          BY <5>a, OneOrMore
        <5> QED
          BY <1>0, <2>1, <3>8, <5>1 DEF Falls
      <4> QED
        BY <2>2, <3>2, <3>4, <3>5, <3>6, <4>1, <4>2 DEF ConnOK, Falls
    <3> QED
      BY <3>7, <3>8
  <2> QED
    BY <1>2, <2>1, <2>5 DEF Connects
<1>3. CASE n # "REJECT" /\ ~IsGroup(n)
  <2> DEFINE r == [rec EXCEPT !.pc = "dial", !.want = n]
  <2>1. n \in Proxies \cup {"DIRECT"} /\ n \notin Groups
    BY <1>3 DEF IsGroup, Targets, Names, Builtin
  <2>2. /\ DOMAIN r = Fields /\ r.pc = "dial" /\ r.want = n
        /\ r.ok = rec.ok /\ r.stack = rec.stack /\ r.route = rec.route /\ r.steady = rec.steady
    BY <1>0 DEF Fields
  <2> HIDE DEF r
  <2>3. Failing(r) = Failing(rec) /\ Live(r) = Live(rec) /\ Bottom(r) = Bottom(rec)
    BY <2>2, SameWay
  <2>4. Shaped(r)
    BY <1>0, <2>1, <2>2 DEF Shaped, Places
  <2>5. OnRoute(r)
    BY <1>0, <1>3, <2>1, <2>2 DEF OnRoute, Leads, Reach
  <2>6. Falls(r)
    <3>1. Failing(rec) => rec.stack # << >>
      BY <2>1 DEF Failing
    <3> QED
      BY <1>0, <2>2, <2>3, <3>1 DEF Falls
  <2>7. ConnOK(r)
    BY <2>4, <2>5, <2>6 DEF ConnOK
  <2> QED
    BY <1>3, <2>7 DEF Connects, r
<1> QED
  BY <1>1, <1>2, <1>3

\* A group that was called asks for a member.
LEMMA GetsKept ==
  ASSUME NEW rec, ConnOK(rec), rec.pc = "group", NEW n,
         rec.route # "first" /\ ~HasSelector => n \in Reach(rec.route) \cup {""},
         Failing(rec) /\ Len(rec.stack) = 1 => n = Bottom(rec).todo[1]
  PROVE  ConnOK([rec EXCEPT !.pc = "get", !.want = n])
<1> DEFINE r == [rec EXCEPT !.pc = "get", !.want = n]
<1>1. /\ DOMAIN r = Fields /\ r.pc = "get" /\ r.want = n
      /\ r.ok = rec.ok /\ r.stack = rec.stack /\ r.route = rec.route /\ r.steady = rec.steady
  BY DEF ConnOK, Shaped, Fields
<1> HIDE DEF r
<1>2. Failing(r) = Failing(rec) /\ Live(r) = Live(rec) /\ Bottom(r) = Bottom(rec)
  BY <1>1, SameWay
<1>3. Shaped(r) /\ r.stack # << >>
  BY <1>1 DEF ConnOK, Shaped, Places
<1>4. OnRoute(r)
  BY <1>1 DEF ConnOK, OnRoute
<1>5. Falls(r)
  BY <1>1, <1>2, <1>3 DEF ConnOK, Falls
<1> QED
  BY <1>3, <1>4, <1>5 DEF ConnOK, r

\* The call that is on top is the failover group's own when it is the only one.
LEMMA TopOf ==
  ASSUME NEW rec, ConnOK(rec), rec.stack # << >>
  PROVE  /\ rec.stack[1] \in Frames /\ FrameOK(rec.stack[1]) /\ Len(rec.stack) \in Nat \ {0}
         /\ Len(rec.stack) = 1 => Bottom(rec) = rec.stack[1]
         /\ Failing(rec) /\ Len(rec.stack) = 1 => Kind(rec.stack[1].name) = "failover"
         /\ rec.route # "first" /\ ~HasSelector => rec.stack[1].name \in Reach(rec.route)
<1>1. rec.stack \in Seq(Frames) /\ Len(rec.stack) \in Nat /\ Len(rec.stack) # 0
  BY LenProperties, EmptySeq DEF ConnOK, Shaped
<1>2. 1 \in 1..Len(rec.stack)
  BY <1>1
<1>3. rec.stack[1] \in Frames /\ FrameOK(rec.stack[1])
  BY <1>1, <1>2, ElementOfSeq DEF ConnOK, Shaped
<1>4. Len(rec.stack) = 1 => Bottom(rec) = rec.stack[1]
  BY DEF Bottom
<1>5. Failing(rec) /\ Len(rec.stack) = 1 => Kind(rec.stack[1].name) = "failover"
  BY <1>4 DEF ConnOK, Falls, Failing
<1>6. rec.route # "first" /\ ~HasSelector => rec.stack[1].name \in Reach(rec.route)
  BY <1>2 DEF ConnOK, OnRoute
<1> QED
  BY <1>1, <1>3, <1>4, <1>5, <1>6

\* A member of a group that was called is where its target leads to.
LEMMA MemberOf ==
  ASSUME MadeOK, NEW rec, ConnOK(rec), rec.stack # << >>,
         NEW n \in ToSet(Members(rec.stack[1].name)), rec.route # "first", ~HasSelector
  PROVE  n \in Reach(rec.route)
<1>1. rec.stack[1].name \in Reach(rec.route) \cap DOMAIN made
  BY TopOf DEF FrameOK
<1> QED
  BY <1>1, ReachCloses

\* The way back to the caller of the group that was called last.
LEMMA ToCallerKept ==
  ASSUME NEW rec, ConnOK(rec), rec.stack # << >>, rec.pc = "back",
         Failing(rec) /\ Len(rec.stack) = 1 /\ ~rec.ok => Live(rec) = {}
  PROVE  ConnOK(ToCaller(rec))
<1> DEFINE r == ToCaller(rec)
           s == rec.stack
           t == Tail(s)
<1>1. /\ DOMAIN r = Fields /\ r.pc = "back" /\ r.stack = t
      /\ r.ok = rec.ok /\ r.want = rec.want /\ r.route = rec.route /\ r.steady = rec.steady
  BY DEF ConnOK, Shaped, Fields, ToCaller
<1>2. s \in Seq(Frames) /\ Shaped(rec) /\ OnRoute(rec) /\ Falls(rec)
  BY DEF ConnOK, Shaped
<1>3. /\ t \in Seq(Frames) /\ Len(s) \in Nat \ {0} /\ Len(t) = Len(s) - 1
      /\ t = << >> <=> Len(s) = 1
      /\ \A i \in 1..(Len(s) - 1) : t[i] = s[i + 1]
  BY <1>2, Popped
<1> HIDE DEF r, t
<1>4. Failing(r) = Failing(rec) /\ Live(r) = Live(rec)
  BY <1>1 DEF Failing, Live
<1>5. ASSUME NEW i \in 1..Len(t) PROVE i + 1 \in 1..Len(s) /\ t[i] = s[i + 1]
  BY <1>3
<1>6. Shaped(r)
  <2>1. \A i \in 1..Len(t) : FrameOK(t[i])
    BY <1>2, <1>5 DEF Shaped
  <2> QED
    BY <1>1, <1>2, <1>3, <2>1 DEF Shaped, Places
<1>7. OnRoute(r)
  BY <1>1, <1>2, <1>5 DEF OnRoute
<1>8. CASE Len(s) = 1
  <2>1. t = << >>
    BY <1>3, <1>8
  <2> QED
    <3>1. Failing(rec) /\ ~rec.ok => Live(rec) = {}
      BY <1>8
    <3>2. Falls(r)
      BY <1>1, <1>4, <2>1, <3>1 DEF Falls
    <3> QED
      BY <1>6, <1>7, <3>2 DEF ConnOK, r
<1>9. CASE Len(s) # 1
  <2>1. Len(s) > 1 /\ Len(t) \in 1..(Len(s) - 1) /\ t # << >>
    BY <1>3, <1>9
  <2>2. Bottom(r) = Bottom(rec)
    <3>1. t[Len(t)] = s[Len(s)]
      BY <1>3, <2>1
    <3> QED
      BY <1>1, <3>1 DEF Bottom
  <2>3. Failing(rec) => /\ Bottom(rec).name = rec.route /\ Live(rec) \subseteq ToSet(Bottom(rec).todo)
                        /\ Bottom(rec).todo[1] \notin Proxies
    BY <1>2, <2>1 DEF Falls
  <2>4. Bottom(rec).todo[1] \notin Proxies => Bottom(rec).todo[1] \notin Live(rec)
    BY DEF Live
  <2> QED
    <3>1. Falls(r)
      BY <1>1, <1>4, <2>1, <2>2, <2>3, <2>4 DEF Falls
    <3> QED
      BY <1>6, <1>7, <3>1 DEF ConnOK, r
<1> QED
  BY <1>8, <1>9 DEF r

\* A call that has something else before it, of the same members.
LEMMA TodoKept ==
  ASSUME NEW rec, ConnOK(rec), rec.stack # << >>, NEW left \in Seq(Tries),
         NEW p \in {"get", "group"}, NEW w, NEW r,
         DOMAIN r = Fields, r.pc = p, r.want = w, r.stack = [rec.stack EXCEPT ![1].todo = left],
         r.ok = rec.ok, r.route = rec.route, r.steady = rec.steady,
         FrameOK([name |-> rec.stack[1].name, todo |-> left]),
         rec.route # "first" /\ ~HasSelector /\ p = "get" => w \in Reach(rec.route) \cup {""},
         Failing(rec) /\ Len(rec.stack) = 1 => p = "group" /\ Live(rec) \subseteq ToSet(left)
  PROVE  ConnOK(r)
<1> DEFINE s == rec.stack
           t == [s EXCEPT ![1].todo = left]
<1>1. s \in Seq(Frames) /\ Shaped(rec) /\ OnRoute(rec) /\ Falls(rec)
  BY DEF ConnOK, Shaped
<1>2. /\ DOMAIN r = Fields /\ r.pc = p /\ r.want = w /\ r.stack = t
      /\ r.ok = rec.ok /\ r.route = rec.route /\ r.steady = rec.steady
  OBVIOUS
<1>3. /\ t \in Seq(Frames) /\ t # << >> /\ Len(t) = Len(s) /\ Len(s) \in Nat \ {0}
      /\ t[1].name = s[1].name /\ t[1].todo = left
      /\ \A i \in 1..Len(s) : i # 1 => t[i] = s[i]
      /\ \A i \in 1..Len(s) : t[i].name = s[i].name
  BY <1>1, GoneOn
<1> HIDE DEF t
<1>4. Failing(r) = Failing(rec) /\ Live(r) = Live(rec)
  BY <1>2 DEF Failing, Live
<1>6. Shaped(r)
  <2>1. ASSUME NEW i \in 1..Len(t) PROVE FrameOK(t[i])
    <3>1. i \in 1..Len(s)
      BY <1>3
    <3> QED
      BY <1>1, <1>3, <3>1 DEF Shaped, FrameOK
  <2> QED
    BY <1>1, <1>2, <1>3, <2>1 DEF Shaped, Places
<1>7. OnRoute(r)
  BY <1>1, <1>2, <1>3 DEF OnRoute
<1>8. CASE Len(s) = 1
  <2>1. Bottom(r).name = Bottom(rec).name /\ Bottom(r).todo = left
    BY <1>2, <1>3, <1>8 DEF Bottom
  <2> QED
    <3>a. Failing(rec) => p = "group" /\ Live(rec) \subseteq ToSet(left) /\ Bottom(rec).name = rec.route
      BY <1>1, <1>8 DEF Falls
    <3>b. r.stack # << >> /\ Len(r.stack) = 1
      BY <1>2, <1>3, <1>8
    <3>c. ~(Len(r.stack) > 1)
      BY <3>b, OneIsOne, Zenon
    <3>1. Falls(r)
      BY <1>2, <1>4, <2>1, <3>a, <3>b, <3>c DEF Falls
    <3> QED
      BY <1>6, <1>7, <3>1 DEF ConnOK
<1>9. CASE Len(s) # 1
  <2>1. Len(s) \in 1..Len(s) /\ Len(s) # 1 /\ Len(s) > 1
    BY <1>3, <1>9, OneOrMore
  <2>2. Bottom(r) = Bottom(rec)
    BY <1>2, <1>3, <2>1 DEF Bottom
  <2> QED
    <3>1. Falls(r)
      BY <1>1, <1>2, <1>3, <1>4, <1>9, <2>1, <2>2 DEF Falls
    <3> QED
      BY <1>6, <1>7, <3>1 DEF ConnOK
<1> QED
  BY <1>8, <1>9

\* Every connection is on such a way, through what was made and measured.
RoutesInv ==
  /\ MadeOK /\ Unbuilt /\ Domains /\ ProbeOK /\ BestOK
  /\ \A c \in Clients : ConnOK(conn[c])

\* What is made later leads nowhere, and what was made stays.
Grows ==
  /\ DOMAIN made \subseteq DOMAIN made'
  /\ \A n \in DOMAIN made : Members(n)' = Members(n) /\ Kind(n)' = Kind(n)
  /\ \A n \in DOMAIN made' \ DOMAIN made : Members(n)' = << >> /\ Kind(n)' = "proxy"

\* Most steps make nothing.
LEMMA SameGrows == UNCHANGED made => Grows
BY DEF Grows, Members, Kind

\* A step that does not move a connection keeps its way.
LEMMA ConnStays ==
  ASSUME MadeOK, Grows, NEW r, ConnOK(r), r.steady \subseteq registry' \ (Proxies \ up')
  PROVE  ConnOK(r)'
<1>1. ASSUME NEW S PROVE Onward(S)' = Onward(S)
  <2>1. ASSUME NEW n \in DOMAIN made' \ DOMAIN made PROVE ToSet(Members(n)') = {}
    BY ToSetOf, EmptySeq DEF Grows
  <2>2. \A n \in DOMAIN made : ToSet(Members(n)') = ToSet(Members(n))
    BY DEF Grows
  <2>3. DOMAIN made \subseteq DOMAIN made'
    BY DEF Grows
  <2>4. UNION {ToSet(Members(n)') : n \in S \cap DOMAIN made'}
          = UNION {ToSet(Members(n)) : n \in S \cap DOMAIN made}
    BY <2>1, <2>2, <2>3
  <2> QED
    BY <2>4 DEF Onward
<1>2. ASSUME NEW t PROVE Reach(t)' = Reach(t) /\ Leads(t)' = Leads(t)
  BY <1>1 DEF Reach, Leads
<1>3. HasSelector' = HasSelector
  BY DEF HasSelector, Grows
<1>4. Shaped(r)'
  <2>1. ASSUME NEW f, FrameOK(f) PROVE FrameOK(f)'
    BY <2>1 DEF FrameOK, Grows
  <2> QED
    BY <2>1 DEF ConnOK, Shaped
<1>5. OnRoute(r)'
  BY <1>2, <1>3 DEF ConnOK, OnRoute
<1>6. Falls(r)'
  <2>1. r.route \in r.steady => r.route \in DOMAIN made
    BY DEF ConnOK, Shaped, MadeOK
  <2>2. Failing(r)' = Failing(r) /\ (Failing(r) => Live(r)' = Live(r)) /\ Bottom(r)' = Bottom(r)
    BY <2>1 DEF Failing, Live, Bottom, Grows
  <2> QED
    BY <2>2 DEF ConnOK, Falls
<1> QED
  BY <1>4, <1>5, <1>6 DEF ConnOK

\* A step that moves one connection keeps the invariant if it keeps its way.
LEMMA OneMoves ==
  ASSUME RoutesInv, NEW c \in Clients, NEW rec, ConnOK(rec), Steps(c, rec), phase # "off",
         UNCHANGED << made, best >>, idx' \in [Groups -> Nat]
  PROVE  RoutesInv'
<1>1. /\ made' = made /\ registry' = registry /\ up' = up /\ phase' = phase /\ UNCHANGED probe
      /\ conn' = [conn EXCEPT ![c] = rec]
  BY DEF Steps
<1>2. MadeOK' /\ Unbuilt' /\ Domains'
  BY <1>1 DEF RoutesInv, MadeOK, Unbuilt, Domains, Members, Kind, URLTests
<1>3. ProbeOK' /\ BestOK'
  BY <1>1, ProbeStays DEF RoutesInv
<1>4. ASSUME NEW d \in Clients PROVE ConnOK(conn[d])'
  <2>1. PICK r : r = conn'[d]
    OBVIOUS
  <2>2. ConnOK(r)
    BY <1>1, <2>1 DEF RoutesInv, Domains
  <2>3. r.steady \subseteq registry' \ (Proxies \ up')
    BY <1>1, <2>2 DEF ConnOK, Shaped
  <2>4. ConnOK(r)'
    BY <1>1, <2>2, <2>3, ConnStays, SameGrows DEF RoutesInv
  <2> QED
    BY <2>1, <2>4
<1> QED
  BY <1>2, <1>3, <1>4 DEF RoutesInv

\* A step that moves no connection, ...
LEMMA NoneMoves ==
  ASSUME RoutesInv, Grows, conn' = conn, registry \subseteq registry', up \subseteq up'
  PROVE  \A c \in Clients : ConnOK(conn[c])'
<1>1. ASSUME NEW d \in Clients PROVE ConnOK(conn[d])'
  <2>1. PICK r : r = conn[d]
    OBVIOUS
  <2>2. ConnOK(r) /\ r.steady \subseteq registry' \ (Proxies \ up')
    BY <2>1 DEF RoutesInv, ConnOK, Shaped
  <2>3. ConnOK(r)'
    BY <2>2, ConnStays DEF RoutesInv
  <2> QED
    BY <2>1, <2>3
<1> QED
  BY <1>1

\* ... or all of them: what is gone is not steady.
LEMMA AllUnsteady ==
  ASSUME RoutesInv, made' = made, NEW n, Unsteady(n),
         registry \ {n} \subseteq registry', up \ {n} \subseteq up'
  PROVE  \A c \in Clients : ConnOK(conn[c])'
<1>1. ASSUME NEW d \in Clients PROVE ConnOK(conn[d])'
  <2>1. PICK r : r = conn[d]
    OBVIOUS
  <2>2. PICK q : q = [r EXCEPT !.steady = @ \ {n}]
    OBVIOUS
  <2>3. ConnOK(r)
    BY <2>1 DEF RoutesInv
  <2>4. /\ DOMAIN q = Fields /\ q.steady = r.steady \ {n} /\ q.pc = r.pc /\ q.want = r.want
        /\ q.stack = r.stack /\ q.ok = r.ok /\ q.route = r.route
    BY <2>2, <2>3 DEF ConnOK, Shaped, Fields
  <2>5. Failing(q) => Failing(r) /\ Live(q) \subseteq Live(r)
    BY <2>4 DEF Failing, Live
  <2>6. Bottom(q) = Bottom(r)
    BY <2>4 DEF Bottom
  <2>7. Shaped(q) /\ OnRoute(q)
    BY <2>3, <2>4 DEF ConnOK, Shaped, OnRoute
  <2>8. Falls(q)
    BY <2>3, <2>4, <2>5, <2>6 DEF ConnOK, Falls
  <2>9. q.steady \subseteq registry' \ (Proxies \ up')
    BY <2>3, <2>4 DEF ConnOK, Shaped
  <2>10. ConnOK(q)'
    BY <2>7, <2>8, <2>9, ConnStays, SameGrows DEF ConnOK, RoutesInv
  <2>11. conn'[d] = q
    BY <2>1, <2>2 DEF Unsteady
  <2> QED
    BY <2>10, <2>11
<1> QED
  BY <1>1

\* A connection is asked for.
LEMMA PickInv ==
  ASSUME RoutesInv, NEW c \in Clients, Pick(c)
  PROVE  RoutesInv'
<1>1. PICK t :
        Steps(c, [Idle EXCEPT !.pc = IF t = "first" THEN "first" ELSE "get",
                              !.want = t, !.route = t, !.steady = registry \ (Proxies \ up)])
  BY DEF Pick
<1> DEFINE r == [Idle EXCEPT !.pc = IF t = "first" THEN "first" ELSE "get",
                             !.want = t, !.route = t, !.steady = registry \ (Proxies \ up)]
<1>2. /\ DOMAIN r = Fields /\ r.pc = IF t = "first" THEN "first" ELSE "get"
      /\ r.want = t /\ r.route = t /\ r.stack = << >> /\ r.ok = FALSE
      /\ r.steady = registry \ (Proxies \ up)
  BY DEF Idle, Fields
<1>3. Steps(c, r)
  BY <1>1
<1> HIDE DEF r
<1>4. r.stack \in Seq(Frames) /\ \A i \in 1..Len(r.stack) : FALSE
  <2>1. << >> \in Seq(Frames) /\ Len(<< >>) = 0
    BY EmptySeq
  <2> QED
    BY <1>2, <2>1
<1>5. Shaped(r)
  BY <1>2, <1>4 DEF Shaped, Places
<1>6. OnRoute(r)
  BY <1>2, <1>4, ReachBegins DEF OnRoute
<1>7. Falls(r)
  BY <1>2 DEF Falls, Failing, Groups
<1>8. phase = "on" /\ UNCHANGED << made, best >> /\ idx' = idx
  BY DEF Pick, groups
<1> QED
  BY <1>3, <1>5, <1>6, <1>7, <1>8, OneMoves DEF ConnOK, RoutesInv, ProbeOK, ProbeTypes

\* In global mode it takes what comes first.
LEMMA SelectFirstInv ==
  ASSUME RoutesInv, NEW c \in Clients, SelectFirst(c)
  PROVE  RoutesInv'
<1>1. PICK n : Steps(c, [conn[c] EXCEPT !.pc = "get", !.want = n])
  BY DEF SelectFirst
<1> DEFINE rec == conn[c]
           r   == [rec EXCEPT !.pc = "get", !.want = n]
<1>2. ConnOK(rec) /\ rec.pc = "first" /\ rec.route = "first" /\ rec.stack = << >>
  BY DEF RoutesInv, SelectFirst, ConnOK, Shaped
<1>3. Steps(c, r)
  BY <1>1
<1> HIDE DEF rec
<1>4. /\ DOMAIN r = Fields /\ r.pc = "get" /\ r.want = n /\ r.ok = rec.ok
      /\ r.route = rec.route /\ r.steady = rec.steady /\ r.stack = rec.stack
  BY <1>2 DEF ConnOK, Shaped, Fields
<1> HIDE DEF r
<1>5. ConnOK(r)
  BY <1>2, <1>4 DEF ConnOK, Shaped, Places, OnRoute, Falls, Failing, Groups
<1>6. phase = "on" /\ UNCHANGED << made, best >> /\ idx' = idx
  BY DEF SelectFirst, groups
<1> QED
  BY <1>3, <1>5, <1>6, OneMoves DEF RoutesInv, ProbeOK, ProbeTypes

\* What is asked for is there, or it is an error.
LEMMA GetInv ==
  ASSUME RoutesInv, NEW c \in Clients, Get(c)
  PROVE  RoutesInv'
<1> DEFINE rec == conn[c]
<1>1. /\ ConnOK(rec) /\ rec.pc = "get" /\ MadeOK /\ phase = "on"
      /\ UNCHANGED << made, best >> /\ idx' \in [Groups -> Nat]
      /\ Steps(c, IF rec.want \in registry \cup Builtin THEN Connects(rec, rec.want)
                  ELSE Fails(rec, "missing"))
  BY DEF RoutesInv, Get, groups, ProbeOK, ProbeTypes
<1> HIDE DEF rec
<1>2. Failing(rec) => /\ rec.stack = << >> => rec.want = rec.route
                      /\ Len(rec.stack) = 1 => rec.want = Bottom(rec).todo[1]
  <2>1. Len(rec.stack) = 1 => rec.stack # << >>
    BY EmptySeq
  <2> QED
    BY <1>1, <2>1 DEF ConnOK, Falls
<1>3. CASE rec.want \in registry \cup Builtin
  <2>1. rec.want \in Targets /\ rec.want # "" /\ (IsGroup(rec.want) => rec.want \in DOMAIN made)
    BY <1>1, <1>3 DEF MadeOK, Targets, Names, Proxies, Groups, Builtin, IsGroup
  <2>2. rec.route # "first" /\ ~HasSelector => rec.want \in Reach(rec.route)
    BY <1>1, <2>1 DEF ConnOK, OnRoute
  <2>3. ConnOK(Connects(rec, rec.want))
    BY <1>1, <1>2, <2>1, <2>2, ConnectsKept
  <2> QED
    BY <1>1, <1>3, <2>3, OneMoves
<1>4. CASE rec.want \notin registry \cup Builtin
  <2>1. Lost(rec)
    BY <1>1, <1>2, <1>4 DEF Lost, Failing, Live, ConnOK, Shaped
  <2>2. ConnOK(Fails(rec, "missing"))
    BY <1>1, <2>1, FailsKept
  <2> QED
    BY <1>1, <1>4, <2>2, OneMoves
<1> QED
  BY <1>3, <1>4

\* The process may end under it.
LEMMA OverflowInv ==
  ASSUME RoutesInv, NEW c \in Clients, Overflow(c)
  PROVE  RoutesInv'
<1>1. /\ phase = "on" /\ phase' = "crashed" /\ made' = made /\ registry' = registry /\ up' = up
      /\ conn' = conn /\ UNCHANGED << probe, best >> /\ idx' = idx
  BY DEF Overflow, groups
<1>2. MadeOK' /\ Unbuilt' /\ Domains'
  BY <1>1 DEF RoutesInv, MadeOK, Unbuilt, Domains, Members, Kind, URLTests
<1>3. ProbeOK' /\ BestOK'
  BY <1>1, ProbeStays DEF RoutesInv, ProbeOK, ProbeTypes
<1> QED
  BY <1>1, <1>2, <1>3, NoneMoves, SameGrows DEF RoutesInv

\* What all groups that were called have in common.
LEMMA Called ==
  ASSUME RoutesInv, NEW c \in Clients, NEW kind, InGroup(c, kind)
  PROVE  /\ ConnOK(conn[c]) /\ conn[c].pc = "group" /\ conn[c].stack # << >>
         /\ MadeOK /\ phase = "on" /\ Kind(Group(c)) = kind
         /\ Group(c) \in DOMAIN made \cap Groups /\ Members(Group(c)) \in Seq(Targets)
         /\ kind # "failover" => ~(Failing(conn[c]) /\ Len(conn[c].stack) = 1)
<1>1. /\ ConnOK(conn[c]) /\ conn[c].pc = "group" /\ conn[c].stack # << >>
      /\ MadeOK /\ phase = "on" /\ Kind(conn[c].stack[1].name) = kind
  BY DEF RoutesInv, InGroup, ConnOK, Shaped
<1>2. conn[c].stack[1] \in Frames /\ FrameOK(conn[c].stack[1])
  BY <1>1, TopOf
<1>3. Group(c) \in DOMAIN made \cap Groups
  BY <1>2 DEF Frames, FrameOK, Group
<1>4. kind # "failover" => ~(Failing(conn[c]) /\ Len(conn[c].stack) = 1)
  BY <1>1, TopOf
<1> QED
  BY <1>1, <1>3, <1>4 DEF MadeOK, Group

\* A selector asks for its choice, ...
LEMMA SelectInv ==
  ASSUME RoutesInv, NEW c \in Clients, Select(c)
  PROVE  RoutesInv'
<1> DEFINE rec == conn[c]
           n   == choice[Group(c)]
<1>1. /\ ConnOK(rec) /\ rec.pc = "group" /\ phase = "on" /\ Kind(Group(c)) = "selector"
      /\ Group(c) \in DOMAIN made /\ ~(Failing(rec) /\ Len(rec.stack) = 1)
  BY Called DEF Select
<1>2. HasSelector
  BY <1>1 DEF HasSelector
<1>3. /\ Steps(c, [rec EXCEPT !.pc = "get", !.want = n])
      /\ UNCHANGED << made, best >> /\ idx' \in [Groups -> Nat]
  BY DEF Select, Gets, groups, RoutesInv, ProbeOK, ProbeTypes
<1> HIDE DEF rec, n
<1>4. ConnOK([rec EXCEPT !.pc = "get", !.want = n])
  BY <1>1, <1>2, GetsKept
<1> QED
  BY <1>1, <1>3, <1>4, OneMoves

\* ... a url-test group for its best, ...
LEMMA UseBestInv ==
  ASSUME RoutesInv, NEW c \in Clients, UseBest(c)
  PROVE  RoutesInv'
<1> DEFINE rec == conn[c]
           g   == Group(c)
           w   == best[g]
           r   == [rec EXCEPT !.pc = "get", !.want = w, !.stack[1].todo = << w >>]
<1>1. /\ ConnOK(rec) /\ rec.pc = "group" /\ rec.stack # << >> /\ phase = "on" /\ Kind(g) = "urltest"
      /\ g \in DOMAIN made /\ ~(Failing(rec) /\ Len(rec.stack) = 1) /\ MadeOK
      /\ Members(g) \in Seq(Targets)
  BY Called DEF UseBest
<1>2. w \in ToSet(Members(g)) \cup {""}
  BY <1>1 DEF RoutesInv, BestOK, URLTests
<1>3. g = rec.stack[1].name
  BY DEF Group
<1>4. /\ Steps(c, r) /\ UNCHANGED << made, best >> /\ idx' \in [Groups -> Nat]
  BY DEF UseBest, groups, RoutesInv, ProbeOK, ProbeTypes
<1> HIDE DEF rec, g, w
<1>5. << w >> \in Seq(Tries)
  <2>1. w \in Tries
    BY <1>1, <1>2, ToSetOf DEF Tries
  <2> QED
    BY <2>1
<1>6. rec.route # "first" /\ ~HasSelector => w \in Reach(rec.route) \cup {""}
  BY <1>1, <1>2, <1>3, MemberOf
<1>7. FrameOK([name |-> rec.stack[1].name, todo |-> << w >>])
  BY <1>1, <1>3 DEF FrameOK
<1>8. /\ DOMAIN r = Fields /\ r.pc = "get" /\ r.want = w /\ r.ok = rec.ok
      /\ r.stack = [rec.stack EXCEPT ![1].todo = << w >>]
      /\ r.route = rec.route /\ r.steady = rec.steady
  BY <1>1 DEF ConnOK, Shaped, Fields
<1> HIDE DEF r
<1>9. ConnOK(r)
  BY <1>1, <1>5, <1>6, <1>7, <1>8, TodoKept
<1> QED
  BY <1>1, <1>4, <1>9, OneMoves

\* ... and the others for one of their members.
LEMMA RotateInv ==
  ASSUME RoutesInv, NEW c \in Clients, Rotate(c)
  PROVE  RoutesInv'
<1> DEFINE rec == conn[c]
           g   == Group(c)
           k   == (idx[g] % Len(Members(g))) + 1
           m   == Members(g)[k]
<1>1. /\ ConnOK(rec) /\ rec.pc = "group" /\ rec.stack # << >> /\ phase = "on"
      /\ g \in Groups /\ ~(Failing(rec) /\ Len(rec.stack) = 1) /\ MadeOK
      /\ Members(g) \in Seq(Targets)
  BY Called DEF Rotate
<1>2. g = rec.stack[1].name /\ idx \in [Groups -> Nat]
  BY DEF Group, RoutesInv, ProbeOK, ProbeTypes
<1>3. UNCHANGED << made, best >>
  BY DEF Rotate
<1>4. CASE Members(g) = << >>
  <2>1. Steps(c, Fails(rec, "refused")) /\ idx' = idx
    BY <1>4 DEF Rotate
  <2> HIDE DEF rec, g
  <2>2. Lost(rec)
    BY <1>1 DEF Lost
  <2>3. ConnOK(Fails(rec, "refused"))
    BY <1>1, <2>2, FailsKept
  <2> QED
    BY <1>1, <1>2, <1>3, <2>1, <2>3, OneMoves
<1>5. CASE Members(g) # << >>
  <2>1. Steps(c, [rec EXCEPT !.pc = "get", !.want = m]) /\ idx' = [idx EXCEPT ![g] = @ + 1]
    BY <1>5 DEF Rotate, Gets
  <2> HIDE DEF rec, g
  <2>2. Len(Members(g)) \in Nat \ {0} /\ DOMAIN Members(g) = 1..Len(Members(g))
    BY <1>1, <1>5, LenProperties, EmptySeq
  <2>3. k \in 1..Len(Members(g))
    <3>1. \A i \in Nat, l \in Nat \ {0} : (i % l) + 1 \in 1..l
      OBVIOUS
    <3>2. idx[g] \in Nat
      BY <1>1, <1>2
    <3> QED
      BY <2>2, <3>1, <3>2
  <2>4. m \in ToSet(Members(g))
    BY <2>2, <2>3 DEF ToSet
  <2>5. idx' \in [Groups -> Nat]
    BY <1>1, <1>2, <2>1
  <2> HIDE DEF m, k
  <2>6. rec.route # "first" /\ ~HasSelector => m \in Reach(rec.route)
    BY <1>1, <1>2, <2>4, MemberOf
  <2>7. ConnOK([rec EXCEPT !.pc = "get", !.want = m])
    BY <1>1, <2>6, GetsKept
  <2> QED
    BY <1>1, <1>3, <2>1, <2>5, <2>7, OneMoves
<1> QED
  BY <1>4, <1>5

\* Any of them will do for load-balance.
LEMMA BalanceInv ==
  ASSUME RoutesInv, NEW c \in Clients, Balance(c)
  PROVE  RoutesInv'
<1> DEFINE rec == conn[c]
           g   == Group(c)
<1>1. PICK m \in ToSet(Members(g)) : Steps(c, [rec EXCEPT !.pc = "get", !.want = m])
  BY DEF Balance, Gets
<1>2. /\ ConnOK(rec) /\ rec.pc = "group" /\ rec.stack # << >> /\ phase = "on"
      /\ ~(Failing(rec) /\ Len(rec.stack) = 1) /\ MadeOK
  BY Called DEF Balance
<1>3. g = rec.stack[1].name /\ UNCHANGED << made, best >> /\ idx' \in [Groups -> Nat]
  BY DEF Group, Balance, groups, RoutesInv, ProbeOK, ProbeTypes
<1> HIDE DEF rec, g
<1>4. rec.route # "first" /\ ~HasSelector => m \in Reach(rec.route)
  BY <1>2, <1>3, MemberOf
<1>5. ConnOK([rec EXCEPT !.pc = "get", !.want = m])
  BY <1>2, <1>4, GetsKept
<1> QED
  BY <1>1, <1>2, <1>3, <1>5, OneMoves

\* A failover group tries the next that it has before it, ...
LEMMA TryInv ==
  ASSUME RoutesInv, NEW c \in Clients, Try(c)
  PROVE  RoutesInv'
<1> DEFINE rec == conn[c]
           f   == rec.stack[1]
           n   == f.todo[1]
<1>1. /\ ConnOK(rec) /\ rec.pc = "group" /\ rec.stack # << >> /\ phase = "on" /\ MadeOK
      /\ Kind(f.name) = "failover"
  BY Called DEF Try, Group
<1>2. /\ Steps(c, [rec EXCEPT !.pc = "get", !.want = n])
      /\ UNCHANGED << made, best >> /\ idx' \in [Groups -> Nat]
  BY DEF Try, Gets, groups, RoutesInv, ProbeOK, ProbeTypes
<1> HIDE DEF rec
<1>3. f \in Frames /\ FrameOK(f) /\ (Len(rec.stack) = 1 => Bottom(rec) = f)
  BY <1>1, TopOf
<1>4. n \in ToSet(Members(f.name))
  <2>1. f.todo \in Seq(Tries) /\ f.todo # << >> /\ ToSet(f.todo) \subseteq ToSet(Members(f.name))
    BY <1>1, <1>3 DEF Frames, FrameOK
  <2> QED
    BY <2>1, ToSetTail
<1>5. rec.route # "first" /\ ~HasSelector => n \in Reach(rec.route)
  BY <1>1, <1>4, MemberOf
<1>6. ConnOK([rec EXCEPT !.pc = "get", !.want = n])
  BY <1>1, <1>3, <1>5, GetsKept
<1> QED
  BY <1>1, <1>2, <1>6, OneMoves

\* ... and a chain calls its next hop, as it found it when it was made.
LEMMA HopInv ==
  ASSUME RoutesInv, NEW c \in Clients, Hop(c)
  PROVE  RoutesInv'
<1> DEFINE rec == conn[c]
           f   == rec.stack[1]
           n   == f.todo[1]
<1>1. /\ ConnOK(rec) /\ rec.pc = "group" /\ rec.stack # << >> /\ phase = "on" /\ MadeOK
      /\ Kind(f.name) = "chain" /\ f.name \in DOMAIN made /\ Members(f.name) \in Seq(Targets)
      /\ ~(Failing(rec) /\ Len(rec.stack) = 1)
  BY Called DEF Hop, Group
<1>2. /\ Steps(c, Fails(rec, "refused")) \/ Steps(c, Connects(rec, n))
      /\ UNCHANGED << made, best >> /\ idx' \in [Groups -> Nat]
  BY DEF Hop, groups, RoutesInv, ProbeOK, ProbeTypes
<1> HIDE DEF rec
<1>3. f \in Frames /\ FrameOK(f)
  BY <1>1, TopOf
<1>4. n \in ToSet(Members(f.name))
  <2>1. f.todo \in Seq(Tries) /\ f.todo # << >> /\ ToSet(f.todo) \subseteq ToSet(Members(f.name))
    BY <1>1, <1>3 DEF Frames, FrameOK
  <2> QED
    BY <2>1, ToSetTail
<1>5. rec.route # "first" /\ ~HasSelector => n \in Reach(rec.route)
  BY <1>1, <1>4, MemberOf
<1>6. n \in Targets /\ (IsGroup(n) => n \in DOMAIN made)
  <2>1. n \in Targets
    BY <1>1, <1>4, ToSetOf
  <2>2. n \in DOMAIN made \cup Builtin
    BY <1>1, <1>4 DEF MadeOK
  <2> QED
    BY <2>1, <2>2 DEF IsGroup, Groups, Builtin
<1>7. ConnOK(Connects(rec, n))
  BY <1>1, <1>5, <1>6, ConnectsKept
<1>8. Lost(rec)
  BY <1>1 DEF Lost
<1>9. ConnOK(Fails(rec, "refused"))
  BY <1>1, <1>8, FailsKept
<1> QED
  BY <1>1, <1>2, <1>7, <1>9, OneMoves

\* A proxy that does not answer is not live.
LEMMA DialInv ==
  ASSUME RoutesInv, NEW c \in Clients, DialProxy(c)
  PROVE  RoutesInv'
<1> DEFINE rec == conn[c]
<1>1. PICK ok \in BOOLEAN :
        /\ rec.want # "DIRECT" => (ok <=> rec.want \in up)
        /\ Steps(c, [rec EXCEPT !.pc = "back", !.ok = ok, !.why = "refused"])
  BY DEF DialProxy
<1>2. /\ ConnOK(rec) /\ rec.pc = "dial" /\ phase = "on"
      /\ UNCHANGED << made, best >> /\ idx' \in [Groups -> Nat]
  BY DEF DialProxy, groups, RoutesInv, ProbeOK, ProbeTypes
<1> DEFINE r == [rec EXCEPT !.pc = "back", !.ok = ok, !.why = "refused"]
<1>3. Steps(c, r)
  BY <1>1
<1> HIDE DEF rec
<1>4. /\ DOMAIN r = Fields /\ r.pc = "back" /\ r.ok = ok /\ r.want = rec.want
      /\ r.stack = rec.stack /\ r.route = rec.route /\ r.steady = rec.steady
  BY <1>2 DEF ConnOK, Shaped, Fields
<1> HIDE DEF r
<1>5. Failing(r) = Failing(rec) /\ Live(r) = Live(rec) /\ Bottom(r) = Bottom(rec)
  BY <1>4, SameWay
<1>6. Shaped(r)
  BY <1>1, <1>2, <1>4 DEF ConnOK, Shaped, Places
<1>7. OnRoute(r)
  BY <1>2, <1>4 DEF ConnOK, OnRoute
<1>8. ~ok => rec.want \notin Live(rec)
  BY <1>1, <1>2 DEF ConnOK, Shaped, Live, Proxies
<1>9. Falls(r)
  <2>1. Failing(rec) => rec.stack # << >>
    BY <1>2 DEF ConnOK, Falls
  <2>2. Failing(rec) /\ Len(rec.stack) = 1 /\ ~ok => Bottom(rec).todo[1] \notin Live(rec)
    BY <1>2, <1>8, <2>1 DEF ConnOK, Falls
  <2> QED
    BY <1>2, <1>4, <1>5, <2>1, <2>2 DEF ConnOK, Falls
<1> QED
  BY <1>2, <1>3, <1>6, <1>7, <1>9, OneMoves DEF ConnOK

\* The way back: the router's caller has it, ...
LEMMA EndsKept ==
  ASSUME NEW rec, ConnOK(rec), rec.pc = "back", rec.stack = << >>
  PROVE  ConnOK([rec EXCEPT !.pc = IF rec.ok THEN "made" ELSE "failed"])
<1> DEFINE r == [rec EXCEPT !.pc = IF rec.ok THEN "made" ELSE "failed"]
<1>1. /\ DOMAIN r = Fields /\ r.pc = IF rec.ok THEN "made" ELSE "failed"
      /\ r.ok = rec.ok /\ r.want = rec.want
      /\ r.stack = rec.stack /\ r.route = rec.route /\ r.steady = rec.steady
  BY DEF ConnOK, Shaped, Fields
<1> HIDE DEF r
<1>2. Failing(r) = Failing(rec) /\ Live(r) = Live(rec) /\ Bottom(r) = Bottom(rec)
  BY <1>1, SameWay
<1>3. Shaped(r)
  BY <1>1 DEF ConnOK, Shaped, Places
<1>4. OnRoute(r)
  BY <1>1 DEF ConnOK, OnRoute
<1>5. Falls(r)
  BY <1>1, <1>2 DEF ConnOK, Falls
<1> QED
  BY <1>3, <1>4, <1>5 DEF ConnOK, r

\* ... or the group that called goes on, ...
LEMMA GoesOnKept ==
  ASSUME MadeOK, NEW rec, ConnOK(rec), rec.pc = "back", rec.stack # << >>,
         Len(rec.stack[1].todo) > 1,
         Kind(rec.stack[1].name) = IF rec.ok THEN "chain" ELSE "failover"
  PROVE  ConnOK(GoesOn(rec))
<1> DEFINE f    == rec.stack[1]
           left == Tail(f.todo)
           r    == GoesOn(rec)
<1>1. /\ f \in Frames /\ FrameOK(f) /\ (Len(rec.stack) = 1 => Bottom(rec) = f)
      /\ Failing(rec) /\ Len(rec.stack) = 1 => Kind(f.name) = "failover"
  BY TopOf
<1>2. f.todo \in Seq(Tries) /\ f.todo # << >> /\ ToSet(f.todo) \subseteq ToSet(Members(f.name))
  BY <1>1 DEF Frames, FrameOK
<1>3. /\ left \in Seq(Tries) /\ Len(left) = Len(f.todo) - 1 /\ Len(f.todo) \in Nat
      /\ ToSet(left) \subseteq ToSet(f.todo)
      /\ ToSet(f.todo) \subseteq ToSet(left) \cup {f.todo[1]}
  BY <1>2, ToSetTail
<1>4. /\ DOMAIN r = Fields /\ r.pc = "group" /\ r.want = rec.want /\ r.ok = rec.ok
      /\ r.stack = [rec.stack EXCEPT ![1].todo = left]
      /\ r.route = rec.route /\ r.steady = rec.steady
  BY DEF ConnOK, Shaped, Fields, GoesOn
<1> HIDE DEF left, r
<1>5. left # << >>
  BY <1>3, EmptySeq
<1>6. FrameOK([name |-> f.name, todo |-> left])
  BY <1>1, <1>2, <1>3, <1>5 DEF FrameOK
<1>7. Failing(rec) /\ Len(rec.stack) = 1 => Live(rec) \subseteq ToSet(left)
  <2>1. Failing(rec) /\ Len(rec.stack) = 1 =>
          ~rec.ok /\ Live(rec) \subseteq ToSet(f.todo) /\ f.todo[1] \notin Live(rec)
    BY <1>1 DEF ConnOK, Falls
  <2> QED
    BY <1>3, <2>1
<1>8. ConnOK(r)
  BY <1>3, <1>4, <1>6, <1>7, TodoKept
<1> QED
  BY <1>8 DEF r

\* ... or returns to its own caller: a failover group when it has no other.
LEMMA ReturnsKept ==
  ASSUME MadeOK, NEW rec, ConnOK(rec), rec.pc = "back", rec.stack # << >>,
         ~(Len(rec.stack[1].todo) > 1 /\ Kind(rec.stack[1].name) = IF rec.ok THEN "chain" ELSE "failover")
  PROVE  ConnOK(ToCaller(rec))
<1> DEFINE f == rec.stack[1]
<1>1. SUFFICES ASSUME Failing(rec), Len(rec.stack) = 1, ~rec.ok PROVE Live(rec) = {}
  BY ToCallerKept
<1>2. f \in Frames /\ FrameOK(f) /\ Bottom(rec) = f /\ Kind(f.name) = "failover"
  BY <1>1, TopOf
<1>3. f.todo \in Seq(Tries) /\ f.todo # << >>
  BY <1>2 DEF Frames, FrameOK
<1>4. /\ Tail(f.todo) \in Seq(Tries) /\ Len(Tail(f.todo)) = Len(f.todo) - 1 /\ Len(f.todo) \in Nat
      /\ ToSet(f.todo) \subseteq ToSet(Tail(f.todo)) \cup {f.todo[1]}
  BY <1>3, ToSetTail
<1>5. Len(f.todo) # 0 /\ ~(Len(f.todo) > 1)
  BY <1>1, <1>2, <1>3, EmptySeq
<1>6. Tail(f.todo) = << >>
  <2>a. \A k \in Nat : k # 0 /\ ~(k > 1) => k - 1 = 0
    OBVIOUS
  <2>1. Len(Tail(f.todo)) = 0
    BY <1>4, <1>5, <2>a
  <2> QED
    BY <1>4, <2>1, EmptySeq
<1>7. ToSet(Tail(f.todo)) = {}
  BY <1>4, <1>6, ToSetOf
<1>8. Live(rec) \subseteq ToSet(f.todo) /\ f.todo[1] \notin Live(rec)
  BY <1>1, <1>2 DEF ConnOK, Falls
<1> QED
  BY <1>4, <1>7, <1>8

\* So whichever way back it is, the connection is on its way.
LEMMA BackInv ==
  ASSUME RoutesInv, NEW c \in Clients, Back(c)
  PROVE  RoutesInv'
<1> DEFINE rec == conn[c]
<1>1. /\ ConnOK(rec) /\ rec.pc = "back" /\ phase = "on" /\ MadeOK
      /\ UNCHANGED << made, best >> /\ idx' \in [Groups -> Nat]
  BY DEF Back, RoutesInv, ProbeOK, ProbeTypes
<1>2. \/ rec.stack = << >> /\ Steps(c, [rec EXCEPT !.pc = IF rec.ok THEN "made" ELSE "failed"])
      \/ /\ rec.stack # << >> /\ Len(rec.stack[1].todo) > 1
         /\ Kind(rec.stack[1].name) = (IF rec.ok THEN "chain" ELSE "failover")
         /\ Steps(c, GoesOn(rec))
      \/ /\ rec.stack # << >>
         /\ ~(Len(rec.stack[1].todo) > 1 /\ Kind(rec.stack[1].name) = IF rec.ok THEN "chain" ELSE "failover")
         /\ Steps(c, ToCaller(rec))
  BY DEF Back
<1> HIDE DEF rec
<1>3. CASE rec.stack = << >> /\ Steps(c, [rec EXCEPT !.pc = IF rec.ok THEN "made" ELSE "failed"])
  <2>1. ConnOK([rec EXCEPT !.pc = IF rec.ok THEN "made" ELSE "failed"])
    BY <1>1, <1>3, EndsKept
  <2> QED
    BY <1>1, <1>3, <2>1, OneMoves
<1>4. CASE /\ rec.stack # << >> /\ Len(rec.stack[1].todo) > 1
           /\ Kind(rec.stack[1].name) = (IF rec.ok THEN "chain" ELSE "failover")
           /\ Steps(c, GoesOn(rec))
  <2>1. ConnOK(GoesOn(rec))
    BY <1>1, <1>4, GoesOnKept
  <2> QED
    BY <1>1, <1>4, <2>1, OneMoves
<1>5. CASE /\ rec.stack # << >>
           /\ ~(Len(rec.stack[1].todo) > 1 /\ Kind(rec.stack[1].name) = IF rec.ok THEN "chain" ELSE "failover")
           /\ Steps(c, ToCaller(rec))
  <2>1. ConnOK(ToCaller(rec))
    BY <1>1, <1>5, ReturnsKept
  <2> QED
    BY <1>1, <1>5, <2>1, OneMoves
<1> QED
  BY <1>2, <1>3, <1>4, <1>5

\* A connection that is not under way has no way yet.
LEMMA IdleOK == ConnOK(Idle)
<1>1. /\ DOMAIN Idle = Fields /\ Idle.pc = "idle" /\ Idle.stack = << >> /\ Idle.ok = FALSE
      /\ Idle.steady = {}
  BY DEF Idle, Fields
<1>2. Idle.stack \in Seq(Frames) /\ \A i \in 1..Len(Idle.stack) : FALSE
  <2>1. << >> \in Seq(Frames) /\ Len(<< >>) = 0
    BY EmptySeq
  <2> QED
    BY <1>1, <2>1
<1> QED
  BY <1>1, <1>2 DEF ConnOK, Shaped, Places, OnRoute, Falls, Failing

\* A connection ends, whatever came of it.
LEMMA FinishInv ==
  ASSUME RoutesInv, NEW c \in Clients, Finish(c)
  PROVE  RoutesInv'
<1>1. /\ phase # "off" /\ Steps(c, Idle) /\ UNCHANGED << made, best >> /\ idx' \in [Groups -> Nat]
  BY DEF Finish, Steps, groups, RoutesInv, Unbuilt, ProbeOK, ProbeTypes
<1> QED
  BY <1>1, IdleOK, OneMoves

\* All but the connections.
Base == MadeOK /\ Unbuilt /\ Domains /\ ProbeOK /\ BestOK

\* What is done meanwhile.
LEMMA ChangeInv ==
  ASSUME RoutesInv, AddRule \/ AddProxy \/ RemoveProxy \/ SetChoice
  PROVE  RoutesInv'
<1>1. /\ phase = "on" /\ phase' = "on" /\ UNCHANGED << idx, best, failed, probe >> /\ up' = up
  BY DEF AddRule, AddProxy, RemoveProxy, SetChoice, Changes
<1>2. Base
  BY DEF RoutesInv, Base
<1>3. Unbuilt' /\ up' \subseteq Proxies /\ idx' \in [Groups -> Nat]
  BY <1>1, <1>2 DEF Base, Unbuilt, Domains, ProbeOK, ProbeTypes
<1>4. CASE AddRule \/ SetChoice
  <2>1. made' = made /\ registry' = registry /\ conn' = conn
    BY <1>4 DEF AddRule, SetChoice
  <2>2. MadeOK' /\ Domains'
    BY <1>1, <1>2, <2>1 DEF Base, MadeOK, Domains, Members, Kind, URLTests
  <2>3. ProbeOK' /\ BestOK'
    BY <1>1, <1>2, <1>3, <2>1, ProbeStays DEF Base
  <2> QED
    BY <1>1, <1>3, <2>1, <2>2, <2>3, NoneMoves, SameGrows DEF RoutesInv
<1>5. CASE AddProxy
  <2>1. conn' = conn
    BY <1>5 DEF AddProxy
  <2>2. /\ MadeOK' /\ Grows /\ registry \subseteq registry' /\ URLTests' = URLTests
        /\ \A n \in DOMAIN made : Members(n)' = Members(n)
    BY <1>2, <1>5, AddMade DEF Base, Grows
  <2>3. ProbeOK' /\ BestOK'
    BY <1>1, <1>2, <1>3, <2>2, ProbeStays DEF Base
  <2>4. Domains'
    BY <1>1, <1>2, <2>1 DEF Base, Domains
  <2> QED
    BY <1>1, <1>3, <2>1, <2>2, <2>3, <2>4, NoneMoves DEF RoutesInv
<1>6. CASE RemoveProxy
  <2>1. PICK n \in registry : registry' = registry \ {n} /\ Unsteady(n)
    BY <1>6 DEF RemoveProxy
  <2>2. made' = made
    BY <1>6 DEF RemoveProxy
  <2>3. MadeOK' /\ Domains'
    BY <1>1, <1>2, <2>1, <2>2 DEF Base, MadeOK, Domains, Members, Kind, URLTests, Unsteady
  <2>4. ProbeOK' /\ BestOK'
    BY <1>1, <1>2, <1>3, <2>2, ProbeStays DEF Base
  <2> QED
    BY <1>1, <1>3, <2>1, <2>2, <2>3, <2>4, AllUnsteady DEF RoutesInv
<1> QED
  BY <1>4, <1>5, <1>6

\* What happens to the proxies, before and after the router is there.
LEMMA OutageInv ==
  ASSUME RoutesInv, GoesDown \/ GoesSilent \/ ComesBack
  PROVE  RoutesInv'
<1>1. /\ phase' = phase /\ made' = made /\ registry' = registry /\ UNCHANGED << idx, best, probe >>
      /\ \E k : setup' = [setup EXCEPT !.outages = k]
  BY DEF GoesDown, GoesSilent, ComesBack, Outage, groups
<1>2. Base
  BY DEF RoutesInv, Base
<1>3. MadeOK'
  BY <1>1, <1>2 DEF Base, MadeOK, Members, Kind, URLTests
<1>4. ProbeOK' /\ BestOK'
  BY <1>1, <1>2, ProbeStays DEF Base, ProbeOK, ProbeTypes
<1>5. Domains' /\ (\A c \in Clients : conn[c].pc = "idle" => conn'[c].pc = "idle")
        /\ \A c \in Clients : ConnOK(conn[c])'
  <2>1. CASE ComesBack
    <3>1. PICK p \in Proxies : up' = up \cup {p} /\ conn' = conn
      BY <2>1 DEF ComesBack
    <3>2. \A c \in Clients : ConnOK(conn[c])'
      BY <1>1, <3>1, NoneMoves, SameGrows
    <3> QED
      BY <1>2, <3>1, <3>2 DEF Base, Domains
  <2>2. CASE GoesDown \/ GoesSilent
    <3>1. PICK p : up' = up \ {p} /\ Unsteady(p)
      BY <2>2 DEF GoesDown, GoesSilent
    <3>2. \A c \in Clients : ConnOK(conn[c])'
      BY <1>1, <3>1, AllUnsteady
    <3>3. ASSUME NEW c \in Clients, conn[c].pc = "idle" PROVE conn'[c].pc = "idle"
      BY <3>1, <3>3 DEF Unsteady, RoutesInv, ConnOK, Shaped, Fields
    <3> QED
      BY <1>2, <3>1, <3>2, <3>3 DEF Base, Domains, Unsteady
  <2> QED
    BY <2>1, <2>2
<1>6. Unbuilt'
  BY <1>1, <1>2, <1>5 DEF Base, Unbuilt
<1> QED
  BY <1>3, <1>4, <1>5, <1>6 DEF RoutesInv

\* The router is built before anybody connects.
LEMMA BuildInv ==
  ASSUME RoutesInv, BuildRouter
  PROVE  RoutesInv'
<1>1. MadeOK'
  BY BuildMade DEF RoutesInv
<1>2. ProbeOK' /\ BestOK'
  BY <1>1, BuildProbes DEF RoutesInv
<1>3. phase = "off" /\ phase' # "off" /\ conn' = conn /\ up' = up
  BY DEF BuildRouter
<1>4. Unbuilt' /\ Domains'
  BY <1>3 DEF Unbuilt, Domains, RoutesInv
<1>5. ASSUME NEW c \in Clients PROVE ConnOK(conn[c])'
  <2>1. PICK r : r = conn[c]
    OBVIOUS
  <2>2. ConnOK(r) /\ r.pc = "idle" /\ r.stack = << >> /\ r.steady = {}
    BY <1>3, <2>1 DEF RoutesInv, Unbuilt, ConnOK, Shaped
  <2>3. \A i \in 1..Len(r.stack) : FALSE
    <3>1. Len(<< >>) = 0
      BY EmptySeq
    <3> QED
      BY <2>2, <3>1
  <2>4. ConnOK(r)'
    BY <2>2, <2>3 DEF ConnOK, Shaped, OnRoute, Falls, Failing
  <2> QED
    BY <1>3, <2>1, <2>4
<1> QED
  BY <1>1, <1>2, <1>4, <1>5 DEF RoutesInv

\* The probes end before anybody connects.
LEMMA ProbingInv ==
  ASSUME RoutesInv, Probing
  PROVE  RoutesInv'
<1>1. ProbeOK' /\ BestOK'
  BY RoundProbes DEF RoutesInv
<1>2. /\ phase # "off" /\ phase' # "off" /\ made' = made /\ registry' = registry /\ up' = up
      /\ conn' = conn
  BY DEF Probing, Measure, Appends, Torn, ProbeEnds, groups
<1>3. MadeOK' /\ Unbuilt' /\ Domains'
  BY <1>2 DEF RoutesInv, MadeOK, Unbuilt, Domains, Members, Kind, URLTests
<1> QED
  BY <1>1, <1>2, <1>3, NoneMoves, SameGrows DEF RoutesInv

\* At first there is nothing, and nobody.
LEMMA RoutesInit == RoutingInit => RoutesInv
<1> SUFFICES ASSUME RoutingInit PROVE RoutesInv
  OBVIOUS
<1>1. SetupOK(setup)
  BY RoutingAssumption DEF RoutingInit
<1>2. phase = "off" /\ made = << >> /\ DOMAIN made = {} /\ registry = {}
  BY DEF RoutingInit
<1>3. probe = [t \in Targets |-> [at |-> "none", took |-> 0, met |-> {}]]
  BY DEF RoutingInit
<1>4. MadeOK /\ BestOK
  BY <1>2 DEF MadeOK, BestOK, URLTests
<1>5. ProbeTypes
  BY <1>3 DEF ProbeTypes, RoutingInit
<1>6. ProbeOK
  BY <1>2, <1>3, <1>5 DEF ProbeOK, BestMeasured
<1>7. Domains /\ \A c \in Clients : conn[c] = Idle
  BY DEF RoutingInit, Domains
<1>8. Unbuilt
  BY <1>1, <1>2, <1>3, <1>7 DEF Unbuilt, SetupOK, Idle
<1> QED
  BY <1>4, <1>6, <1>7, <1>8, IdleOK DEF RoutesInv

\* Every step keeps every connection on its way.
LEMMA RoutesNext == RoutesInv /\ [RoutingNext]_routingVars => RoutesInv'
<1> SUFFICES ASSUME RoutesInv, [RoutingNext]_routingVars PROVE RoutesInv'
  OBVIOUS
<1>1. CASE BuildRouter
  BY <1>1, BuildInv
<1>2. CASE Probing
  BY <1>2, ProbingInv
<1>3. ASSUME NEW c \in Clients, Pick(c) \/ Connecting(c) PROVE RoutesInv'
  BY <1>3, PickInv, SelectFirstInv, GetInv, OverflowInv, SelectInv, UseBestInv, RotateInv, BalanceInv,
     TryInv, HopInv, DialInv, BackInv, FinishInv DEF Connecting
<1>4. CASE AddRule \/ AddProxy \/ RemoveProxy \/ SetChoice
  BY <1>4, ChangeInv
<1>5. CASE GoesDown \/ GoesSilent \/ ComesBack
  BY <1>5, OutageInv
<1>6. CASE UNCHANGED routingVars
  <2>1. /\ setup' = setup /\ phase' = phase /\ made' = made /\ registry' = registry /\ up' = up
        /\ conn' = conn /\ UNCHANGED << probe, best >> /\ idx' = idx
    BY <1>6 DEF routingVars, groups
  <2>2. MadeOK' /\ Unbuilt' /\ Domains'
    BY <2>1 DEF RoutesInv, MadeOK, Unbuilt, Domains, Members, Kind, URLTests
  <2>3. ProbeOK' /\ BestOK'
    BY <2>1, ProbeStays DEF RoutesInv, ProbeOK, ProbeTypes
  <2> QED
    BY <2>1, <2>2, <2>3, NoneMoves, SameGrows DEF RoutesInv
<1> QED
  BY <1>1, <1>2, <1>3, <1>4, <1>5, <1>6 DEF RoutingNext

\* Every connection is on a way that its rule and the groups lay out: the
\* invariant the other three rest on.
THEOREM RoutesInvariant == RoutingSpec => []RoutesInv
BY RoutesInit, RoutesNext, PTL DEF RoutingSpec

\* A connection is made through what its rule's target leads to and nothing
\* else (router.go:77), unless a selector, which takes any name, is configured.
THEOREM RoutesAreKept == RoutingSpec => []RouteKept
<1>1. RoutesInv => RouteKept
  <2> SUFFICES ASSUME RoutesInv, NEW c \in Clients, conn[c].pc = "made", conn[c].route # "first", ~HasSelector
               PROVE  conn[c].want \in Leads(conn[c].route)
    BY DEF RouteKept
  <2> QED
    BY DEF RoutesInv, ConnOK, Shaped, OnRoute
<1> QED
  BY <1>1, RoutesInvariant, PTL

\* A failover group gives up only on members of which none was there and
\* answering all the time (failover_group.go:40).
THEOREM FailoverTriesAll == RoutingSpec => []FailoverFinds
<1>1. RoutesInv => FailoverFinds
  <2> SUFFICES ASSUME RoutesInv, NEW c \in Clients, conn[c].pc = "failed",
                      conn[c].route \in conn[c].steady \cap Groups, Kind(conn[c].route) = "failover"
               PROVE  Proxies \cap ToSet(Members(conn[c].route)) \cap conn[c].steady = {}
    BY DEF FailoverFinds
  <2> QED
    BY DEF RoutesInv, ConnOK, Shaped, Falls, Failing, Live
<1> QED
  BY <1>1, RoutesInvariant, PTL

\* The best of a url-test group is as fast as every member that answered and
\* whose append met no other, unless it is one whose append did
\* (urltest.go:123, 127).
THEOREM BestIsMeasured == RoutingSpec => []BestMeasured
<1>1. RoutesInv => BestMeasured
  BY DEF RoutesInv, ProbeOK
<1> QED
  BY <1>1, RoutesInvariant, PTL
=============================================================================
