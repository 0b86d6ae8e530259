------------------------------ MODULE Outbound ------------------------------
(***************************************************************************)
(* The outbound protocols of proxy/: what Connect of each of them says to  *)
(* the proxy server it dials, what it waits for, and what becomes of the   *)
(* socket on every path out; and Chain.Connect, which asks one hop after   *)
(* the other.                                                              *)
(*                                                                         *)
(* A protocol is a script: the calls of its Connect behind the dial, in    *)
(* the order of the code.  The server is on the other end: it answers a    *)
(* request when it likes, in pieces, with a yes or a no, sends payload of  *)
(* the target behind its last answer, and may close at any time.  Bytes    *)
(* are counted: what is left of them is whose they are, the answer's or    *)
(* the payload's.  Requests, keys and ciphers are left out.                *)
(***************************************************************************)
EXTENDS Integers, Sequences

CONSTANT MaxPayload  \* bytes of payload a server sends unasked

ASSUME MaxPayloadAssumption == MaxPayload \in Nat

-----------------------------------------------------------------------------
(* The calls a script is made of.  n is the number of bytes a read wants,  *)
(* by the form of the address in the server's answer; looks says that the  *)
(* answer's verdict is looked at behind the read; keeps has the ways out   *)
(* that return without closing the socket: an operation that fails is one, *)
(* an answer that refuses another.                                         *)

Forms == {"ip4", "name"}

Ways == {"broken", "refused"}

Call(op, n, looks, keeps) == [op |-> op, n |-> n, looks |-> looks, keeps |-> keeps]

Always(n) == [f \in Forms |-> n]

TLS   == Call("local", Always(0), FALSE, {})
Local == TLS
Write == Call("write", Always(0), FALSE, {})

\* io.ReadFull whose error is returned
Read(n) == Call("read", Always(n), TRUE, {})

\* io.ReadFull whose error nobody looks at
Skip(n) == Call("skip", n, FALSE, {})

\* httpReadResponse: lines through a bufio.Reader that is thrown away
ReadHeader == Call("header", Always(0), TRUE, {})

\* the loop over doneHTTPResponse: until all that was read ends with a blank line
ReadUntilBlank == Call("blank", Always(0), TRUE, {})

-----------------------------------------------------------------------------
(* The scripts *)

SendConnect == << Write, ReadHeader >>

HTTP    == SendConnect
HTTPSNI == << TLS >> \o SendConnect

HTTPS == << TLS >> \o SendConnect

\* the RoundTripper, which has the socket, is made in Connect and closed nowhere;
\* a body that is no stream is an error of its own
HTTP3 == << Call("local", Always(0), FALSE, Ways), Call("write", Always(0), FALSE, Ways),
            Call("read", Always(1), TRUE, Ways), Call("local", Always(0), FALSE, Ways) >>

Greeting == << Write, Read(2) >>
Auth     == << Write, Read(2) >>

\* five bytes, and then as many as the address and the port have behind four;
\* of a name, the fifth byte was its length, and the next, a letter, is taken for it
SOCKS5Request ==
  << Write, Read(5), Skip([ip4 |-> 6, name |-> 1 + 97 + 2]) >>

SOCKS5     == Greeting \o SOCKS5Request
SOCKS5Auth == Greeting \o Auth \o SOCKS5Request

UDPAssociate ==
  << Write, Read(5), Call("read", [ip4 |-> 6, name |-> 1 + 97 + 2], FALSE, {}) >>

ConnectUDP == Greeting \o UDPAssociate \o << Local >>

\* A fault the properties are to notice: a refusal leaves the socket open, too
TrojanLeaks == << TLS, Write, Call("read", Always(1), TRUE, Ways) >>

\* the read of the answer leaves the socket open when it fails; a refusal closes it
Trojan == << TLS, Write, Call("read", Always(1), TRUE, {"broken"}) >>

VMess == << Write, Call("read", Always(2), FALSE, {}) >>

Shadowsocks == << Write >>

\* A fault the properties are to notice: two bytes are waited for where one is sent
VLESSHeadTwo == << Write, Read(2) >>

VLESSHead    == << Write, Read(1) >>
VLESS        == << TLS >> \o VLESSHead
RealityHello == << Local, Local, TLS >>
Reality      == RealityHello \o VLESSHead

Forward    == << >>
ForwardTLS == << TLS >>

FRP == << Write, Read(1) >>

Direct == << >>

\* wrapTLS returns no connection with its error, and Close is called on that
WrapTLS == Call("crash", Always(0), FALSE, {"broken"})

UpstreamHTTPHandshake == << Write, ReadUntilBlank >>
UpstreamHTTP  == UpstreamHTTPHandshake
UpstreamHTTPS == << WrapTLS >> \o UpstreamHTTPHandshake

UpstreamGreeting == << Write, Read(2) >>
UpstreamAuth     == << Write, Read(2) >>

\* A fault the properties are to notice: the fifth byte read with the first four
UpstreamRequestFive == << Write, Read(5), Skip([ip4 |-> 6, name |-> 1 + 2 + 2]) >>

UpstreamRequest == << Write, Read(4), Skip([ip4 |-> 6, name |-> 1 + 2 + 2]) >>

UpstreamSOCKS5     == UpstreamGreeting \o UpstreamRequest
UpstreamSOCKS5Auth == UpstreamGreeting \o UpstreamAuth \o UpstreamRequest

Script ==
  [direct |-> Direct, forward |-> Forward, forwardTLS |-> ForwardTLS,
   http |-> HTTP, httpSNI |-> HTTPSNI, https |-> HTTPS, http3 |-> HTTP3,
   socks5 |-> SOCKS5, socks5Auth |-> SOCKS5Auth, associate |-> ConnectUDP,
   trojan |-> Trojan, vmess |-> VMess, shadowsocks |-> Shadowsocks,
   vless |-> VLESS, reality |-> Reality, frp |-> FRP,
   upstreamHTTP |-> UpstreamHTTP, upstreamHTTPS |-> UpstreamHTTPS,
   upstreamSOCKS5 |-> UpstreamSOCKS5, upstreamSOCKS5Auth |-> UpstreamSOCKS5Auth]

Protocols == DOMAIN Script

\* what NewProxy makes, and a Chain may have as a hop
Registered ==
  {"direct", "forward", "forwardTLS", "http", "httpSNI", "https", "http3",
   "socks5", "socks5Auth", "trojan", "vmess", "shadowsocks", "vless", "reality"}

\* the hops with a ServerAddr
Addressed == Registered \ {"direct"}

\* the protocols that set a deadline for the handshake's reads
Timed == {"upstreamHTTP", "upstreamHTTPS", "upstreamSOCKS5", "upstreamSOCKS5Auth"}

\* the number of addresses a dial tries
Addresses(p) == IF p = "direct" THEN 2 ELSE 1

\* a server's answers, the bytes of each; the address of the last may be a name of two
Bound(form) == 4 + (IF form = "ip4" THEN 4 ELSE 1 + 2) + 2

Answers(p, form) ==
  CASE p \in {"direct", "forward", "forwardTLS", "shadowsocks"} -> << >>
    [] p \in {"trojan", "vless", "reality", "frp", "http3"} -> << 1 >>
    [] p \in {"vmess", "http", "httpSNI", "https", "upstreamHTTP", "upstreamHTTPS"} -> << 2 >>
    [] p \in {"socks5", "associate", "upstreamSOCKS5"} -> << 2, Bound(form) >>
    [] p \in {"socks5Auth", "upstreamSOCKS5Auth"} -> << 2, 2, Bound(form) >>

-----------------------------------------------------------------------------
VARIABLES
  hops,      \* the chain's hops, or the one proxy that is asked
  caller,    \* who asked: a relay that keeps the connection, or Latency
  at,        \* [hop, call]: the hop, and the next call of its script; 0 is the dial
  tries,     \* addresses the dial has left
  socket,    \* the hop's: "none", "open" or "closed"
  lost,      \* sockets that are open and nobody's: [hop, call, way] they were left at
  result,    \* "none", "conn", "error" or "crash"
  got,       \* bytes read off the hop's connection
  asked,     \* requests written on it
  server     \* the other end: [form, answered, owed, sent, blanks, refused, gone]; blanks
             \* are the places in its payload where a blank line ends

vars == << hops, caller, at, tries, socket, lost, result, got, asked, server >>

client == << at, tries, socket, lost, result, got, asked >>

NewServer(form) ==
  [form |-> form, answered |-> 0, owed |-> 0, sent |-> 0, blanks |-> {},
   refused |-> FALSE, gone |-> FALSE]

Init ==
  /\ hops \in {<< p >> : p \in Protocols} \cup (Registered \X Registered)
  /\ caller \in {"relay", "latency"}
  /\ at = [hop |-> 1, call |-> 0]
  /\ tries = Addresses(hops[1])
  /\ socket = "none"
  /\ lost = {}
  /\ result = "none"
  /\ got = 0
  /\ asked = 0
  /\ server \in {NewServer(f) : f \in Forms}

Protocol == hops[at.hop]

TheCall == Script[Protocol][at.call]

\* the connection waits in the named call
In(op) ==
  /\ result = "none"
  /\ at.call \in 1..Len(Script[Protocol])
  /\ TheCall.op = op

Proceed == at' = [at EXCEPT !.call = @ + 1]

Left(way) == [hop |-> at.hop, call |-> at.call, way |-> way]

Fail(way) ==
  /\ result' = IF TheCall.op = "crash" THEN "crash" ELSE "error"
  /\ IF way \in TheCall.keeps THEN lost' = lost \cup {Left(way)} /\ UNCHANGED socket
                              ELSE socket' = "closed" /\ UNCHANGED lost

\* Close of the connection a Connect returned; of http3Conn it is the stream's
CloseConn == lost' = IF Protocol = "http3" THEN lost \cup {Left("closed")} ELSE lost

Keep == UNCHANGED << hops, caller >>

-----------------------------------------------------------------------------
(* The client *)

\* a hop that leads to one without an address is not dialled
NoAddress ==
  /\ result = "none" /\ at.call = 0
  /\ at.hop < Len(hops) /\ hops[at.hop + 1] \notin Addressed
  /\ result' = "error"
  /\ UNCHANGED << at, tries, socket, lost, got, asked, server >> /\ Keep

MayDial ==
  /\ result = "none" /\ at.call = 0
  /\ at.hop < Len(hops) => hops[at.hop + 1] \in Addressed

Dial ==
  /\ MayDial
  /\ socket' = "open"
  /\ Proceed
  /\ UNCHANGED << tries, lost, result, got, asked, server >> /\ Keep

DialFails ==
  /\ MayDial
  /\ tries' = tries - 1
  /\ result' = IF tries' = 0 THEN "error" ELSE result
  /\ UNCHANGED << at, socket, lost, got, asked, server >> /\ Keep

\* a handshake below, or a call that needs no server
DoLocal ==
  /\ In("local") \/ In("crash")
  /\ \/ Proceed /\ UNCHANGED << socket, lost, result >>
     \/ Fail("broken") /\ UNCHANGED at
  /\ UNCHANGED << tries, got, asked, server >> /\ Keep

\* an address or a key that makes no request is an error of the same path
DoWrite ==
  /\ In("write")
  /\ \/ Proceed /\ asked' = asked + 1 /\ UNCHANGED << socket, lost, result >>
     \/ Fail("broken") /\ UNCHANGED << at, asked >>
  /\ UNCHANGED << tries, got, server >> /\ Keep

Wanted == TheCall.n[server.form]

Refused == TheCall.looks /\ server.refused

DoRead ==
  /\ In("read")
  /\ server.sent - got >= Wanted
  /\ got' = got + Wanted
  /\ IF Refused THEN Fail("refused") /\ UNCHANGED at
                ELSE Proceed /\ UNCHANGED << socket, lost, result >>
  /\ UNCHANGED << tries, asked, server >> /\ Keep

ReadFails ==
  /\ In("read")
  /\ server.gone \/ Protocol \in Timed
  /\ server.sent - got < Wanted
  /\ Fail("broken")
  /\ UNCHANGED << at, tries, got, asked, server >> /\ Keep

DoSkip ==
  /\ In("skip")
  /\ \/ server.sent - got >= Wanted /\ got' = got + Wanted
     \/ /\ server.sent - got < Wanted
        /\ server.gone \/ Protocol \in Timed
        /\ got' = server.sent
  /\ Proceed
  /\ UNCHANGED << tries, socket, lost, result, asked, server >> /\ Keep

\* of two bytes of answer the first is the status line, the last the blank one
DoReadHeader ==
  /\ In("header")
  /\ \/ /\ server.answered = asked /\ server.sent >= server.owed
        /\ got' \in server.owed..server.sent
     \/ server.gone /\ server.sent > 0 /\ got' = server.sent
  /\ IF Refused THEN Fail("refused") /\ UNCHANGED at
                ELSE Proceed /\ UNCHANGED << socket, lost, result >>
  /\ UNCHANGED << tries, asked, server >> /\ Keep

HeaderFails ==
  /\ In("header")
  /\ server.gone /\ server.sent = 0
  /\ Fail("broken")
  /\ UNCHANGED << at, tries, got, asked, server >> /\ Keep

\* one read; that the last bytes of all that was read are a blank line ends the loop, though
\* the answer's own may be further up, with payload behind it
DoReadUntilBlank ==
  /\ In("blank")
  /\ got < server.sent
  /\ got' \in (got + 1)..server.sent
  /\ IF (server.answered = asked /\ got' = server.owed) \/ got' \in server.blanks
     THEN IF Refused THEN Fail("refused") /\ UNCHANGED at
                     ELSE Proceed /\ UNCHANGED << socket, lost, result >>
     ELSE UNCHANGED << at, socket, lost, result >>
  /\ UNCHANGED << tries, asked, server >> /\ Keep

\* the deadline, the end of the stream, or more than 8192 bytes without that
BlankFails ==
  /\ In("blank")
  /\ Protocol \in Timed \/ (server.gone /\ got = server.sent)
  /\ Fail("broken")
  /\ UNCHANGED << at, tries, got, asked, server >> /\ Keep

\* Connect of a hop has returned a connection: the last hop's is the caller's
HopDone == result = "none" /\ at.call > Len(Script[Protocol])

Return ==
  /\ HopDone /\ at.hop = Len(hops)
  /\ result' = "conn"
  /\ UNCHANGED << at, tries, socket, lost, got, asked, server >> /\ Keep

\* and of an earlier one it is closed before the next is dialled
NextHop ==
  /\ HopDone /\ at.hop < Len(hops)
  /\ at' = [hop |-> at.hop + 1, call |-> 0]
  /\ tries' = Addresses(hops[at.hop + 1])
  /\ socket' = "none"
  /\ got' = 0
  /\ asked' = 0
  /\ server' \in {NewServer(f) : f \in Forms}
  /\ CloseConn
  /\ UNCHANGED result /\ Keep

\* Latency closes the connection it was given
Measured ==
  /\ result = "conn" /\ caller = "latency" /\ socket = "open"
  /\ socket' = "closed"
  /\ CloseConn
  /\ UNCHANGED << at, tries, result, got, asked, server >> /\ Keep

Client ==
  \/ NoAddress \/ Dial \/ DialFails \/ DoLocal \/ DoWrite \/ DoRead \/ ReadFails
  \/ DoSkip \/ DoReadHeader \/ HeaderFails \/ DoReadUntilBlank \/ BlankFails
  \/ Return \/ NextHop \/ Measured

-----------------------------------------------------------------------------
(* The server *)

Serving == socket = "open" /\ ~server.gone

Answer ==
  /\ Serving /\ server.answered < asked
  /\ server.answered < Len(Answers(Protocol, server.form))
  /\ \E no \in BOOLEAN :
       server' = [server EXCEPT
         !.answered = @ + 1,
         !.owed = @ + Answers(Protocol, server.form)[server.answered + 1],
         !.refused = no]
  /\ UNCHANGED client /\ Keep

\* an answer comes whole or byte by byte
Deliver ==
  /\ Serving /\ server.sent < server.owed
  /\ \E n \in {server.sent + 1, server.owed} : server' = [server EXCEPT !.sent = n]
  /\ UNCHANGED client /\ Keep

SendPayload ==
  /\ Serving /\ ~server.refused
  /\ server.answered = Len(Answers(Protocol, server.form))
  /\ server.sent \in server.owed..(server.owed + MaxPayload - 1)
  /\ \E ends \in {{}, {server.sent + 1}} :
       server' = [server EXCEPT !.sent = @ + 1, !.blanks = @ \cup ends]
  /\ UNCHANGED client /\ Keep

HangUp ==
  /\ Serving
  /\ server' = [server EXCEPT !.gone = TRUE]
  /\ UNCHANGED client /\ Keep

Next == Client \/ Answer \/ Deliver \/ SendPayload \/ HangUp

Spec == Init /\ [][Next]_vars

-----------------------------------------------------------------------------
(* A goroutine runs on; a server answers, and what it sent is delivered. *)

FairSpec == Spec /\ WF_vars(Client) /\ WF_vars(Answer) /\ WF_vars(Deliver)

-----------------------------------------------------------------------------
(* Properties *)

TypeOK ==
  /\ at.hop \in 1..Len(hops) /\ at.call \in 0..(Len(Script[Protocol]) + 1)
  /\ tries \in 0..2
  /\ socket \in {"none", "open", "closed"}
  /\ lost \subseteq [hop : {1, 2}, call : 1..8, way : Ways \cup {"closed"}]
  /\ result \in {"none", "conn", "error", "crash"}
  /\ got \in 0..server.sent
  /\ asked \in 0..3
  /\ server.sent \in 0..(server.owed + MaxPayload)
  /\ server.answered \in 0..asked

(***************************************************************************)
(* Whatever fails, and at whichever hop of a chain, Connect leaves no      *)
(* socket that nobody can close: with an error all of them are closed, and *)
(* with a connection only that one is open.  Three ways are known to break *)
(* it: a failed read of a Trojan server's answer (trojan.go, 57), a failed *)
(* TLS of an https upstream, which ends the program (upstream.go, 127),    *)
(* and every way out of HTTP3, whose RoundTripper is nobody's once Connect *)
(* has returned (http3.go, 36).  A refused Trojan answer is none of them.  *)
(***************************************************************************)
Known(l) ==
  \/ hops[l.hop] = "http3"
  \/ hops[l.hop] = "trojan" /\ l.call = Len(Trojan) /\ l.way = "broken"
  \/ hops[l.hop] = "upstreamHTTPS" /\ result = "crash"

SocketsSettled ==
  /\ \A l \in lost : Known(l)
  /\ result = "error" /\ (\A l \in lost : l.hop # at.hop) => socket \in {"none", "closed"}
  /\ result = "conn" =>
       /\ \A l \in lost : hops[l.hop] = "http3"
       /\ socket = "open" \/ caller = "latency"

(***************************************************************************)
(* The connection Connect returns begins right behind the server's answer: *)
(* of the target's stream no byte was swallowed, whatever came glued to    *)
(* the answer, and of the answer none was left.  Known to break it: the    *)
(* CONNECT and SOCKS5 proxies, which read ahead (http.go, 83; socks5.go,   *)
(* 112); the skip of an upstream's address, which ignores its errors       *)
(* (upstream.go, 306) and may leave some of the answer; and the wait of an *)
(* http upstream for a blank line at the end of all it has read, which     *)
(* takes glued payload for the answer when that, too, ends with a blank    *)
(* line (upstream.go, 315): only then, and up to there.                    *)
(***************************************************************************)
ReadsAhead == {"http", "httpSNI", "https", "socks5", "socks5Auth", "associate"}

StreamExact ==
  (result = "conn" /\ Protocol \notin ReadsAhead) =>
    /\ got < server.owed => Protocol \in {"upstreamSOCKS5", "upstreamSOCKS5Auth"}
    /\ got > server.owed =>
         Protocol \in {"upstreamHTTP", "upstreamHTTPS"} /\ got \in server.blanks

(***************************************************************************)
(* Against servers that answer what they are asked, every Connect returns, *)
(* through every chain, whatever the servers refuse and wherever they      *)
(* close.  The SOCKS5 client asks for a byte more than a server's answer   *)
(* has and waits for it (socks5.go, 112 and 122): it is left out.          *)
(***************************************************************************)
Overreads == {"socks5", "socks5Auth", "associate"}

Returns == (\A i \in 1..Len(hops) : hops[i] \notin Overreads) => <>(result # "none")
=============================================================================
