----------------------------- MODULE Forwarders -----------------------------
(***************************************************************************)
(* One process runs one of the commands: a relay of connections, one of    *)
(* datagrams, or the DNS server.                                           *)
(***************************************************************************)
EXTENDS Relays, UdpSessions, DnsServer

Init ==
  \/ RelaysInit /\ UdpOff /\ DnsOff
  \/ RelaysOff /\ UdpInit /\ DnsOff
  \/ RelaysOff /\ UdpOff /\ DnsInit

Next ==
  \/ RelaysNext /\ UNCHANGED << udpVars, dnsVars >>
  \/ UdpNext /\ UNCHANGED << relayVars, dnsVars >>
  \/ DnsNext /\ UNCHANGED << relayVars, udpVars >>

vars == << relayVars, udpVars, dnsVars >>

Spec == Init /\ [][Next]_vars /\ RelaysFair
=============================================================================
