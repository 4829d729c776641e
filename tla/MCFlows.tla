------------------------------- MODULE MCFlows -------------------------------
(***************************************************************************)
(* An instance of Flows: a router, and two devices of which the second may *)
(* take over the address of the first; a server on the Internet.           *)
(***************************************************************************)
EXTENDS Flows

CONSTANTS host, router, m1, m2, gate, gate2, ip1, hostIp, hostIp2, server, one, two

MCMacs == {host, router, m1, m2}
MCIps == {gate, gate2, ip1}
MCLeases == {<<router, gate>>, <<m1, ip1>>, <<m2, ip1>>}
MCConfs == {[gateway |-> gate, ip |-> hostIp, mac |-> host],
            [gateway |-> gate2, ip |-> hostIp2, mac |-> host]}

Frame(packet, kind, src_mac, dst_mac, src_ip, dst_ip, name, answers, seq) ==
  [packet |-> packet, kind |-> kind, src_mac |-> src_mac, dst_mac |-> dst_mac,
   src_ip |-> src_ip, dst_ip |-> dst_ip, name |-> name, answers |-> answers, seq |-> seq]

\* Both frames of a packet that the host forwards.
Forwarded(packet, kind, from, to, src_ip, dst_ip, name, answers, seq) ==
  {Frame(packet, kind, from, host, src_ip, dst_ip, name, answers, seq),
   Frame(packet, kind, host, to, src_ip, dst_ip, name, answers, seq)}

\* A first packet to the server, an answer of the server, a DNS answer that names
\* the server and the device; one frame of a later packet to the server; and a ping
\* by the host, which has got another address when it has got the other gateway.
MCFrames ==
  Forwarded("request", "hello", m1, router, ip1, server, one, {}, 1)
  \cup Forwarded("reply", "data", router, m1, server, ip1, Null, {}, 2)
  \cup Forwarded("answer", "dns", router, m1, gate, ip1, two, {server, ip1}, 0)
  \cup {Frame("more", "data", host, router, ip1, server, Null, {}, 3),
        Frame("ping", "silent", host, router, hostIp, server, Null, {}, 0)}
=============================================================================
