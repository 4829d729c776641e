-------------------------------- MODULE Flows --------------------------------
(***************************************************************************)
(* The tables hostnames and network_flows: process_packet_helper,          *)
(* process_dns, process_client_hello and process_flow in packet_processor, *)
(* one thread, and update_hostnames_in_flows, another.                     *)
(*                                                                         *)
(* A machine that is spoofed sends its packets to the Inspector's host,    *)
(* which forwards them: the wire carries two frames of every packet, and   *)
(* the processor sees both.  Each handler reads the network information    *)
(* once; what it reads and writes afterwards only the processor changes,   *)
(* so a handler is one step, but the steps of one frame are not.           *)
(***************************************************************************)
EXTENDS Addresses, Naturals, FiniteSets

CONSTANTS
  Host,       \* the hardware address of the Inspector's host
  Frames,     \* what is captured
  NoAddress,  \* the empty string that stands for an answer without addresses
  Null,       \* no name
  MaxSecond   \* the clock that flows are dated with stops here

Kinds == {"dns", "hello", "data", "silent"}

Packets == {f.packet : f \in Frames}
Peers == {f.src_ip : f \in Frames} \cup {f.dst_ip : f \in Frames}
Named == Peers \cup UNION {f.answers : f \in Frames} \cup {NoAddress}
Names == {f.name : f \in Frames} \ {Null}

\* The addresses of the local network that machines other than the host have.
Local == {l[2] : l \in Leases}

\* f.packet identifies the packet, f.kind is dns, hello (TCP with a server name),
\* data (other TCP and UDP) or silent (broadcasts, neither TCP nor UDP).  f.name
\* is the queried or the server's name or Null, f.answers the A records.
\* A machine that is not the host sends and receives with its own hardware address;
\* of the at most two frames of a packet the host sends one.
ASSUME FlowsAssumption ==
  /\ \A k \in Confs : k.mac = Host
  /\ \A l \in Leases : l[1] # Host
  /\ IsFiniteSet(Frames)
  /\ Null \notin Macs
  /\ NoAddress \notin Peers
  /\ Unlisted \notin Peers
  /\ MaxSecond \in Nat
  /\ \A f \in Frames :
       /\ f.kind \in Kinds
       /\ f.seq \in Nat
       /\ f.src_mac \in Macs /\ f.dst_mac \in Macs \ {f.src_mac}
       /\ f.src_mac # Host /\ f.src_ip \in Local => <<f.src_mac, f.src_ip>> \in Leases
       /\ f.dst_mac # Host /\ f.dst_ip \in Local => <<f.dst_mac, f.dst_ip>> \in Leases
       /\ \A g \in Frames : f.packet = g.packet =>
            /\ f.src_ip = g.src_ip /\ f.dst_ip = g.dst_ip
            /\ f = g \/ (f.src_mac = Host <=> g.src_mac # Host)

VARIABLES
  waiting,    \* the frames that are not captured or not processed yet
  hand,       \* the frame in hand with the handler that is next, if any
  hostnames,  \* the table: a name or Null for every address
  flows,      \* the table: a function from keys
  second,     \* the time
  entered,    \* history: the key of the flow that a frame was counted in
  missed      \* history: frames that process_flow gave up because of a KeyError

tables == <<hostnames, flows>>
vars == <<conf, addressOf, waiting, hand, hostnames, flows, second, entered, missed>>

Keys == [timestamp : 0 .. MaxSecond, src_mac : Macs, dst_mac : Macs, src_ip : Peers, dst_ip : Peers]
Rows == [packet_count : Nat, tcp_seq_min : Nat, tcp_seq_max : Nat,
         src_hostname : Names \cup {Null}, dst_hostname : Names \cup {Null}]

\* The types; a frame is in hand, waiting or done.
TypeOK ==
  /\ AddressTypeOK
  /\ waiting \subseteq Frames
  /\ hand \subseteq [frame : Frames \ waiting, next : {"dns", "hello", "flow"}]
  /\ \A h, g \in hand : h = g
  /\ hostnames \in [Named -> Names \cup {Null}]
  /\ DOMAIN flows \subseteq Keys
  /\ \A k \in DOMAIN flows : flows[k] \in Rows
  /\ second \in 0 .. MaxSecond
  /\ DOMAIN entered \subseteq Frames \ waiting
  /\ \A f \in DOMAIN entered : entered[f] \in DOMAIN flows
  /\ missed \subseteq Frames \ waiting

Init ==
  /\ AddressInit
  /\ waiting = Frames
  /\ hand = {}
  /\ hostnames = [i \in Named |-> Null]
  /\ flows = [k \in {} |-> Null]
  /\ second = 0
  /\ entered = [f \in {} |-> Null]
  /\ missed = {}

-----------------------------------------------------------------------------
(* The packet processor.  Each frame is processed at most once, which is    *)
(* InOrderOnce of Pipeline; exceptions and the stop lose frames, which wait *)
(* here for ever.                                                           *)

\* extract_sni: the server's name in a ClientHello.
Sni(f) == IF f.kind = "hello" THEN f.name ELSE Null

\* The first handler that may write a table.
Handler(f) ==
  IF f.kind = "dns" THEN "dns" ELSE IF Sni(f) # Null THEN "hello" ELSE "flow"

\* Mutation: the frame stays in the queue.
Take_Peeks(f) ==
  /\ hand = {}
  /\ f \in waiting
  /\ hand' =
       IF conf.ip \in {f.src_ip, f.dst_ip} THEN {}
       ELSE {[frame |-> f, next |-> Handler(f)]}
  /\ UNCHANGED <<conf, addressOf, waiting, tables, second, entered, missed>>

\* process_packet_helper up to the first handler: the host's own traffic, told by
\* its address, is ignored.
Take(f) ==
  /\ hand = {}
  /\ f \in waiting
  /\ waiting' = waiting \ {f}
  /\ hand' =
       IF conf.ip \in {f.src_ip, f.dst_ip} THEN {}
       ELSE {[frame |-> f, next |-> Handler(f)]}
  /\ UNCHANGED <<conf, addressOf, tables, second, entered, missed>>

\* write_hostname_ip_mapping_to_db.
WriteHostnames(name, addresses) ==
  hostnames' = [i \in Named |-> IF i \in addresses THEN name ELSE hostnames[i]]

Ends(f) == {f.src_mac, f.dst_mac}

\* process_dns of a frame between the host and a device: the name is recorded for
\* every address in the answer, or for the empty one.
DnsRecord(h) ==
  LET f == h.frame IN
  /\ h.next = "dns"
  /\ conf.mac \in Ends(f)
  /\ \E gateway \in Lookup(conf.gateway) : gateway \notin Ends(f)
  /\ f.name # Null
  /\ WriteHostnames(f.name, IF f.answers = {} THEN {NoAddress} ELSE f.answers)
  /\ hand' = {}
  /\ UNCHANGED <<conf, addressOf, waiting, flows, second, entered, missed>>

\* process_dns returns early: other machines, an unknown gateway, the gateway as
\* the device, a malformed name.
DnsIgnore(h) ==
  /\ h.next = "dns"
  /\ \/ conf.mac \notin Ends(h.frame)
     \/ Lookup(conf.gateway) = {}
     \/ \E gateway \in Lookup(conf.gateway) : gateway \in Ends(h.frame)
     \/ h.frame.name = Null
  /\ hand' = {}
  /\ UNCHANGED <<conf, addressOf, waiting, tables, second, entered, missed>>

\* Mutation: the sender's address is recorded.
Hello_OwnAddress(h) ==
  /\ h.next = "hello"
  /\ IF h.frame.dst_mac = conf.mac
     THEN WriteHostnames(Sni(h.frame), {h.frame.src_ip})
     ELSE UNCHANGED hostnames
  /\ hand' = {[h EXCEPT !.next = "flow"]}
  /\ UNCHANGED <<conf, addressOf, waiting, flows, second, entered, missed>>

\* process_client_hello.
Hello(h) ==
  /\ h.next = "hello"
  /\ IF h.frame.dst_mac = conf.mac
     THEN WriteHostnames(Sni(h.frame), {h.frame.dst_ip})
     ELSE UNCHANGED hostnames
  /\ hand' = {[h EXCEPT !.next = "flow"]}
  /\ UNCHANGED <<conf, addressOf, waiting, flows, second, entered, missed>>

\* The address whose owner the host impersonates in a frame it sends or receives.
Impersonated(f) == IF f.src_mac = conf.mac THEN f.src_ip ELSE f.dst_ip

\* Mutation: the host is taken for the sender.
KeyOf_HostStays(f, m) ==
  [timestamp |-> second, src_ip |-> f.src_ip, dst_ip |-> f.dst_ip,
   src_mac |-> f.src_mac,
   dst_mac |-> IF f.src_mac = conf.mac THEN f.dst_mac ELSE m]

\* The flow of frame f between the machines it is really about, m for the host.
KeyOf(f, m) ==
  [timestamp |-> second, src_ip |-> f.src_ip, dst_ip |-> f.dst_ip,
   src_mac |-> IF f.src_mac = conf.mac THEN m ELSE f.src_mac,
   dst_mac |-> IF f.src_mac = conf.mac THEN f.dst_mac ELSE m]

\* The row of flow k after frame f: INSERT, or ON CONFLICT DO UPDATE, which leaves
\* the hostnames alone.
Upserted(k, f) ==
  IF k \in DOMAIN flows
  THEN [flows[k] EXCEPT
          !.packet_count = @ + 1,
          !.tcp_seq_min = IF f.seq < @ THEN f.seq ELSE @,
          !.tcp_seq_max = IF f.seq > @ THEN f.seq ELSE @]
  ELSE [packet_count |-> 1, tcp_seq_min |-> f.seq, tcp_seq_max |-> f.seq,
        src_hostname |-> Null, dst_hostname |-> Null]

\* Mutation: who has no row is taken for the gateway.
FlowCount_GuessesGateway(h) ==
  LET f == h.frame IN
  /\ h.next = "flow"
  /\ f.kind # "silent"
  /\ conf.mac \in Ends(f)
  /\ \E m \in IF Lookup(Impersonated(f)) = {} THEN Lookup(conf.gateway)
              ELSE Lookup(Impersonated(f)) :
       LET k == KeyOf(f, m) IN
       /\ flows' = [l \in DOMAIN flows \cup {k} |-> IF l = k THEN Upserted(k, f) ELSE flows[l]]
       /\ entered' = [g \in DOMAIN entered \cup {f} |-> IF g = f THEN k ELSE entered[g]]
  /\ hand' = {}
  /\ UNCHANGED <<conf, addressOf, waiting, hostnames, second, missed>>

\* process_flow to its end.
FlowCount(h) ==
  LET f == h.frame IN
  /\ h.next = "flow"
  /\ f.kind # "silent"
  /\ conf.mac \in Ends(f)
  /\ \E m \in Lookup(Impersonated(f)) :
       LET k == KeyOf(f, m) IN
       /\ flows' = [l \in DOMAIN flows \cup {k} |-> IF l = k THEN Upserted(k, f) ELSE flows[l]]
       /\ entered' = [g \in DOMAIN entered \cup {f} |-> IF g = f THEN k ELSE entered[g]]
  /\ hand' = {}
  /\ UNCHANGED <<conf, addressOf, waiting, hostnames, second, missed>>

\* process_flow returns because nobody is known to have the address (KeyError).
FlowMiss(h) ==
  /\ h.next = "flow"
  /\ h.frame.kind # "silent"
  /\ conf.mac \in Ends(h.frame)
  /\ Lookup(Impersonated(h.frame)) = {}
  /\ hand' = {}
  /\ missed' = missed \cup {h.frame}
  /\ UNCHANGED <<conf, addressOf, waiting, tables, second, entered>>

\* process_flow returns: no port, a broadcast, or the host is not involved.
FlowIgnore(h) ==
  /\ h.next = "flow"
  /\ h.frame.kind = "silent" \/ conf.mac \notin Ends(h.frame)
  /\ hand' = {}
  /\ UNCHANGED <<conf, addressOf, waiting, tables, second, entered, missed>>

ProcessorStep ==
  \/ \E f \in Frames : Take(f)
  \/ \E h \in hand :
       DnsRecord(h) \/ DnsIgnore(h) \/ Hello(h) \/ FlowCount(h) \/ FlowMiss(h) \/ FlowIgnore(h)

-----------------------------------------------------------------------------

\* Mutation: only flows without any name are selected.
UpdateHostnames_Both ==
  /\ flows' = [k \in DOMAIN flows |->
       IF /\ flows[k].src_hostname = Null /\ flows[k].dst_hostname = Null
          /\ hostnames[k.src_ip] # Null \/ hostnames[k.dst_ip] # Null
       THEN [flows[k] EXCEPT !.src_hostname = hostnames[k.src_ip],
                             !.dst_hostname = hostnames[k.dst_ip]]
       ELSE flows[k]]
  /\ UNCHANGED <<conf, addressOf, waiting, hand, hostnames, second, entered, missed>>

\* Mutation: CASE WHEN src_hostname IS NULL THEN (SELECT ...) END, without ELSE.
UpdateHostnames_CaseWithoutElse ==
  /\ flows' = [k \in DOMAIN flows |->
       IF /\ flows[k].src_hostname = Null \/ flows[k].dst_hostname = Null
          /\ hostnames[k.src_ip] # Null \/ hostnames[k.dst_ip] # Null
       THEN [flows[k] EXCEPT !.src_hostname = IF @ = Null THEN hostnames[k.src_ip] ELSE Null,
                             !.dst_hostname = IF @ = Null THEN hostnames[k.dst_ip] ELSE Null]
       ELSE flows[k]]
  /\ UNCHANGED <<conf, addressOf, waiting, hand, hostnames, second, entered, missed>>

\* update_hostnames_in_flows: one statement names both ends of every flow that
\* lacks a name and of which one end, perhaps not that one, has a name now.
UpdateHostnames ==
  /\ flows' = [k \in DOMAIN flows |->
       IF /\ flows[k].src_hostname = Null \/ flows[k].dst_hostname = Null
          /\ hostnames[k.src_ip] # Null \/ hostnames[k.dst_ip] # Null
       THEN [flows[k] EXCEPT !.src_hostname = hostnames[k.src_ip],
                             !.dst_hostname = hostnames[k.dst_ip]]
       ELSE flows[k]]
  /\ UNCHANGED <<conf, addressOf, waiting, hand, hostnames, second, entered, missed>>

\* ARP and DHCP packets are processed between two frames; the network information
\* changes at any time.
Others ==
  /\ \/ Publish
     \/ hand = {} /\ \E m \in Macs, i \in Ips : Learn(m, i)
  /\ UNCHANGED <<waiting, hand, tables, second, entered, missed>>

Tick ==
  /\ second < MaxSecond
  /\ second' = second + 1
  /\ UNCHANGED <<conf, addressOf, waiting, hand, tables, entered, missed>>

Next == ProcessorStep \/ UpdateHostnames \/ Others \/ Tick

Spec == Init /\ [][Next]_vars

\* The thread of update_hostnames_in_flows calls it again and again.
FairSpec == Spec /\ WF_vars(UpdateHostnames)

-----------------------------------------------------------------------------
(* Properties.                                                             *)

Copies(p) == {f \in Frames : f.packet = p}
Counted(p) == Copies(p) \cap DOMAIN entered
Done(f) == f \notin waiting /\ \A h \in hand : h.frame # f

\* Packets between a machine on the local network and one that is not.
CrossBorder ==
  {p \in Packets : \A f \in Copies(p) : f.src_ip \in Local <=> f.dst_ip \notin Local}

\* Although process_flow sees both frames of a forwarded packet, it never counts
\* both: the look-up for one of them must fail.  And once both were processed it
\* counted one, unless the local machine was not known by its address yet.
CountedOnce ==
  \A p \in CrossBorder :
    /\ Cardinality(Counted(p)) <= 1
    /\ (/\ Cardinality(Copies(p)) = 2
        /\ \A f \in Copies(p) :
             /\ Done(f)
             /\ f.kind \in {"hello", "data"}
             /\ Host \in Ends(f)
             /\ \A k \in Confs : k.ip \notin {f.src_ip, f.dst_ip})
       => \/ Counted(p) # {}
          \/ \E f \in Copies(p) \cap missed : Impersonated(f) \in Local

\* Every frame that was counted is in the sums of exactly one row, also when the
\* second ends, a row is named or the network information changes meanwhile.
NothingLost ==
  \A k \in DOMAIN flows :
    LET frames == {f \in DOMAIN entered : entered[f] = k} IN
    /\ flows[k].packet_count = Cardinality(frames)
    /\ \A f \in frames : flows[k].tcp_seq_min <= f.seq /\ f.seq <= flows[k].tcp_seq_max
    /\ \E f \in frames : flows[k].tcp_seq_min = f.seq
    /\ \E f \in frames : flows[k].tcp_seq_max = f.seq

\* A flow is between the machines that the packets are from and to, never the host
\* that forwards them, as far as an address tells a machine: if only one may have
\* it, the flow names that one.
TrueEnds ==
  \A k \in DOMAIN flows :
    /\ Host \notin {k.src_mac, k.dst_mac}
    /\ k.src_ip \in Local => <<k.src_mac, k.src_ip>> \in Leases
    /\ k.dst_ip \in Local => <<k.dst_mac, k.dst_ip>> \in Leases

\* A name is given to the ends of flows only if a DNS answer or a ClientHello
\* announced it for that address, although both ends are named by one statement
\* and again after the announcements changed.
TrueNames ==
  LET Announced(name, i) ==
        \E f \in Frames \ waiting :
          /\ f.name = name
          /\ (f.kind = "dns" /\ i \in f.answers) \/ (f.kind = "hello" /\ i = f.dst_ip)
  IN \A k \in DOMAIN flows :
       /\ flows[k].src_hostname # Null => Announced(flows[k].src_hostname, k.src_ip)
       /\ flows[k].dst_hostname # Null => Announced(flows[k].dst_hostname, k.dst_ip)

\* No flow loses a name: both ends are rewritten when only one lacked a name.
NamesKept ==
  [][\A k \in DOMAIN flows :
       /\ k \in DOMAIN flows'
       /\ flows[k].src_hostname # Null => flows'[k].src_hostname # Null
       /\ flows[k].dst_hostname # Null => flows'[k].dst_hostname # Null]_vars

\* Again and again every end whose address has a name is named, also in flows that
\* were partly named when the other name became known.
AllNamed ==
  []<>(\A k \in DOMAIN flows :
         /\ hostnames[k.src_ip] # Null => flows[k].src_hostname # Null
         /\ hostnames[k.dst_ip] # Null => flows[k].dst_hostname # Null)
=============================================================================
