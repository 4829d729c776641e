---------------------------- MODULE Flows_proofs ----------------------------
(***************************************************************************)
(* Safety of the tables of flows and names for any frames on the wire, any *)
(* machines and addresses, and any network information.                    *)
(*                                                                         *)
(* What the properties say of the tables follows from what is known of     *)
(* each frame on its way: which handlers it may still come to, and that    *)
(* who is found by an address was leased it.                               *)
(***************************************************************************)
EXTENDS Flows, FiniteSetTheorems, TLAPS

\* Rows hold leased addresses.
LeaseInv ==
  \A m \in Macs : addressOf[m] # Unlisted => <<m, addressOf[m]>> \in Leases

\* The handler that is next fits the frame in hand, which was not counted yet.
HandInv ==
  \A h \in hand :
    /\ h.next = "dns" <=> h.frame.kind = "dns"
    /\ h.next = "hello" => Sni(h.frame) # Null
    /\ h.frame \notin DOMAIN entered

\* The host took part in every frame that was counted, in the place of a machine
\* on the local network.
CountedInv ==
  \A f \in DOMAIN entered : Host \in Ends(f) /\ Impersonated(f) \in Local

\* Frames that process_flow need not look at.
Ignorable(f) ==
  \/ f.kind \in {"dns", "silent"}
  \/ Host \notin Ends(f)
  \/ \E k \in Confs : k.ip \in {f.src_ip, f.dst_ip}

\* Every other frame that is done was counted or missed.
HandledInv ==
  \A f \in Frames : Done(f) => f \in DOMAIN entered \cup missed \/ Ignorable(f)

-----------------------------------------------------------------------------
(* Lemmas about the handlers.                                              *)

\* The host's hardware address does not change.
LEMMA HostMac == TypeOK => conf.mac = Host
BY FlowsAssumption DEF TypeOK, AddressTypeOK

\* Who is found by an address of a frame is another machine that was leased it.
LEMMA LookupFacts ==
  ASSUME TypeOK, LeaseInv, NEW f \in Frames, NEW m \in Lookup(Impersonated(f))
  PROVE  /\ m \in Macs /\ m # Host
         /\ <<m, Impersonated(f)>> \in Leases
         /\ Impersonated(f) \in Local
<1>1. Impersonated(f) \in Peers
  BY DEF Impersonated, Peers
<1>2. m \in Macs /\ addressOf[m] = Impersonated(f) /\ addressOf[m] # Unlisted
  BY <1>1, FlowsAssumption DEF Lookup
<1>3. <<m, Impersonated(f)>> \in Leases
  BY <1>2 DEF LeaseInv
<1> QED BY <1>2, <1>3, FlowsAssumption DEF Local

\* The key that a frame is counted under, and the ends of that flow.
LEMMA KeyFacts ==
  ASSUME TypeOK, LeaseInv, NEW f \in Frames, conf.mac \in Ends(f),
         NEW m \in Lookup(Impersonated(f))
  PROVE  LET k == KeyOf(f, m) IN
         /\ k \in Keys
         /\ k.src_ip = f.src_ip /\ k.dst_ip = f.dst_ip
         /\ Host \notin {k.src_mac, k.dst_mac}
         /\ k.src_ip \in Local => <<k.src_mac, k.src_ip>> \in Leases
         /\ k.dst_ip \in Local => <<k.dst_mac, k.dst_ip>> \in Leases
<1> DEFINE k == KeyOf(f, m)
<1>1. /\ m \in Macs /\ m # Host
      /\ <<m, Impersonated(f)>> \in Leases
      /\ conf.mac = Host
  BY LookupFacts, HostMac
<1>2. /\ f.src_mac \in Macs /\ f.dst_mac \in Macs \ {f.src_mac}
      /\ f.src_mac # Host /\ f.src_ip \in Local => <<f.src_mac, f.src_ip>> \in Leases
      /\ f.dst_mac # Host /\ f.dst_ip \in Local => <<f.dst_mac, f.dst_ip>> \in Leases
  BY FlowsAssumption
<1>3. f.src_ip \in Peers /\ f.dst_ip \in Peers /\ second \in 0 .. MaxSecond
  BY DEF Peers, TypeOK
<1>4. CASE f.src_mac = Host
  <2>1. k = [timestamp |-> second, src_ip |-> f.src_ip, dst_ip |-> f.dst_ip,
             src_mac |-> m, dst_mac |-> f.dst_mac]
    BY <1>1, <1>4 DEF KeyOf
  <2>2. Impersonated(f) = f.src_ip
    BY <1>1, <1>4 DEF Impersonated
  <2> QED BY <1>1, <1>2, <1>3, <1>4, <2>1, <2>2 DEF Keys
<1>5. CASE f.src_mac # Host
  <2>1. k = [timestamp |-> second, src_ip |-> f.src_ip, dst_ip |-> f.dst_ip,
             src_mac |-> f.src_mac, dst_mac |-> m]
    BY <1>1, <1>5 DEF KeyOf
  <2>2. Impersonated(f) = f.dst_ip
    BY <1>1, <1>5 DEF Impersonated
  <2> QED BY <1>1, <1>2, <1>3, <1>5, <2>1, <2>2 DEF Keys
<1> QED BY <1>4, <1>5

\* The row of a flow after one more frame keeps its type and its names.
LEMMA UpsertedType ==
  ASSUME TypeOK, NEW k, NEW f \in Frames
  PROVE  /\ Upserted(k, f) \in Rows
         /\ Upserted(k, f).src_hostname # Null =>
              k \in DOMAIN flows /\ Upserted(k, f).src_hostname = flows[k].src_hostname
         /\ Upserted(k, f).dst_hostname # Null =>
              k \in DOMAIN flows /\ Upserted(k, f).dst_hostname = flows[k].dst_hostname
         /\ k \in DOMAIN flows =>
              /\ Upserted(k, f).src_hostname = flows[k].src_hostname
              /\ Upserted(k, f).dst_hostname = flows[k].dst_hostname
<1>1. f.seq \in Nat
  BY FlowsAssumption
<1>2. CASE k \in DOMAIN flows
  <2> DEFINE r == flows[k]
  <2>1. r \in Rows
    BY <1>2 DEF TypeOK
  <2>2. Upserted(k, f) =
          [packet_count |-> r.packet_count + 1,
           tcp_seq_min |-> IF f.seq < r.tcp_seq_min THEN f.seq ELSE r.tcp_seq_min,
           tcp_seq_max |-> IF f.seq > r.tcp_seq_max THEN f.seq ELSE r.tcp_seq_max,
           src_hostname |-> r.src_hostname, dst_hostname |-> r.dst_hostname]
    BY <1>2, <2>1 DEF Upserted, Rows
  <2>3. /\ r.packet_count \in Nat /\ r.tcp_seq_min \in Nat /\ r.tcp_seq_max \in Nat
        /\ r.src_hostname \in Names \cup {Null} /\ r.dst_hostname \in Names \cup {Null}
    BY <2>1 DEF Rows
  <2> HIDE DEF r
  <2>4. Upserted(k, f) \in Rows
    BY <1>1, <2>2, <2>3 DEF Rows
  <2> QED BY <1>2, <2>2, <2>4 DEF r
<1>3. CASE k \notin DOMAIN flows
  BY <1>1, <1>3 DEF Upserted, Rows
<1> QED BY <1>2, <1>3

\* What update_hostnames_in_flows makes of a row.
LEMMA NamedRow ==
  ASSUME TypeOK, UpdateHostnames, NEW k \in DOMAIN flows
  PROVE  /\ DOMAIN flows' = DOMAIN flows
         /\ flows'[k] \in Rows
         /\ flows'[k].packet_count = flows[k].packet_count
         /\ flows'[k].tcp_seq_min = flows[k].tcp_seq_min
         /\ flows'[k].tcp_seq_max = flows[k].tcp_seq_max
         /\ flows'[k].src_hostname \in {flows[k].src_hostname, hostnames[k.src_ip]}
         /\ flows'[k].dst_hostname \in {flows[k].dst_hostname, hostnames[k.dst_ip]}
<1> DEFINE r == flows[k]
<1>1. k \in Keys /\ r \in Rows
  BY DEF TypeOK
<1>2. hostnames[k.src_ip] \in Names \cup {Null} /\ hostnames[k.dst_ip] \in Names \cup {Null}
  BY <1>1 DEF TypeOK, Keys, Named
<1>3. /\ DOMAIN flows' = DOMAIN flows
      /\ \/ flows'[k] = r
         \/ flows'[k] = [r EXCEPT !.src_hostname = hostnames[k.src_ip],
                                  !.dst_hostname = hostnames[k.dst_ip]]
  BY DEF UpdateHostnames
<1> HIDE DEF r
<1>4. CASE flows'[k] = r
  BY <1>1, <1>3, <1>4 DEF r
<1>5. CASE flows'[k] = [r EXCEPT !.src_hostname = hostnames[k.src_ip],
                                 !.dst_hostname = hostnames[k.dst_ip]]
  <2>1. flows'[k] \in Rows
    BY <1>1, <1>2, <1>5 DEF Rows
  <2>2. /\ flows'[k].packet_count = r.packet_count
        /\ flows'[k].tcp_seq_min = r.tcp_seq_min
        /\ flows'[k].tcp_seq_max = r.tcp_seq_max
        /\ flows'[k].src_hostname = hostnames[k.src_ip]
        /\ flows'[k].dst_hostname = hostnames[k.dst_ip]
    BY <1>1, <1>5 DEF Rows
  <2> QED BY <1>3, <2>1, <2>2 DEF r
<1> QED BY <1>3, <1>4, <1>5

\* What process_flow makes of the tables when it counts frame f.
LEMMA CountFacts ==
  ASSUME TypeOK, LeaseInv, NEW h \in hand, FlowCount(h)
  PROVE  LET f == h.frame IN
         \E m \in Lookup(Impersonated(f)) :
           LET k == KeyOf(f, m) IN
           /\ f \in Frames \ waiting
           /\ conf.mac \in Ends(f)
           /\ k \in Keys
           /\ DOMAIN flows' = DOMAIN flows \cup {k}
           /\ flows'[k] = Upserted(k, f)
           /\ \A l \in DOMAIN flows \ {k} : flows'[l] = flows[l]
           /\ DOMAIN entered' = DOMAIN entered \cup {f}
           /\ entered'[f] = k
           /\ \A g \in DOMAIN entered \ {f} : entered'[g] = entered[g]
<1> DEFINE f == h.frame
<1>1. f \in Frames \ waiting /\ conf.mac \in Ends(f)
  BY DEF TypeOK, FlowCount
<1>2. PICK m \in Lookup(Impersonated(f)) :
        LET k == KeyOf(f, m) IN
        /\ flows' = [l \in DOMAIN flows \cup {k} |-> IF l = k THEN Upserted(k, f) ELSE flows[l]]
        /\ entered' = [g \in DOMAIN entered \cup {f} |-> IF g = f THEN k ELSE entered[g]]
  BY DEF FlowCount
<1>3. KeyOf(f, m) \in Keys
  BY <1>1, <1>2, KeyFacts
<1> HIDE DEF f
<1>4. /\ DOMAIN flows' = DOMAIN flows \cup {KeyOf(f, m)}
      /\ flows'[KeyOf(f, m)] = Upserted(KeyOf(f, m), f)
      /\ \A l \in DOMAIN flows \ {KeyOf(f, m)} : flows'[l] = flows[l]
  BY <1>2
<1>5. /\ DOMAIN entered' = DOMAIN entered \cup {f}
      /\ entered'[f] = KeyOf(f, m)
      /\ \A g \in DOMAIN entered \ {f} : entered'[g] = entered[g]
  BY <1>2
<1> QED BY <1>1, <1>2, <1>3, <1>4, <1>5 DEF f

-----------------------------------------------------------------------------
(* Types.                                                                  *)

\* The tables are empty, and no frame was captured.
LEMMA InitInv == Init => TypeOK /\ LeaseInv /\ HandInv /\ CountedInv /\ HandledInv
<1> SUFFICES ASSUME Init PROVE TypeOK /\ LeaseInv /\ HandInv /\ CountedInv /\ HandledInv
  OBVIOUS
<1>1. DOMAIN flows = {} /\ DOMAIN entered = {} /\ hand = {} /\ waiting = Frames
  BY DEF Init
<1>2. 0 \in 0 .. MaxSecond
  BY FlowsAssumption
<1>3. TypeOK
  BY <1>1, <1>2 DEF Init, AddressInit, TypeOK, AddressTypeOK
<1> QED BY <1>1, <1>3 DEF Init, AddressInit, LeaseInv, HandInv, CountedInv, HandledInv, Done

\* A step does to the addresses what a step of Addresses does, or nothing.
LEMMA StepOfAddresses == [Next]_vars => [AddressNext]_addressVars
<1> SUFFICES ASSUME [Next]_vars PROVE AddressNext \/ UNCHANGED addressVars
  OBVIOUS
<1>1. \/ UNCHANGED <<conf, addressOf>> \/ Publish
      \/ \E m \in Macs, i \in Ips : Learn(m, i)
  BY DEF Next, ProcessorStep, Take, DnsRecord, DnsIgnore, Hello, FlowCount, FlowMiss,
         FlowIgnore, UpdateHostnames, Others, Tick, vars
<1> QED BY <1>1 DEF AddressNext, addressVars

\* Every step keeps the types of the address book, and what is in it leased.
LEMMA NextAddresses ==
  TypeOK /\ LeaseInv /\ [Next]_vars => AddressTypeOK' /\ LeaseInv'
<1> SUFFICES ASSUME TypeOK, LeaseInv, [Next]_vars PROVE AddressTypeOK' /\ LeaseInv'
  OBVIOUS
<1> USE DEF TypeOK, AddressTypeOK, LeaseInv
<1>1. CASE UNCHANGED <<conf, addressOf>>
  BY <1>1
<1>2. CASE Publish
  BY <1>2 DEF Publish
<1>3. ASSUME NEW m \in Macs, NEW i \in Ips, Learn(m, i) PROVE AddressTypeOK' /\ LeaseInv'
  BY <1>3 DEF Learn
<1>4. UNCHANGED <<conf, addressOf>> \/ Publish \/ \E m \in Macs, i \in Ips : Learn(m, i)
  BY DEF Next, ProcessorStep, Take, DnsRecord, DnsIgnore, Hello, FlowCount, FlowMiss,
         FlowIgnore, UpdateHostnames, Others, Tick, vars
<1> QED BY <1>1, <1>2, <1>3, <1>4

\* Every step keeps the types.
LEMMA NextType ==
  TypeOK /\ LeaseInv /\ [Next]_vars => TypeOK'
<1> SUFFICES ASSUME TypeOK, LeaseInv, [Next]_vars PROVE TypeOK'
  OBVIOUS
<1>0. AddressTypeOK'
  BY NextAddresses
<1> USE DEF tables
<1>1. ASSUME NEW f \in Frames, Take(f) PROVE TypeOK'
  <2>1. Handler(f) \in {"dns", "hello", "flow"}
    BY DEF Handler
  <2>2. /\ hand' \subseteq [frame : Frames \ waiting', next : {"dns", "hello", "flow"}]
        /\ \A g, h \in hand' : g = h
    BY <1>1, <2>1 DEF Take
  <2> QED BY <1>0, <1>1, <2>2 DEF Take, TypeOK
<1>2. ASSUME NEW h \in hand, DnsRecord(h) PROVE TypeOK'
  <2>1. h.frame \in Frames /\ h.frame.name \in Names
    BY <1>2 DEF DnsRecord, TypeOK, Names
  <2>2. hostnames' \in [Named -> Names \cup {Null}]
    BY <1>2, <2>1 DEF DnsRecord, WriteHostnames, TypeOK
  <2> QED BY <1>0, <1>2, <2>2 DEF DnsRecord, TypeOK
<1>3. ASSUME NEW h \in hand, DnsIgnore(h) PROVE TypeOK'
  BY <1>0, <1>3 DEF DnsIgnore, TypeOK
<1>4. ASSUME NEW h \in hand, Hello(h) PROVE TypeOK'
  <2>1. h \in [frame : Frames \ waiting, next : {"dns", "hello", "flow"}]
    BY DEF TypeOK
  <2>2. Sni(h.frame) \in Names \cup {Null}
    BY <2>1 DEF Sni, Names
  <2>3. hostnames' \in [Named -> Names \cup {Null}]
    BY <1>4, <2>2 DEF Hello, WriteHostnames, TypeOK
  <2>4. [h EXCEPT !.next = "flow"] \in [frame : Frames \ waiting, next : {"dns", "hello", "flow"}]
    BY <2>1
  <2> QED BY <1>0, <1>4, <2>3, <2>4 DEF Hello, TypeOK
<1>5. ASSUME NEW h \in hand, FlowCount(h) PROVE TypeOK'
  <2> DEFINE f == h.frame
  <2>1. PICK m \in Lookup(Impersonated(f)) :
          LET k == KeyOf(f, m) IN
          /\ f \in Frames \ waiting
          /\ k \in Keys
          /\ DOMAIN flows' = DOMAIN flows \cup {k}
          /\ flows'[k] = Upserted(k, f)
          /\ \A l \in DOMAIN flows \ {k} : flows'[l] = flows[l]
          /\ DOMAIN entered' = DOMAIN entered \cup {f}
          /\ entered'[f] = k
          /\ \A g \in DOMAIN entered \ {f} : entered'[g] = entered[g]
    BY <1>5, CountFacts
  <2> HIDE DEF f
  <2>2. \A l \in DOMAIN flows' : flows'[l] \in Rows
    BY <2>1, UpsertedType DEF TypeOK
  <2>3. \A g \in DOMAIN entered' : entered'[g] \in DOMAIN flows'
    BY <2>1 DEF TypeOK
  <2> QED BY <1>0, <1>5, <2>1, <2>2, <2>3 DEF FlowCount, TypeOK
<1>6. ASSUME NEW h \in hand, FlowMiss(h) PROVE TypeOK'
  BY <1>0, <1>6 DEF FlowMiss, TypeOK
<1>7. ASSUME NEW h \in hand, FlowIgnore(h) PROVE TypeOK'
  BY <1>0, <1>7 DEF FlowIgnore, TypeOK
<1>8. CASE UpdateHostnames
  <2>1. DOMAIN flows' = DOMAIN flows
    BY <1>8 DEF UpdateHostnames
  <2>2. \A k \in DOMAIN flows : flows'[k] \in Rows
    BY <1>8, NamedRow
  <2> QED BY <1>0, <1>8, <2>1, <2>2 DEF UpdateHostnames, TypeOK
<1>9. CASE Others
  BY <1>0, <1>9 DEF Others, TypeOK
<1>10. CASE Tick
  <2>1. second' \in 0 .. MaxSecond
    BY <1>10, FlowsAssumption DEF Tick, TypeOK
  <2> QED BY <1>0, <1>10, <2>1 DEF Tick, TypeOK
<1>11. CASE UNCHANGED vars
  BY <1>0, <1>11 DEF vars, TypeOK
<1> QED BY <1>1, <1>2, <1>3, <1>4, <1>5, <1>6, <1>7, <1>8, <1>9, <1>10, <1>11
        DEF Next, ProcessorStep

-----------------------------------------------------------------------------
(* Frames on their way.                                                    *)

\* Only handlers and process_packet_helper change what is known of frames.
LEMMA OtherSteps ==
  ASSUME UpdateHostnames \/ Others \/ Tick \/ UNCHANGED vars
  PROVE  UNCHANGED <<waiting, hand, entered, missed>>
BY DEF UpdateHostnames, Others, Tick, vars

\* Every step keeps the handlers and the frames together.
LEMMA NextHand ==
  TypeOK /\ LeaseInv /\ HandInv /\ [Next]_vars => HandInv'
<1> SUFFICES ASSUME TypeOK, LeaseInv, HandInv, [Next]_vars PROVE HandInv'
  OBVIOUS
<1>1. ASSUME NEW f \in Frames, Take(f) PROVE HandInv'
  <2>1. /\ f \notin DOMAIN entered /\ entered' = entered
        /\ Handler(f) = "dns" <=> f.kind = "dns"
        /\ Handler(f) = "hello" => Sni(f) # Null
    BY <1>1 DEF Take, TypeOK, Handler
  <2>2. \A h \in hand' : h.frame = f /\ h.next = Handler(f)
    BY <1>1 DEF Take
  <2> QED BY <2>1, <2>2 DEF HandInv
<1>2. ASSUME NEW h \in hand, Hello(h) PROVE HandInv'
  <2>1. \A g \in hand' : g.frame = h.frame /\ g.next = "flow"
    BY <1>2 DEF Hello, TypeOK
  <2>2. h.next = "hello" /\ entered' = entered
    BY <1>2 DEF Hello
  <2> QED BY <2>1, <2>2 DEF HandInv
<1>3. CASE hand' = {}
  BY <1>3 DEF HandInv
<1>4. CASE UNCHANGED <<waiting, hand, entered, missed>>
  BY <1>4 DEF HandInv
<1>5. ASSUME NEW h \in hand,
             DnsRecord(h) \/ DnsIgnore(h) \/ FlowCount(h) \/ FlowMiss(h) \/ FlowIgnore(h)
      PROVE  hand' = {}
  BY <1>5 DEF DnsRecord, DnsIgnore, FlowCount, FlowMiss, FlowIgnore
<1> QED BY <1>1, <1>2, <1>3, <1>4, <1>5, OtherSteps DEF Next, ProcessorStep

\* A frame is counted once, by FlowCount, which found who has the address.
LEMMA NextCounted ==
  TypeOK /\ LeaseInv /\ CountedInv /\ [Next]_vars => CountedInv'
<1> SUFFICES ASSUME TypeOK, LeaseInv, CountedInv, [Next]_vars PROVE CountedInv'
  OBVIOUS
<1>1. conf.mac = Host /\ conf'.mac = Host
  <2>1. TypeOK'
    BY NextType
  <2> QED BY <2>1, FlowsAssumption DEF TypeOK, AddressTypeOK
<1>2. \A f : Impersonated(f)' = Impersonated(f)
  BY <1>1 DEF Impersonated
<1>3. CASE UNCHANGED entered
  BY <1>2, <1>3 DEF CountedInv
<1>4. ASSUME NEW h \in hand, FlowCount(h) PROVE CountedInv'
  <2> DEFINE f == h.frame
  <2>1. PICK m \in Lookup(Impersonated(f)) :
          /\ f \in Frames /\ conf.mac \in Ends(f)
          /\ DOMAIN entered' = DOMAIN entered \cup {f}
    BY <1>4, CountFacts
  <2>2. Impersonated(f) \in Local
    BY <2>1, LookupFacts
  <2> QED BY <1>1, <1>2, <2>1, <2>2 DEF CountedInv
<1>5. UNCHANGED entered \/ \E h \in hand : FlowCount(h)
  BY OtherSteps DEF Next, ProcessorStep, Take, DnsRecord, DnsIgnore, Hello, FlowMiss, FlowIgnore
<1> QED BY <1>3, <1>4, <1>5

\* Every step that is done with a frame counted it, missed it or need not look at it.
LEMMA NextHandled ==
  TypeOK /\ LeaseInv /\ HandInv /\ HandledInv /\ [Next]_vars => HandledInv'
<1> SUFFICES ASSUME TypeOK, LeaseInv, HandInv, HandledInv, [Next]_vars,
                    NEW f \in Frames, Done(f)'
             PROVE  f \in DOMAIN entered' \cup missed' \/ Ignorable(f)
  BY DEF HandledInv, Ignorable, Ends
<1>1. conf.mac = Host /\ conf \in Confs
  BY HostMac DEF TypeOK, AddressTypeOK
<1>2. ASSUME NEW g \in Frames, Take(g)
      PROVE  f \in DOMAIN entered' \cup missed' \/ Ignorable(f)
  <2>1. CASE f = g
    <3>1. hand' # {} => \E h \in hand' : h.frame = f
      BY <1>2, <2>1 DEF Take
    <3>2. conf.ip \in {f.src_ip, f.dst_ip}
      BY <1>2, <2>1, <3>1 DEF Take, Done
    <3> QED BY <1>1, <3>2 DEF Ignorable
  <2>2. CASE f # g
    <3>1. Done(f)
      BY <1>2, <2>2 DEF Take, Done
    <3> QED BY <1>2, <3>1 DEF Take, HandledInv
  <2> QED BY <2>1, <2>2
<1>3. ASSUME NEW h \in hand, f = h.frame,
             DnsRecord(h) \/ DnsIgnore(h) \/ Hello(h) \/ FlowCount(h) \/ FlowMiss(h) \/ FlowIgnore(h)
      PROVE  f \in DOMAIN entered' \cup missed' \/ Ignorable(f)
  <2>1. CASE DnsRecord(h) \/ DnsIgnore(h)
    BY <1>3, <2>1 DEF DnsRecord, DnsIgnore, HandInv, Ignorable
  <2>2. CASE Hello(h)
    <3>1. \E g \in hand' : g.frame = f
      BY <1>3, <2>2 DEF Hello, TypeOK
    <3> QED BY <3>1 DEF Done
  <2>3. CASE FlowCount(h)
    BY <1>3, <2>3, CountFacts
  <2>4. CASE FlowMiss(h)
    BY <1>3, <2>4 DEF FlowMiss
  <2>5. CASE FlowIgnore(h)
    BY <1>1, <1>3, <2>5 DEF FlowIgnore, Ignorable
  <2> QED BY <1>3, <2>1, <2>2, <2>3, <2>4, <2>5
<1>4. ASSUME NEW h \in hand, f # h.frame,
             DnsRecord(h) \/ DnsIgnore(h) \/ Hello(h) \/ FlowCount(h) \/ FlowMiss(h) \/ FlowIgnore(h)
      PROVE  f \in DOMAIN entered' \cup missed' \/ Ignorable(f)
  <2>1. waiting' = waiting
    BY <1>4 DEF DnsRecord, DnsIgnore, Hello, FlowCount, FlowMiss, FlowIgnore
  <2>2. Done(f)
    BY <1>4, <2>1 DEF Done, TypeOK
  <2>3. DOMAIN entered \subseteq DOMAIN entered' /\ missed \subseteq missed'
    <3>1. CASE FlowCount(h)
      BY <3>1, CountFacts DEF FlowCount
    <3>2. CASE DnsRecord(h) \/ DnsIgnore(h) \/ Hello(h) \/ FlowMiss(h) \/ FlowIgnore(h)
      BY <3>2 DEF DnsRecord, DnsIgnore, Hello, FlowMiss, FlowIgnore
    <3> QED BY <1>4, <3>1, <3>2
  <2> QED BY <2>2, <2>3 DEF HandledInv
<1>5. CASE UNCHANGED <<waiting, hand, entered, missed>>
  <2>1. Done(f)
    BY <1>5 DEF Done
  <2> QED BY <1>5, <2>1 DEF HandledInv
<1> QED BY <1>2, <1>3, <1>4, <1>5, OtherSteps DEF Next, ProcessorStep

-----------------------------------------------------------------------------
(* Theorems.                                                               *)

IInv == TypeOK /\ LeaseInv /\ HandInv /\ CountedInv /\ HandledInv

\* The inductive invariant that the theorems about single frames follow from.
THEOREM Invariance == Spec => []IInv
<1>1. IInv /\ [Next]_vars => IInv'
  BY NextAddresses, NextType, NextHand, NextCounted, NextHandled DEF IInv
<1>2. Init => IInv
  BY InitInv DEF IInv
<1> QED BY <1>1, <1>2, PTL DEF Spec

\* The flows are recorded under an address book that changes as Addresses says and in no
\* other way.  That is what Devices implements, so that the theorems here hold with the
\* devices table in place of the address book.
THEOREM FlowsUseAddresses == Spec => AddressSpec
<1>1. Init => AddressInit
  BY DEF Init
<1> QED BY <1>1, StepOfAddresses, PTL DEF Spec, AddressSpec

\* The variables keep their types; a frame is waiting, in hand or done.
THEOREM FlowsTypeCorrect == Spec => []TypeOK
<1>1. IInv => TypeOK BY DEF IInv
<1> QED BY <1>1, Invariance, PTL

\* A packet that crosses the border of the local network is never counted twice,
\* and once both its frames were processed it was counted, or missed because the
\* local machine was not known.
THEOREM ForwardedPacketsCountedOnce == Spec => []CountedOnce
<1> SUFFICES IInv => CountedOnce
  BY Invariance, PTL
<1> SUFFICES ASSUME IInv, NEW p \in CrossBorder
    PROVE  /\ Cardinality(Counted(p)) <= 1
           /\ (/\ Cardinality(Copies(p)) = 2
               /\ \A f \in Copies(p) :
                    /\ Done(f)
                    /\ f.kind \in {"hello", "data"}
                    /\ Host \in Ends(f)
                    /\ \A k \in Confs : k.ip \notin {f.src_ip, f.dst_ip})
              => \/ Counted(p) # {}
                 \/ \E f \in Copies(p) \cap missed : Impersonated(f) \in Local
  BY DEF CountedOnce
<1>1. conf.mac = Host
  BY HostMac DEF IInv
<1>2. ASSUME NEW f \in Copies(p), NEW g \in Copies(p), f # g,
             Host \in Ends(f), Host \in Ends(g)
      PROVE  \/ Impersonated(f) = f.src_ip /\ Impersonated(g) = f.dst_ip
             \/ Impersonated(f) = f.dst_ip /\ Impersonated(g) = f.src_ip
  <2>1. /\ f.src_ip = g.src_ip /\ f.dst_ip = g.dst_ip
        /\ f.src_mac = Host <=> g.src_mac # Host
    BY <1>2, FlowsAssumption DEF Copies
  <2> QED BY <1>1, <2>1 DEF Impersonated
<1>3. \A f \in Copies(p) : f.src_ip \in Local <=> f.dst_ip \notin Local
  BY DEF CrossBorder
<1>4. \A f, g \in Counted(p) : f = g
  BY <1>2, <1>3 DEF Counted, IInv, CountedInv
<1>5. Cardinality(Counted(p)) <= 1
  <2>1. CASE Counted(p) = {}
    BY <2>1, FS_EmptySet
  <2>2. ASSUME NEW f \in Counted(p) PROVE Cardinality(Counted(p)) <= 1
    <3>1. Counted(p) = {f}
      BY <1>4
    <3>2. Cardinality({f}) = 1
      BY FS_Singleton, Zenon
    <3> QED BY <3>1, <3>2
  <2> QED BY <2>1, <2>2
<1>6. ASSUME Cardinality(Copies(p)) = 2,
             \A f \in Copies(p) :
               /\ Done(f)
               /\ f.kind \in {"hello", "data"}
               /\ Host \in Ends(f)
               /\ \A k \in Confs : k.ip \notin {f.src_ip, f.dst_ip},
             Counted(p) = {}
      PROVE  \E f \in Copies(p) \cap missed : Impersonated(f) \in Local
  <2>1. PICK f \in Copies(p), g \in Copies(p) : f # g
    <3>1. Cardinality({}) = 0 /\ \A f : Cardinality({f}) = 1
      BY FS_EmptySet, FS_Singleton, Zenon
    <3>2. 2 # 0 /\ 2 # 1
      OBVIOUS
    <3>3. Copies(p) # {} /\ \A f : Copies(p) # {f}
      BY <1>6, <3>1, <3>2, Zenon
    <3>4. PICK f \in Copies(p) : TRUE
      BY <3>3
    <3>5. Copies(p) # {f}
      BY <3>3
    <3>6. PICK g \in Copies(p) : g # f
      BY <3>4, <3>5
    <3> QED BY <3>6
  <2>2. Copies(p) \subseteq Frames
    BY DEF Copies
  <2>3. f \in missed /\ g \in missed
    BY <1>6, <2>1, <2>2 DEF IInv, HandledInv, Ignorable, Counted
  <2> QED BY <1>2, <1>3, <1>6, <2>1, <2>3
<1> QED BY <1>5, <1>6

-----------------------------------------------------------------------------
(* Rows of network_flows.                                                  *)

\* A row that process_flow adds is between the machines that were leased the
\* addresses.
LEMMA NextEnds ==
  TypeOK /\ LeaseInv /\ TrueEnds /\ [Next]_vars => TrueEnds'
<1> SUFFICES ASSUME TypeOK, LeaseInv, TrueEnds, [Next]_vars PROVE TrueEnds'
  OBVIOUS
<1>1. ASSUME NEW h \in hand, FlowCount(h) PROVE TrueEnds'
  <2>1. PICK m \in Lookup(Impersonated(h.frame)) :
          /\ h.frame \in Frames /\ conf.mac \in Ends(h.frame)
          /\ DOMAIN flows' = DOMAIN flows \cup {KeyOf(h.frame, m)}
    BY <1>1, CountFacts
  <2> QED BY <2>1, KeyFacts DEF TrueEnds
<1>2. CASE DOMAIN flows' = DOMAIN flows
  BY <1>2 DEF TrueEnds
<1>3. DOMAIN flows' = DOMAIN flows \/ \E h \in hand : FlowCount(h)
  BY DEF Next, ProcessorStep, Take, DnsRecord, DnsIgnore, Hello, FlowMiss, FlowIgnore,
         UpdateHostnames, Others, Tick, vars, tables
<1> QED BY <1>1, <1>2, <1>3

\* The frames that were counted in row k, and what the row says of them.
CountedIn(k) == {f \in DOMAIN entered : entered[f] = k}

RowInv(k) ==
  /\ flows[k].packet_count = Cardinality(CountedIn(k))
  /\ \A f \in CountedIn(k) : flows[k].tcp_seq_min <= f.seq /\ f.seq <= flows[k].tcp_seq_max
  /\ \E f \in CountedIn(k) : flows[k].tcp_seq_min = f.seq
  /\ \E f \in CountedIn(k) : flows[k].tcp_seq_max = f.seq

\* Every step adds the frame that it counts to one row and leaves the other rows'
\* sums alone.
LEMMA NextRows ==
  TypeOK /\ LeaseInv /\ HandInv /\ NothingLost /\ [Next]_vars => NothingLost'
<1> SUFFICES ASSUME TypeOK, LeaseInv, HandInv, \A k \in DOMAIN flows : RowInv(k), [Next]_vars,
                    NEW l \in DOMAIN flows'
             PROVE  RowInv(l)'
  BY DEF NothingLost, RowInv, CountedIn
<1>1. ASSUME NEW h \in hand, FlowCount(h) PROVE RowInv(l)'
  <2> DEFINE f == h.frame
  <2>1. PICK m \in Lookup(Impersonated(f)) :
          LET k == KeyOf(f, m) IN
          /\ f \in Frames \ waiting
          /\ DOMAIN flows' = DOMAIN flows \cup {k}
          /\ flows'[k] = Upserted(k, f)
          /\ \A j \in DOMAIN flows \ {k} : flows'[j] = flows[j]
          /\ DOMAIN entered' = DOMAIN entered \cup {f}
          /\ entered'[f] = k
          /\ \A g \in DOMAIN entered \ {f} : entered'[g] = entered[g]
    BY <1>1, CountFacts
  <2>2. f \notin DOMAIN entered /\ f.seq \in Nat /\ \A g \in DOMAIN entered : g \in Frames /\ g.seq \in Nat
    BY <2>1, FlowsAssumption DEF HandInv, TypeOK
  <2>3. IsFiniteSet(CountedIn(l))
    <3>1. CountedIn(l) \subseteq Frames /\ IsFiniteSet(Frames)
      BY <2>2, FlowsAssumption DEF CountedIn
    <3> QED BY <3>1, FS_Subset
  <2> HIDE DEF f
  <2> DEFINE k == KeyOf(f, m)
  <2>4. CASE l # k
    <3>1. l \in DOMAIN flows /\ flows'[l] = flows[l]
      BY <2>1, <2>4
    <3>2. CountedIn(l)' = CountedIn(l)
      BY <2>1, <2>2, <2>4 DEF CountedIn
    <3> QED BY <3>1, <3>2 DEF RowInv
  <2>5. CASE l = k /\ k \notin DOMAIN flows
    <3>1. CountedIn(l)' = {f}
      BY <2>1, <2>2, <2>5 DEF CountedIn, TypeOK
    <3>2. /\ flows'[l].packet_count = 1
          /\ flows'[l].tcp_seq_min = f.seq /\ flows'[l].tcp_seq_max = f.seq
      BY <2>1, <2>5 DEF Upserted
    <3>3. Cardinality({f}) = 1
      BY FS_Singleton, Zenon
    <3> QED BY <2>2, <3>1, <3>2, <3>3 DEF RowInv
  <2>6. CASE l = k /\ k \in DOMAIN flows
    <3> DEFINE r == flows[l]
    <3>1. r \in Rows
      BY <2>6 DEF TypeOK
    <3>2. /\ flows'[l].packet_count = r.packet_count + 1
          /\ flows'[l].tcp_seq_min = IF f.seq < r.tcp_seq_min THEN f.seq ELSE r.tcp_seq_min
          /\ flows'[l].tcp_seq_max = IF f.seq > r.tcp_seq_max THEN f.seq ELSE r.tcp_seq_max
          /\ r.packet_count \in Nat /\ r.tcp_seq_min \in Nat /\ r.tcp_seq_max \in Nat
      BY <2>1, <2>6, <3>1 DEF Upserted, Rows
    <3>3. CountedIn(l)' = CountedIn(l) \cup {f} /\ f \notin CountedIn(l)
      BY <2>1, <2>2, <2>6 DEF CountedIn
    <3>4. Cardinality(CountedIn(l)') = Cardinality(CountedIn(l)) + 1
      BY <2>3, <3>3, FS_AddElement
    <3>5. /\ r.packet_count = Cardinality(CountedIn(l))
          /\ \A g \in CountedIn(l) : r.tcp_seq_min <= g.seq /\ g.seq <= r.tcp_seq_max
          /\ \E g \in CountedIn(l) : r.tcp_seq_min = g.seq
          /\ \E g \in CountedIn(l) : r.tcp_seq_max = g.seq
      BY <2>6 DEF RowInv
    <3>6. \A g \in CountedIn(l) : g.seq \in Nat
      BY <2>2 DEF CountedIn
    <3> HIDE DEF r
    <3>7. \A g \in CountedIn(l) \cup {f} :
            flows'[l].tcp_seq_min <= g.seq /\ g.seq <= flows'[l].tcp_seq_max
      BY <2>2, <3>2, <3>5, <3>6
    <3>8. /\ \E g \in CountedIn(l) \cup {f} : flows'[l].tcp_seq_min = g.seq
          /\ \E g \in CountedIn(l) \cup {f} : flows'[l].tcp_seq_max = g.seq
      BY <3>2, <3>5
    <3> QED BY <3>2, <3>3, <3>4, <3>5, <3>7, <3>8 DEF RowInv
  <2> QED BY <2>4, <2>5, <2>6
<1>2. CASE UpdateHostnames
  <2>1. /\ l \in DOMAIN flows /\ entered' = entered
        /\ flows'[l].packet_count = flows[l].packet_count
        /\ flows'[l].tcp_seq_min = flows[l].tcp_seq_min
        /\ flows'[l].tcp_seq_max = flows[l].tcp_seq_max
    <3>1. DOMAIN flows' = DOMAIN flows /\ entered' = entered
      BY <1>2 DEF UpdateHostnames
    <3> QED BY <1>2, <3>1, NamedRow
  <2>2. CountedIn(l)' = CountedIn(l)
    BY <2>1 DEF CountedIn
  <2>3. RowInv(l)
    BY <2>1
  <2> QED BY <2>1, <2>2, <2>3 DEF RowInv
<1>3. CASE UNCHANGED <<flows, entered>>
  BY <1>3 DEF RowInv, CountedIn
<1>4. UNCHANGED <<flows, entered>> \/ UpdateHostnames \/ \E h \in hand : FlowCount(h)
  BY DEF Next, ProcessorStep, Take, DnsRecord, DnsIgnore, Hello, FlowMiss, FlowIgnore,
         Others, Tick, vars, tables
<1> QED BY <1>1, <1>2, <1>3, <1>4

\* A flow is between the machines that its packets are from and to, the host never
\* among them.
THEOREM EndsAreTrue == Spec => []TrueEnds
<1>1. Init => TrueEnds
  BY DEF Init, TrueEnds
<1>2. IInv /\ TrueEnds /\ [Next]_vars => TrueEnds'
  BY NextEnds DEF IInv
<1> QED BY <1>1, <1>2, Invariance, PTL DEF Spec

\* Every frame that was counted is in the sums of exactly one row, and the rows sum
\* up nothing else.
THEOREM SumsAreComplete == Spec => []NothingLost
<1>1. Init => NothingLost
  BY DEF Init, NothingLost
<1>2. IInv /\ NothingLost /\ [Next]_vars => NothingLost'
  BY NextRows DEF IInv
<1> QED BY <1>1, <1>2, Invariance, PTL DEF Spec

-----------------------------------------------------------------------------
(* Names.                                                                  *)

\* The frames that were captured.
Seen == Frames \ waiting

\* One of the frames announced the name for the address.
Announced(frames, name, i) ==
  \E f \in frames :
    /\ f.name = name
    /\ (f.kind = "dns" /\ i \in f.answers) \/ (f.kind = "hello" /\ i = f.dst_ip)

\* Names in the table hostnames were announced.
HostnameInv ==
  \A i \in Named \ {NoAddress} : hostnames[i] # Null => Announced(Seen, hostnames[i], i)

\* An end of a flow has a name only if it was announced, and then its address
\* still has one.
RowNameInv ==
  \A k \in DOMAIN flows :
    /\ flows[k].src_hostname # Null =>
         Announced(Seen, flows[k].src_hostname, k.src_ip) /\ hostnames[k.src_ip] # Null
    /\ flows[k].dst_hostname # Null =>
         Announced(Seen, flows[k].dst_hostname, k.dst_ip) /\ hostnames[k.dst_ip] # Null

\* What was announced stays announced.
LEMMA AnnouncedStays ==
  ASSUME [Next]_vars, NEW name, NEW i, Announced(Seen, name, i)
  PROVE  Announced(Seen', name, i)
<1>1. waiting' \subseteq waiting
  BY DEF Next, ProcessorStep, Take, DnsRecord, DnsIgnore, Hello, FlowCount, FlowMiss,
         FlowIgnore, UpdateHostnames, Others, Tick, vars
<1> QED BY <1>1 DEF Announced, Seen

\* A handler that writes a name for an address read it in a frame that announces it;
\* nobody erases a name.
LEMMA NextHostnames ==
  TypeOK /\ HandInv /\ HostnameInv /\ [Next]_vars =>
    /\ HostnameInv'
    /\ \A i \in Named : hostnames[i] # Null => hostnames'[i] # Null
<1> SUFFICES ASSUME TypeOK, HandInv, HostnameInv, [Next]_vars, NEW i \in Named
             PROVE  /\ i # NoAddress /\ hostnames'[i] # Null => Announced(Seen', hostnames'[i], i)
                    /\ hostnames[i] # Null => hostnames'[i] # Null
  BY DEF HostnameInv, Named, Peers
<1>1. CASE hostnames'[i] = hostnames[i]
  BY <1>1, AnnouncedStays DEF HostnameInv
<1>2. ASSUME NEW h \in hand, DnsRecord(h), hostnames'[i] # hostnames[i]
      PROVE  hostnames'[i] # Null /\ (i # NoAddress => Announced(Seen, hostnames'[i], i))
  <2>1. h.frame \in Frames \ waiting /\ h.frame.kind = "dns" /\ h.frame.name # Null
    BY <1>2 DEF TypeOK, DnsRecord, HandInv
  <2>2. /\ hostnames'[i] = h.frame.name
        /\ i \in IF h.frame.answers = {} THEN {NoAddress} ELSE h.frame.answers
    BY <1>2 DEF DnsRecord, WriteHostnames
  <2> QED BY <2>1, <2>2 DEF Announced, Seen
<1>3. ASSUME NEW h \in hand, Hello(h), hostnames'[i] # hostnames[i]
      PROVE  hostnames'[i] # Null /\ (i # NoAddress => Announced(Seen, hostnames'[i], i))
  <2>1. h.frame \in Frames \ waiting /\ Sni(h.frame) # Null
    BY <1>3 DEF TypeOK, Hello, HandInv
  <2>2. h.frame.kind = "hello" /\ Sni(h.frame) = h.frame.name
    BY <2>1 DEF Sni
  <2>3. hostnames'[i] = Sni(h.frame) /\ i = h.frame.dst_ip
    BY <1>3 DEF Hello, WriteHostnames
  <2> QED BY <2>1, <2>2, <2>3 DEF Announced, Seen
<1>4. hostnames' = hostnames \/ \E h \in hand : DnsRecord(h) \/ Hello(h)
  BY DEF Next, ProcessorStep, Take, DnsIgnore, FlowCount, FlowMiss, FlowIgnore,
         UpdateHostnames, Others, Tick, vars, tables
<1> QED BY <1>1, <1>2, <1>3, <1>4, AnnouncedStays

\* Every step keeps the rows, their names, and what is known of them.
LEMMA NextRowNames ==
  TypeOK /\ LeaseInv /\ HandInv /\ HostnameInv /\ RowNameInv /\ [Next]_vars =>
    /\ RowNameInv'
    /\ \A k \in DOMAIN flows :
         /\ k \in DOMAIN flows'
         /\ flows[k].src_hostname # Null => flows'[k].src_hostname # Null
         /\ flows[k].dst_hostname # Null => flows'[k].dst_hostname # Null
<1> DEFINE Kept ==
      \A k \in DOMAIN flows :
        /\ k \in DOMAIN flows'
        /\ flows[k].src_hostname # Null => flows'[k].src_hostname # Null
        /\ flows[k].dst_hostname # Null => flows'[k].dst_hostname # Null
<1> SUFFICES ASSUME TypeOK, LeaseInv, HandInv, HostnameInv, RowNameInv, [Next]_vars
             PROVE  RowNameInv' /\ Kept
  OBVIOUS
<1>1. \A i \in Named : hostnames[i] # Null => hostnames'[i] # Null
  BY NextHostnames
<1>2. \A k \in DOMAIN flows : {k.src_ip, k.dst_ip} \subseteq Named \ {NoAddress}
  BY FlowsAssumption DEF TypeOK, Keys, Named
<1>3. ASSUME NEW k \in DOMAIN flows, NEW r,
             r.src_hostname \in {flows[k].src_hostname, Null}
               \/ (r.src_hostname = hostnames[k.src_ip]),
             r.dst_hostname \in {flows[k].dst_hostname, Null}
               \/ (r.dst_hostname = hostnames[k.dst_ip])
      PROVE  /\ r.src_hostname # Null =>
                  Announced(Seen', r.src_hostname, k.src_ip) /\ hostnames'[k.src_ip] # Null
             /\ r.dst_hostname # Null =>
                  Announced(Seen', r.dst_hostname, k.dst_ip) /\ hostnames'[k.dst_ip] # Null
  BY <1>1, <1>2, <1>3, AnnouncedStays DEF RowNameInv, HostnameInv
<1>4. ASSUME NEW h \in hand, FlowCount(h) PROVE RowNameInv' /\ Kept
  <2> DEFINE f == h.frame
  <2>1. PICK m \in Lookup(Impersonated(f)) :
          LET k == KeyOf(f, m) IN
          /\ f \in Frames
          /\ DOMAIN flows' = DOMAIN flows \cup {k}
          /\ flows'[k] = Upserted(k, f)
          /\ \A j \in DOMAIN flows \ {k} : flows'[j] = flows[j]
    BY <1>4, CountFacts
  <2> HIDE DEF f
  <2> DEFINE k == KeyOf(f, m)
  <2>2. /\ k \notin DOMAIN flows =>
             flows'[k].src_hostname = Null /\ flows'[k].dst_hostname = Null
        /\ k \in DOMAIN flows =>
             /\ flows'[k].src_hostname = flows[k].src_hostname
             /\ flows'[k].dst_hostname = flows[k].dst_hostname
    BY <2>1, UpsertedType
  <2> HIDE DEF k
  <2>3. \A j \in DOMAIN flows :
          /\ flows'[j].src_hostname = flows[j].src_hostname
          /\ flows'[j].dst_hostname = flows[j].dst_hostname
    BY <2>1, <2>2 DEF k
  <2>4. \A j \in DOMAIN flows' \ DOMAIN flows :
          flows'[j].src_hostname = Null /\ flows'[j].dst_hostname = Null
    BY <2>1, <2>2 DEF k
  <2>5. DOMAIN flows \subseteq DOMAIN flows'
    BY <2>1
  <2>6. RowNameInv'
    <3> SUFFICES ASSUME NEW j \in DOMAIN flows'
                 PROVE  /\ flows'[j].src_hostname # Null =>
                             /\ Announced(Seen', flows'[j].src_hostname, j.src_ip)
                             /\ hostnames'[j.src_ip] # Null
                        /\ flows'[j].dst_hostname # Null =>
                             /\ Announced(Seen', flows'[j].dst_hostname, j.dst_ip)
                             /\ hostnames'[j.dst_ip] # Null
      BY DEF RowNameInv
    <3>1. CASE j \in DOMAIN flows
      BY <1>3, <2>3, <3>1
    <3>2. CASE j \notin DOMAIN flows
      BY <2>4, <3>2
    <3> QED BY <3>1, <3>2
  <2> QED BY <2>3, <2>5, <2>6
<1>5. CASE UpdateHostnames
  <2>1. DOMAIN flows' = DOMAIN flows
    BY <1>5 DEF UpdateHostnames
  <2>2. \A k \in DOMAIN flows :
          /\ flows'[k].src_hostname \in {flows[k].src_hostname, hostnames[k.src_ip]}
          /\ flows'[k].dst_hostname \in {flows[k].dst_hostname, hostnames[k.dst_ip]}
    BY <1>5, NamedRow
  <2>3. RowNameInv'
    BY <1>3, <2>1, <2>2 DEF RowNameInv
  <2>4. Kept
    BY <2>1, <2>2 DEF RowNameInv
  <2> QED BY <2>3, <2>4
<1>6. CASE flows' = flows
  BY <1>3, <1>6 DEF RowNameInv
<1>7. flows' = flows \/ UpdateHostnames \/ \E h \in hand : FlowCount(h)
  BY DEF Next, ProcessorStep, Take, DnsRecord, DnsIgnore, Hello, FlowMiss, FlowIgnore,
         Others, Tick, vars, tables
<1> QED BY <1>4, <1>5, <1>6, <1>7

\* Names are written as they were announced, through both tables.
THEOREM NameInvariance == Spec => [](HostnameInv /\ RowNameInv)
<1>1. Init => HostnameInv /\ RowNameInv
  BY DEF Init, HostnameInv, RowNameInv
<1>2. IInv /\ HostnameInv /\ RowNameInv /\ [Next]_vars => (HostnameInv /\ RowNameInv)'
  BY NextHostnames, NextRowNames DEF IInv
<1> QED BY <1>1, <1>2, Invariance, PTL DEF Spec

\* No end of a flow gets a name that was not announced for its address.
THEOREM NamesAreTrue == Spec => []TrueNames
<1>1. RowNameInv => TrueNames
  BY DEF RowNameInv, TrueNames, Announced, Seen
<1> QED BY <1>1, NameInvariance, PTL

\* No end of a flow loses its name.
THEOREM NamesAreKept == Spec => NamesKept
<1> DEFINE Keeps ==
      \A k \in DOMAIN flows :
        /\ k \in DOMAIN flows'
        /\ flows[k].src_hostname # Null => flows'[k].src_hostname # Null
        /\ flows[k].dst_hostname # Null => flows'[k].dst_hostname # Null
<1>1. IInv /\ HostnameInv /\ RowNameInv /\ [Next]_vars => [Keeps]_vars
  BY NextRowNames DEF IInv
<1>2. Spec => [][Keeps]_vars
  BY <1>1, Invariance, NameInvariance, PTL DEF Spec
<1> QED BY <1>2 DEF NamesKept
-----------------------------------------------------------------------------
(* The safety half of AllNamed.                                            *)

\* Every end whose address has a name is named.
EndsNamed ==
  \A k \in DOMAIN flows :
    /\ hostnames[k.src_ip] # Null => flows[k].src_hostname # Null
    /\ hostnames[k.dst_ip] # Null => flows[k].dst_hostname # Null

\* One statement of update_hostnames_in_flows leaves no end behind, and only a flow or a
\* name that is new makes a further one necessary.
OneUpdateNamesAll ==
  [][/\ UpdateHostnames => EndsNamed'
     /\ EndsNamed /\ hostnames' = hostnames /\ DOMAIN flows' = DOMAIN flows
          => EndsNamed']_vars

\* A row that the statement does not select needs no name, one that it selects has the
\* names of both its ends afterwards.
LEMMA UpdateNames == TypeOK /\ UpdateHostnames => EndsNamed'
<1> SUFFICES ASSUME TypeOK, UpdateHostnames, NEW k \in DOMAIN flows
             PROVE  /\ hostnames[k.src_ip] # Null => flows'[k].src_hostname # Null
                    /\ hostnames[k.dst_ip] # Null => flows'[k].dst_hostname # Null
  BY DEF UpdateHostnames, EndsNamed
<1> DEFINE r == flows[k]
           Selected == /\ r.src_hostname = Null \/ r.dst_hostname = Null
                       /\ hostnames[k.src_ip] # Null \/ hostnames[k.dst_ip] # Null
<1>1. r \in Rows
  BY DEF TypeOK
<1>2. flows'[k] = IF Selected
                  THEN [r EXCEPT !.src_hostname = hostnames[k.src_ip],
                                 !.dst_hostname = hostnames[k.dst_ip]]
                  ELSE r
  BY DEF UpdateHostnames
<1> HIDE DEF r
<1>3. CASE Selected
  <2>1. /\ flows'[k].src_hostname = hostnames[k.src_ip]
        /\ flows'[k].dst_hostname = hostnames[k.dst_ip]
    BY <1>1, <1>2, <1>3 DEF Rows
  <2> QED BY <2>1
<1>4. CASE ~Selected
  BY <1>2, <1>4
<1> QED BY <1>3, <1>4

\* For any frames, names and flows: with the update that is made again and again, this is
\* why every end is named in the end.
THEOREM UpdatesNameAll == Spec => OneUpdateNamesAll
<1>1. IInv /\ HostnameInv /\ RowNameInv /\ [Next]_vars =>
        [/\ UpdateHostnames => EndsNamed'
         /\ EndsNamed /\ hostnames' = hostnames /\ DOMAIN flows' = DOMAIN flows
              => EndsNamed']_vars
  BY UpdateNames, NextRowNames DEF IInv, EndsNamed
<1> QED BY <1>1, Invariance, NameInvariance, PTL DEF Spec, OneUpdateNamesAll
=============================================================================
