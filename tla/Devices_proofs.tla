--------------------------- MODULE Devices_proofs ---------------------------
(***************************************************************************)
(* Safety of the devices table for any set of machines, addresses, network *)
(* information and metadata.                                               *)
(***************************************************************************)
EXTENDS Devices, TLAPS

\* The packet that is about to be written is not the host's own, unless the host's
\* hardware address changed while it was processed.
PacketInv == \A p \in packet : p.mac = conf.mac => moved

\* OwnPacketsIgnored without its box: what one step may do to the rows.
IgnoresOwnPackets ==
  \A m \in Macs :
    m \in listed' \ listed \/ ip_address'[m] # ip_address[m]
      => m # conf.mac \/ moved

\* KnowledgeKept without its box: what one step may do to the listed devices.
KeepsKnowledge ==
  \A m \in listed :
    /\ m \in listed'
    /\ \A k \in Keys : metadata[m][k] # Null => metadata'[m][k] # Null
    /\ \A k \in {"oui_vendor", "mdns_json", "ssdp_json"} :
         metadata[m][k] # Null => metadata'[m][k] = metadata[m][k]
    /\ is_inspected'[m] # is_inspected[m] => UserToggles(m)

-----------------------------------------------------------------------------

\* The empty table has its type.
LEMMA DevicesInitType == DevicesInit => TypeOK
<1> SUFFICES ASSUME DevicesInit PROVE TypeOK
  OBVIOUS
<1>1. packet = {} /\ moved = FALSE
  BY DEF DevicesInit
<1>2. metadata \in [Macs -> [Keys -> Facts \cup {Null}]]
  BY DEF DevicesInit, Keys
<1> QED BY <1>1, <1>2, DevicesAssumption DEF DevicesInit, TypeOK

\* Filling one key of some rows with facts keeps the type of the metadata.
LEMMA FillType ==
  ASSUME NEW old \in [Macs -> [Keys -> Facts \cup {Null}]], NEW key \in Keys,
         NEW S \in SUBSET Macs, NEW fact \in [S -> Facts]
  PROVE  [m \in Macs |-> IF m \in S THEN [old[m] EXCEPT ![key] = fact[m]]
                                    ELSE old[m]]
           \in [Macs -> [Keys -> Facts \cup {Null}]]
OBVIOUS

\* One write of a finding fills the key of the rows whose address it has and which
\* lack the key, with facts.
LEMMA AdvertiseFills ==
  ASSUME TypeOK, NEW key \in {"mdns_json", "ssdp_json"},
         NEW found, \A i \in DOMAIN found : found[i] \in Adverts,
         Advertise(key, found)
  PROVE  /\ metadata' \in [Macs -> [Keys -> Facts \cup {Null}]]
         /\ \A m \in Macs : metadata'[m] # metadata[m] =>
              m \in listed /\ metadata[m][key] = Null
         /\ \A m \in Macs, k \in Keys : k # key => metadata'[m][k] = metadata[m][k]
<1> DEFINE S == {m \in listed : ip_address[m] \in DOMAIN found /\ metadata[m][key] = Null}
           fact == [m \in S |-> found[ip_address[m]]]
<1>1. key \in Keys /\ S \in SUBSET Macs /\ fact \in [S -> Facts]
  BY DEF Keys, Facts, TypeOK
<1>2. metadata' = [m \in Macs |-> IF m \in S THEN [metadata[m] EXCEPT ![key] = fact[m]]
                                             ELSE metadata[m]]
  BY DEF Advertise
<1>3. metadata \in [Macs -> [Keys -> Facts \cup {Null}]]
  BY DEF TypeOK
<1> HIDE DEF fact
<1>4. metadata' \in [Macs -> [Keys -> Facts \cup {Null}]]
  BY <1>1, <1>2, <1>3, FillType
<1> QED BY <1>2, <1>3, <1>4

\* The vendor look-up of an ARP packet likewise.
LEMMA VendorFills ==
  ASSUME TypeOK, NEW p \in packet, ArpUpsert(p)
  PROVE  /\ metadata' \in [Macs -> [Keys -> Facts \cup {Null}]]
         /\ \A m \in Macs : metadata'[m] # metadata[m] =>
              m \in listed' /\ metadata[m]["oui_vendor"] = Null
         /\ \A m \in Macs, k \in Keys :
              k # "oui_vendor" => metadata'[m][k] = metadata[m][k]
<1> DEFINE S == {m \in Macs : m \in listed' /\ metadata[m]["oui_vendor"] = Null}
           fact == [m \in S |-> "vendor"]
<1>1. "oui_vendor" \in Keys /\ S \in SUBSET Macs /\ fact \in [S -> Facts]
  BY DEF Keys, Facts
<1>2. metadata' = [m \in Macs |->
        IF m \in S THEN [metadata[m] EXCEPT !["oui_vendor"] = fact[m]] ELSE metadata[m]]
  BY DEF ArpUpsert
<1>3. metadata \in [Macs -> [Keys -> Facts \cup {Null}]]
  BY DEF TypeOK
<1> HIDE DEF fact
<1>4. metadata' \in [Macs -> [Keys -> Facts \cup {Null}]]
  BY <1>1, <1>2, <1>3, FillType
<1> QED BY <1>2, <1>3, <1>4

-----------------------------------------------------------------------------

\* Every writer of the table keeps its type.
LEMMA DevicesNextType == TypeOK /\ [DevicesNext]_deviceVars => TypeOK'
<1> SUFFICES ASSUME TypeOK, [DevicesNext]_deviceVars PROVE TypeOK'
  OBVIOUS
<1>1. ASSUME NEW p \in packet, ArpUpsert(p) PROVE TypeOK'
  <2>1. p.mac \in Macs /\ p.ip \in Ips /\ p.gateway \in BOOLEAN
    BY <1>1 DEF TypeOK, ArpUpsert, ArpPackets, RowPackets, DhcpPackets
  <2>2. listed' = listed \cup {p.mac} /\ conf' = conf /\ is_inspected' = is_inspected
    BY <1>1 DEF ArpUpsert, Upsert
  <2>3. ip_address' \in [Macs -> Ips] /\ is_gateway' \in [Macs -> BOOLEAN]
    BY <1>1, <2>1 DEF ArpUpsert, Upsert, TypeOK
  <2>4. \A m \in Macs \ listed' : ~is_gateway'[m] /\ metadata'[m] = [k \in Keys |-> Null]
    BY <1>1, <2>2, VendorFills DEF ArpUpsert, TypeOK
  <2> QED BY <1>1, <2>1, <2>2, <2>3, <2>4, VendorFills DEF ArpUpsert, Processed, TypeOK
<1>2. ASSUME NEW p \in packet, DhcpUpsert(p) PROVE TypeOK'
  <2>1. p.mac \in Macs /\ p.ip \in Ips /\ p.name \in Facts /\ "dhcp_hostname" \in Keys
    BY <1>2 DEF TypeOK, DhcpUpsert, ArpPackets, RowPackets, DhcpPackets, Facts, Keys
  <2> QED BY <1>2, <2>1 DEF DhcpUpsert, Upsert, Processed, TypeOK
<1>3. ASSUME NEW m \in Macs, NEW agent \in Agents, HttpUserAgent(m, agent)
      PROVE  TypeOK'
  <2>1. agent \in Facts /\ "user_agent_info" \in Keys
    BY DEF Facts, Keys
  <2> QED BY <1>3, <2>1 DEF HttpUserAgent, TypeOK
<1>4. ASSUME NEW m \in Macs, UserToggles(m) PROVE TypeOK'
  BY <1>4 DEF UserToggles, TypeOK
<1>5. ASSUME NEW key \in {"mdns_json", "ssdp_json"},
             NEW found, \A i \in DOMAIN found : found[i] \in Adverts,
             Advertise(key, found)
      PROVE  TypeOK'
  <2>1. UNCHANGED <<conf, listed, ip_address, is_inspected, is_gateway, packet, moved>>
    BY <1>5 DEF Advertise
  <2>2. /\ metadata' \in [Macs -> [Keys -> Facts \cup {Null}]]
        /\ \A m \in Macs : metadata'[m] # metadata[m] => m \in listed
    BY <1>5, AdvertiseFills
  <2> QED BY <2>1, <2>2 DEF TypeOK
<1>6. CASE MdnsWrite
  BY <1>5, <1>6 DEF MdnsWrite
<1>7. ASSUME NEW i \in Ips, NEW advert \in Adverts, SsdpWrite(i, advert)
      PROVE  TypeOK'
  BY <1>5, <1>7 DEF SsdpWrite
<1>8. ASSUME NEW p \in packet, ArpClassify(p) PROVE TypeOK'
  <2>1. p \in ArpPackets
    BY <1>8 DEF ArpClassify, TypeOK, ArpPackets, RowPackets, DhcpPackets
  <2>2. packet' \subseteq RowPackets
    BY <1>8, <2>1 DEF ArpClassify, ArpPackets, RowPackets
  <2> QED BY <1>8, <2>2 DEF ArpClassify, TypeOK, columns
<1>9. CASE UpdateNetworkInfo
  BY <1>9 DEF UpdateNetworkInfo, TypeOK, columns
<1>10. CASE UNCHANGED deviceVars
  BY <1>10 DEF deviceVars, columns, TypeOK
<1>11. ASSUME NEW m \in Macs, NEW i \in Ips, ArpCompare(m, i) PROVE TypeOK'
  <2>1. [stage |-> "arp", mac |-> m, ip |-> i] \in ArpPackets
    BY <1>11 DEF ArpCompare, ArpPackets
  <2> QED BY <1>11, <2>1 DEF ArpCompare, Accept, TypeOK, columns
<1>12. ASSUME NEW m \in Macs, NEW i \in Ips, NEW name \in Names,
              DhcpCompare(m, i, name)
       PROVE  TypeOK'
  <2>1. [stage |-> "dhcp", mac |-> m, ip |-> i, name |-> name] \in DhcpPackets
    BY DEF DhcpPackets
  <2> QED BY <1>12, <2>1 DEF DhcpCompare, Accept, TypeOK, columns
<1> QED BY <1>1, <1>2, <1>3, <1>4, <1>6, <1>7, <1>8, <1>9, <1>10, <1>11, <1>12
        DEF DevicesNext, TableStep, OtherStep

\* The table keeps its types, and unlisted devices have no facts, no gateway flag
\* and the default choice of inspection.
THEOREM DevicesTypeCorrect == DevicesSpec => []TypeOK
BY DevicesInitType, DevicesNextType, PTL DEF DevicesSpec

-----------------------------------------------------------------------------

\* Whatever packet is in hand was compared with the hardware address published now,
\* or that address changed since.
LEMMA PacketNext ==
  ASSUME PacketInv, [DevicesNext]_deviceVars
  PROVE  PacketInv'
<1> USE DEF PacketInv
<1>1. ASSUME NEW p \in packet, ArpUpsert(p) \/ DhcpUpsert(p) PROVE PacketInv'
  BY <1>1 DEF ArpUpsert, DhcpUpsert, Processed
<1>2. ASSUME NEW p \in packet, ArpClassify(p) PROVE PacketInv'
  BY <1>2 DEF ArpClassify
<1>3. ASSUME NEW m \in Macs, NEW i \in Ips, ArpCompare(m, i) PROVE PacketInv'
  BY <1>3 DEF ArpCompare, Accept
<1>4. ASSUME NEW m \in Macs, NEW i \in Ips, NEW name \in Names,
             DhcpCompare(m, i, name)
      PROVE  PacketInv'
  BY <1>4 DEF DhcpCompare, Accept
<1>5. CASE UpdateNetworkInfo
  <2>1. /\ packet' = packet
        /\ \A p \in packet : moved' = (moved \/ conf'.mac # conf.mac)
    BY <1>5 DEF UpdateNetworkInfo
  <2> QED BY <2>1
<1>6. CASE \/ \E m \in Macs :
                \/ \E agent \in Agents : HttpUserAgent(m, agent)
                \/ UserToggles(m)
           \/ MdnsWrite
           \/ \E i \in Ips, advert \in Adverts : SsdpWrite(i, advert)
           \/ UNCHANGED deviceVars
  <2>1. UNCHANGED <<conf, packet, moved>>
    BY <1>6 DEF HttpUserAgent, UserToggles, MdnsWrite, SsdpWrite, Advertise,
                deviceVars
  <2> QED BY <2>1
<1> QED BY <1>1, <1>2, <1>3, <1>4, <1>5, <1>6 DEF DevicesNext, TableStep, OtherStep

\* The rows change only as the packet in hand says.
LEMMA OwnPacketsNext ==
  ASSUME TypeOK, PacketInv, DevicesNext
  PROVE  IgnoresOwnPackets
<1> USE DEF IgnoresOwnPackets
<1>1. ASSUME NEW p \in packet, ArpUpsert(p) \/ DhcpUpsert(p) PROVE IgnoresOwnPackets
  <2>1. Upsert(p.mac, p.ip)
    BY <1>1 DEF ArpUpsert, DhcpUpsert
  <2>2. \A m \in Macs : m # p.mac => /\ m \in listed' <=> m \in listed
                                    /\ ip_address'[m] = ip_address[m]
    BY <2>1 DEF Upsert, TypeOK
  <2>3. p.mac = conf.mac => moved
    BY DEF PacketInv
  <2> QED BY <2>2, <2>3
<1>2. CASE \/ \E m \in Macs :
                \/ \E agent \in Agents : HttpUserAgent(m, agent)
                \/ UserToggles(m)
           \/ MdnsWrite
           \/ \E i \in Ips, advert \in Adverts : SsdpWrite(i, advert)
           \/ OtherStep
  <2>1. UNCHANGED <<listed, ip_address>>
    BY <1>2 DEF HttpUserAgent, UserToggles, MdnsWrite, SsdpWrite, Advertise, OtherStep,
                ArpCompare, DhcpCompare, Accept, ArpClassify, UpdateNetworkInfo, columns
  <2> QED BY <2>1
<1> QED BY <1>1, <1>2 DEF DevicesNext, TableStep

\* Whatever network information is published and when: a packet of the host writes no
\* row, unless the host took that hardware address after the packet was compared.
THEOREM HostPacketsIgnored == DevicesSpec => OwnPacketsIgnored
<1>1. DevicesInit => PacketInv
  BY DEF DevicesInit, PacketInv
<1>2. PacketInv /\ [DevicesNext]_deviceVars => PacketInv'
  BY PacketNext
<1>3. TypeOK /\ PacketInv /\ [DevicesNext]_deviceVars => [IgnoresOwnPackets]_deviceVars
  BY OwnPacketsNext
<1>4. DevicesSpec => [][IgnoresOwnPackets]_deviceVars
  BY <1>1, <1>2, <1>3, DevicesTypeCorrect, PTL DEF DevicesSpec
<1> QED BY <1>4 DEF OwnPacketsIgnored, IgnoresOwnPackets

-----------------------------------------------------------------------------

\* Every step keeps what the table knows.
LEMMA KnowledgeNext ==
  ASSUME TypeOK, DevicesNext
  PROVE  KeepsKnowledge
<1> USE DEF KeepsKnowledge
<1>1. ASSUME NEW p \in packet, ArpUpsert(p) PROVE KeepsKnowledge
  <2>1. /\ listed \subseteq listed' /\ is_inspected' = is_inspected
        /\ listed \subseteq Macs
    BY <1>1 DEF ArpUpsert, Upsert, TypeOK
  <2>2. ASSUME NEW m \in listed, NEW k \in Keys, metadata[m][k] # Null
        PROVE  metadata'[m][k] = metadata[m][k]
    BY <1>1, <2>1, <2>2, VendorFills
  <2> QED BY <2>1, <2>2 DEF Keys
<1>2. ASSUME NEW p \in packet, DhcpUpsert(p) PROVE KeepsKnowledge
  <2>1. p.name # Null
    BY <1>2, DevicesAssumption DEF TypeOK, DhcpUpsert, ArpPackets, RowPackets, DhcpPackets
  <2>2. /\ listed \subseteq listed' /\ is_inspected' = is_inspected
        /\ listed \subseteq Macs
    BY <1>2 DEF DhcpUpsert, Upsert, TypeOK
  <2>3. \A n \in Macs, k \in Keys :
          metadata'[n][k] =
            IF n = p.mac /\ k = "dhcp_hostname" THEN p.name ELSE metadata[n][k]
    BY <1>2 DEF DhcpUpsert, TypeOK
  <2> QED BY <2>1, <2>2, <2>3 DEF Keys
<1>3. ASSUME NEW m \in Macs, NEW agent \in Agents, HttpUserAgent(m, agent)
      PROVE  KeepsKnowledge
  <2>1. agent # Null
    BY DevicesAssumption
  <2>2. listed' = listed /\ is_inspected' = is_inspected /\ listed \subseteq Macs
    BY <1>3 DEF HttpUserAgent, TypeOK
  <2>3. \A n \in Macs, k \in Keys :
          metadata'[n][k] =
            IF n = m /\ k = "user_agent_info" THEN agent ELSE metadata[n][k]
    BY <1>3 DEF HttpUserAgent, TypeOK
  <2> QED BY <2>1, <2>2, <2>3 DEF Keys
<1>4. ASSUME NEW m \in Macs, UserToggles(m) PROVE KeepsKnowledge
  <2>1. listed' = listed /\ metadata' = metadata
    BY <1>4 DEF UserToggles
  <2>2. \A n \in Macs : is_inspected'[n] # is_inspected[n] => n = m
    BY <1>4 DEF UserToggles, TypeOK
  <2> QED BY <1>4, <2>1, <2>2 DEF TypeOK
<1>5. ASSUME NEW key \in {"mdns_json", "ssdp_json"},
             NEW found, \A i \in DOMAIN found : found[i] \in Adverts,
             Advertise(key, found)
      PROVE  KeepsKnowledge
  <2>1. listed' = listed /\ is_inspected' = is_inspected /\ listed \subseteq Macs
    BY <1>5 DEF Advertise, TypeOK
  <2>2. ASSUME NEW m \in listed, NEW k \in Keys, metadata[m][k] # Null
        PROVE  metadata'[m][k] = metadata[m][k]
    BY <1>5, <2>1, <2>2, AdvertiseFills
  <2> QED BY <2>1, <2>2 DEF Keys
<1>6. CASE MdnsWrite
  BY <1>5, <1>6 DEF MdnsWrite
<1>7. ASSUME NEW i \in Ips, NEW advert \in Adverts, SsdpWrite(i, advert)
      PROVE  KeepsKnowledge
  BY <1>5, <1>7 DEF SsdpWrite
<1>8. CASE OtherStep
  BY <1>8 DEF OtherStep, ArpCompare, DhcpCompare, Accept, ArpClassify,
              UpdateNetworkInfo, columns
<1> QED BY <1>1, <1>2, <1>3, <1>4, <1>6, <1>7, <1>8 DEF DevicesNext, TableStep

\* No step of any writer forgets a row, a fact or the user's choice.
THEOREM KnowledgeIsKept == DevicesSpec => KnowledgeKept
<1>1. TypeOK /\ [DevicesNext]_deviceVars => [KeepsKnowledge]_deviceVars
  BY KnowledgeNext
<1>2. DevicesSpec => [][KeepsKnowledge]_deviceVars
  BY <1>1, DevicesTypeCorrect, PTL DEF DevicesSpec
<1> QED BY <1>2 DEF KnowledgeKept, KeepsKnowledge

-----------------------------------------------------------------------------

\* The address of every machine, as the address book has it.
LookedUp == [m \in Macs |-> IF m \in listed THEN ip_address[m] ELSE Null]

\* Inserting a row or updating its address is learning the address.
LEMMA UpsertLearns ==
  ASSUME TypeOK, NEW m \in Macs, NEW i \in Ips, Upsert(m, i), conf' = conf
  PROVE  Book!AddressNext
<1>1. \A n \in Macs : (n \in listed' <=> n \in listed \/ n = m)
                      /\ ip_address'[n] = IF n = m THEN i ELSE ip_address[n]
  BY DEF Upsert, TypeOK
<1>2. LookedUp' = [LookedUp EXCEPT ![m] = i]
  BY <1>1 DEF LookedUp
<1>3. Book!Learn(m, i)
  BY <1>2 DEF Book!Learn, LookedUp
<1> QED BY <1>3 DEF Book!AddressNext

\* Every step of a writer learns an address, publishes or leaves the book alone.
LEMMA BookNext ==
  ASSUME TypeOK, TypeOK', [DevicesNext]_deviceVars
  PROVE  [Book!AddressNext]_(Book!addressVars)
<1>1. ASSUME NEW p \in packet, ArpUpsert(p) \/ DhcpUpsert(p) PROVE Book!AddressNext
  <2>1. p.mac \in Macs /\ p.ip \in Ips
    BY DEF TypeOK, ArpPackets, RowPackets, DhcpPackets
  <2>2. Upsert(p.mac, p.ip) /\ conf' = conf
    BY <1>1 DEF ArpUpsert, DhcpUpsert
  <2> QED BY <2>1, <2>2, UpsertLearns
<1>3. CASE UpdateNetworkInfo
  <2>1. UNCHANGED <<listed, ip_address>> /\ conf' \in Confs
    BY <1>3 DEF UpdateNetworkInfo, columns
  <2>2. Book!Publish
    BY <2>1 DEF Book!Publish
  <2> QED BY <2>2 DEF Book!AddressNext
<1>4. CASE \/ \E m \in Macs :
                \/ \E agent \in Agents : HttpUserAgent(m, agent)
                \/ UserToggles(m)
           \/ MdnsWrite
           \/ \E i \in Ips, advert \in Adverts : SsdpWrite(i, advert)
           \/ \E p \in packet : ArpClassify(p)
           \/ \E m \in Macs, i \in Ips :
                ArpCompare(m, i) \/ \E name \in Names : DhcpCompare(m, i, name)
           \/ UNCHANGED deviceVars
  <2>1. UNCHANGED <<conf, listed, ip_address>>
    BY <1>4 DEF HttpUserAgent, UserToggles, MdnsWrite, SsdpWrite, Advertise,
                ArpClassify, ArpCompare, DhcpCompare, Accept, deviceVars, columns
  <2>2. UNCHANGED Book!addressVars
    BY <2>1 DEF Book!addressVars
  <2> QED BY <2>2
<1> QED BY <1>1, <1>3, <1>4 DEF DevicesNext, TableStep, OtherStep

\* All the writers of the table together implement the address book, for any sets
\* of machines, addresses and facts: what is proved of a user of Addresses holds of
\* a user of the table.
THEOREM TableIsAddressBook == DevicesSpec => ImplementsAddresses
<1>1. DevicesInit => Book!AddressInit
  BY DEF DevicesInit, Book!AddressInit
<1>2. TypeOK /\ TypeOK' /\ [DevicesNext]_deviceVars
        => [Book!AddressNext]_(Book!addressVars)
  BY BookNext
<1> QED BY <1>1, <1>2, DevicesTypeCorrect, PTL
        DEF DevicesSpec, ImplementsAddresses, Book!AddressSpec
=============================================================================
