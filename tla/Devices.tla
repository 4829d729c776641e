------------------------------- MODULE Devices -------------------------------
(***************************************************************************)
(* The devices table that src/libinspector/mem_db.py creates and everybody *)
(* writes: the packet processor (ARP, DHCP and HTTP packets), the mDNS and *)
(* SSDP discoveries and the user's choice of what to inspect; together     *)
(* with the network information in global_state that update_network_info   *)
(* publishes and the writers read.                                         *)
(*                                                                         *)
(* Every section that holds the table's rw_lock or global_state_lock is    *)
(* one step, and so is the comparison of a packet's sender with the host's *)
(* hardware address, which process_arp and process_dhcp read without a     *)
(* lock before they write the row.                                         *)
(***************************************************************************)
EXTENDS Naturals, FiniteSets

CONSTANTS
  Macs,              \* the hardware addresses on the network, the host's too
  Ips,               \* the addresses that packets carry
  ZeroIp,            \* 0.0.0.0, sent by who has no address yet
  Confs,             \* what update_network_info may find
  Names,             \* host names in DHCP requests
  Agents,            \* User-Agent headers
  Adverts,           \* what mDNS and SSDP tell of a device
  InspectByDefault,  \* SCAN_ALL_DEVICES
  Null               \* a key that a row's metadata does not have

\* A conf is a record of gateway, the gateway's address, and ip and mac, the host's.
ASSUME DevicesAssumption ==
  /\ ZeroIp \in Ips
  /\ \A k \in Confs : k.gateway \in Ips \ {ZeroIp} /\ k.mac \in Macs
  /\ InspectByDefault \in BOOLEAN
  /\ Null \notin Names \cup Agents \cup Adverts \cup {"vendor"}

VARIABLES
  conf,          \* gateway_ip_addr, host_ip_addr and host_mac_addr
  listed,        \* the mac_address of every row
  ip_address,    \* the columns; where there is no row, their initial values
  is_inspected,
  is_gateway,
  metadata,      \* metadata_json: a value or Null for every key
  packet,        \* the ARP or DHCP packet between the comparison and the row
  moved          \* history: conf.mac has changed since that comparison

columns == <<listed, ip_address, is_inspected, is_gateway, metadata>>
deviceVars == <<conf, columns, packet, moved>>

Keys == {"oui_vendor", "dhcp_hostname", "user_agent_info", "mdns_json", "ssdp_json"}
Facts == Names \cup Agents \cup Adverts \cup {"vendor"}

\* What is known of a packet after the comparison, and after the gateway's flag was
\* determined.
ArpPackets == [stage : {"arp"}, mac : Macs, ip : Ips \ {ZeroIp}]
RowPackets == [stage : {"row"}, mac : Macs, ip : Ips \ {ZeroIp}, gateway : BOOLEAN]
DhcpPackets == [stage : {"dhcp"}, mac : Macs, ip : Ips, name : Names]

\* The types.  packet is a set of at most one, the rows of unlisted devices hold
\* the values a new row begins with.
TypeOK ==
  /\ conf \in Confs
  /\ listed \subseteq Macs
  /\ ip_address \in [Macs -> Ips]
  /\ is_inspected \in [Macs -> BOOLEAN]
  /\ is_gateway \in [Macs -> BOOLEAN]
  /\ metadata \in [Macs -> [Keys -> Facts \cup {Null}]]
  /\ packet \subseteq ArpPackets \cup RowPackets \cup DhcpPackets
  /\ \A p, q \in packet : p = q
  /\ moved \in BOOLEAN
  /\ \A m \in Macs \ listed :
       /\ is_inspected[m] = InspectByDefault
       /\ ~is_gateway[m]
       /\ metadata[m] = [k \in Keys |-> Null]

DevicesInit ==
  /\ conf \in Confs
  /\ listed = {}
  /\ ip_address = [m \in Macs |-> ZeroIp]
  /\ is_inspected = [m \in Macs |-> InspectByDefault]
  /\ is_gateway = [m \in Macs |-> FALSE]
  /\ metadata = [m \in Macs |-> [k \in Keys |-> Null]]
  /\ packet = {}
  /\ moved = FALSE

-----------------------------------------------------------------------------
(* The packet processor: one thread, one packet at a time.                 *)

\* The comparison let packet p through.
Accept(p) ==
  /\ packet = {}
  /\ packet' = {p}
  /\ moved' = FALSE
  /\ UNCHANGED <<conf, columns>>

\* Mutation: packets sent from 0.0.0.0 are not ignored.
ArpCompare_Probes(m, i) ==
  /\ m # conf.mac
  /\ Accept([stage |-> "arp", mac |-> m, ip |-> i])

\* process_arp up to global_state_lock; m and i are hwsrc and psrc.
ArpCompare(m, i) ==
  /\ m # conf.mac
  /\ i # ZeroIp
  /\ Accept([stage |-> "arp", mac |-> m, ip |-> i])

\* The section of process_arp that holds global_state_lock.
ArpClassify(p) ==
  /\ p.stage = "arp"
  /\ packet' = {[stage |-> "row", mac |-> p.mac, ip |-> p.ip,
                 gateway |-> p.ip = conf.gateway]}
  /\ UNCHANGED <<conf, columns, moved>>

\* Mutation: DHCP packets of the host itself are not ignored.
DhcpCompare_OwnPackets(m, i, name) ==
  Accept([stage |-> "dhcp", mac |-> m, ip |-> i, name |-> name])

\* process_dhcp up to rw_lock: a broadcast that names its sender; the source address
\* is the one the device has at the time, if any.
DhcpCompare(m, i, name) ==
  /\ m # conf.mac
  /\ Accept([stage |-> "dhcp", mac |-> m, ip |-> i, name |-> name])

\* Mutation: an address belongs to one row, its former owner's is replaced.
Upsert_Unique(m, i) ==
  /\ listed' = {n \in listed : ip_address[n] # i} \cup {m}
  /\ ip_address' = [ip_address EXCEPT ![m] = i]

\* Insert device m, or update the address of its row.
Upsert(m, i) ==
  /\ listed' = listed \cup {m}
  /\ ip_address' = [ip_address EXCEPT ![m] = i]

\* The packet is processed.
Processed == packet' = {} /\ moved' = FALSE

\* Mutation: INSERT OR REPLACE, which makes a new row of the old one.
ArpUpsert_Replaces(p) ==
  /\ p.stage = "row"
  /\ Upsert(p.mac, p.ip)
  /\ is_gateway' = [is_gateway EXCEPT ![p.mac] = p.gateway]
  /\ is_inspected' = [is_inspected EXCEPT ![p.mac] = InspectByDefault]
  /\ metadata' = [m \in Macs |->
       IF m \in listed' /\ metadata[m]["oui_vendor"] = Null
       THEN [metadata[m] EXCEPT !["oui_vendor"] = "vendor"]
       ELSE metadata[m]]
  /\ Processed
  /\ UNCHANGED conf

\* Mutation: ON CONFLICT does not lower the gateway's flag.
ArpUpsert_KeepsFlag(p) ==
  /\ p.stage = "row"
  /\ Upsert(p.mac, p.ip)
  /\ is_gateway' = [is_gateway EXCEPT ![p.mac] = @ \/ p.gateway]
  /\ metadata' = [m \in Macs |->
       IF m \in listed' /\ metadata[m]["oui_vendor"] = Null
       THEN [metadata[m] EXCEPT !["oui_vendor"] = "vendor"]
       ELSE metadata[m]]
  /\ Processed
  /\ UNCHANGED <<conf, is_inspected>>

\* The two statements that process_arp executes under rw_lock.  The second looks
\* up the vendor of every row that has none.
ArpUpsert(p) ==
  /\ p.stage = "row"
  /\ Upsert(p.mac, p.ip)
  /\ is_gateway' = [is_gateway EXCEPT ![p.mac] = p.gateway]
  /\ metadata' = [m \in Macs |->
       IF m \in listed' /\ metadata[m]["oui_vendor"] = Null
       THEN [metadata[m] EXCEPT !["oui_vendor"] = "vendor"]
       ELSE metadata[m]]
  /\ Processed
  /\ UNCHANGED <<conf, is_inspected>>

\* The statement of process_dhcp.
DhcpUpsert(p) ==
  /\ p.stage = "dhcp"
  /\ Upsert(p.mac, p.ip)
  /\ metadata' = [metadata EXCEPT ![p.mac]["dhcp_hostname"] = p.name]
  /\ Processed
  /\ UNCHANGED <<conf, is_inspected, is_gateway>>

\* process_http_user_agent: updates the sender's row if there is one.
HttpUserAgent(m, agent) ==
  /\ packet = {}
  /\ m \in listed
  /\ metadata' = [metadata EXCEPT ![m]["user_agent_info"] = agent]
  /\ UNCHANGED <<conf, listed, ip_address, is_inspected, is_gateway, packet, moved>>

-----------------------------------------------------------------------------
(* The discoveries, the network information and the user.                  *)

\* Mutation: what is known already is overwritten.
Advertise_Overwrites(key, found) ==
  /\ metadata' = [m \in Macs |->
       IF m \in listed /\ ip_address[m] \in DOMAIN found
       THEN [metadata[m] EXCEPT ![key] = found[ip_address[m]]]
       ELSE metadata[m]]
  /\ UNCHANGED <<conf, listed, ip_address, is_inspected, is_gateway, packet, moved>>

\* Write what was found at each address to the rows that have that address and
\* do not have the key.
Advertise(key, found) ==
  /\ metadata' = [m \in Macs |->
       IF /\ m \in listed
          /\ ip_address[m] \in DOMAIN found
          /\ metadata[m][key] = Null
       THEN [metadata[m] EXCEPT ![key] = found[ip_address[m]]]
       ELSE metadata[m]]
  /\ UNCHANGED <<conf, listed, ip_address, is_inspected, is_gateway, packet, moved>>

\* One round of mdns_discovery.start writes all its findings under one lock.
MdnsWrite ==
  \E addresses \in SUBSET (Ips \ {ZeroIp}) :
    \E found \in [addresses -> Adverts] : Advertise("mdns_json", found)

\* ssdp_discovery.start takes the lock for every device it finds.
SsdpWrite(i, advert) ==
  /\ i # ZeroIp
  /\ Advertise("ssdp_json", [address \in {i} |-> advert])

\* update_network_info publishes all its findings under one lock.
UpdateNetworkInfo ==
  /\ conf' \in Confs
  /\ moved' = (packet # {} /\ (moved \/ conf'.mac # conf.mac))
  /\ UNCHANGED <<columns, packet>>

\* The user selects or deselects a device in the program that uses the library.
UserToggles(m) ==
  /\ m \in listed
  /\ is_inspected' = [is_inspected EXCEPT ![m] = ~@]
  /\ UNCHANGED <<conf, listed, ip_address, is_gateway, metadata, packet, moved>>

-----------------------------------------------------------------------------

\* The steps that hold rw_lock, and those that do not.
TableStep ==
  \/ \E p \in packet : ArpUpsert(p) \/ DhcpUpsert(p)
  \/ \E m \in Macs :
       \/ \E agent \in Agents : HttpUserAgent(m, agent)
       \/ UserToggles(m)
  \/ MdnsWrite
  \/ \E i \in Ips, advert \in Adverts : SsdpWrite(i, advert)

OtherStep ==
  \/ \E m \in Macs, i \in Ips :
       ArpCompare(m, i) \/ \E name \in Names : DhcpCompare(m, i, name)
  \/ \E p \in packet : ArpClassify(p)
  \/ UpdateNetworkInfo

DevicesNext == TableStep \/ OtherStep

DevicesSpec == DevicesInit /\ [][DevicesNext]_deviceVars

-----------------------------------------------------------------------------
(* Properties.                                                             *)

\* "Ignoring those sent by the Inspector host" (process_arp; process_dhcp says the
\* like): no packet makes a row for the host's own hardware address or changes the
\* address in it, unless the host changed to that hardware address while the very
\* packet was being processed: the address is read once, without a lock, and
\* neither at the gateway's flag nor at the row is it read again.
OwnPacketsIgnored ==
  [][\A m \in Macs :
       m \in listed' \ listed \/ ip_address'[m] # ip_address[m]
         => m # conf.mac \/ moved]_deviceVars

\* No writer forgets: rows stay, what is known of a device stays known, what mDNS
\* and SSDP told first stays, and only the user changes what is inspected.
KnowledgeKept ==
  [][\A m \in listed :
       /\ m \in listed'
       /\ \A k \in Keys : metadata[m][k] # Null => metadata'[m][k] # Null
       /\ \A k \in {"oui_vendor", "mdns_json", "ssdp_json"} :
            metadata[m][k] # Null => metadata'[m][k] = metadata[m][k]
       /\ is_inspected'[m] # is_inspected[m] => UserToggles(m)]_deviceVars

\* Who only looks up addresses sees an address book: all the writers together add
\* machines and change the address of one at a time, and none is ever missing again.
Book == INSTANCE Addresses WITH
  Leases <- Macs \X Ips,
  Unlisted <- Null,
  addressOf <- [m \in Macs |-> IF m \in listed THEN ip_address[m] ELSE Null]

ImplementsAddresses == Book!AddressSpec
=============================================================================
