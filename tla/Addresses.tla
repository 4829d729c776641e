------------------------------ MODULE Addresses ------------------------------
(***************************************************************************)
(* What the devices table and the network information are to those who     *)
(* look up an address: every machine that was ever seen has the address it *)
(* was seen with last, nobody is forgotten, and several machines may have  *)
(* one address.  Devices implements this specification; Flows uses it.     *)
(***************************************************************************)

CONSTANTS
  Macs,      \* hardware addresses
  Ips,       \* addresses
  Leases,    \* who may be seen with which address, a set of pairs
  Confs,     \* what update_network_info may find
  Unlisted   \* the address of a machine that has no row

ASSUME AddressesAssumption ==
  /\ Leases \subseteq Macs \X Ips
  /\ Unlisted \notin Ips

VARIABLES
  conf,      \* gateway_ip_addr, host_ip_addr and host_mac_addr
  addressOf  \* the ip_address of every machine's row

addressVars == <<conf, addressOf>>

AddressTypeOK ==
  /\ conf \in Confs
  /\ addressOf \in [Macs -> Ips \cup {Unlisted}]

AddressInit ==
  /\ conf \in Confs
  /\ addressOf = [m \in Macs |-> Unlisted]

\* process_arp or process_dhcp inserts or updates the row of m.
Learn(m, i) ==
  /\ <<m, i>> \in Leases
  /\ addressOf' = [addressOf EXCEPT ![m] = i]
  /\ UNCHANGED conf

\* update_network_info.
Publish ==
  /\ conf' \in Confs
  /\ UNCHANGED addressOf

\* The machines that get_mac_address_from_ip may return; without any it raises
\* KeyError.
Lookup(i) == {m \in Macs : addressOf[m] = i}

AddressNext == Publish \/ \E m \in Macs, i \in Ips : Learn(m, i)

AddressSpec == AddressInit /\ [][AddressNext]_addressVars
=============================================================================
