---------------------------- MODULE MCGlobalState ----------------------------
(***************************************************************************)
(* Readers of GlobalState in small teams: with two locks a cycle of        *)
(* waiting threads needs no more than two, and what one reader sees does   *)
(* not depend on the others.                                               *)
(***************************************************************************)
EXTENDS GlobalState

MCTeams == {{"arp_spoof", "packet_processor"}, {"arp_scanner"}, {"packet_collector"},
            {"update_hostnames", "ssdp_discovery", "mdns_discovery"}}
=============================================================================
