----------------------------- MODULE MCDiscovery -----------------------------
(***************************************************************************)
(* An instance of Discovery: both machines provide one type, the second    *)
(* alone another.  It may take over the address of the first, and tells no *)
(* properties.                                                             *)
(***************************************************************************)
EXTENDS Discovery

CONSTANTS m1, m2, ip1, ip2, both, alone

MCMacs == {m1, m2}
MCIps == {ip1, ip2}
MCLeases == {<<m1, ip1>>, <<m2, ip1>>, <<m2, ip2>>}
MCTypes == {both, alone}
MCProviders == [t \in MCTypes |-> IF t = both THEN MCMacs ELSE {m2}]
=============================================================================
