------------------------------ MODULE MCArpSpoof ------------------------------
(* Instances of ArpSpoof: the host, the router and one other device.  The second *)
(* network information makes the other address the gateway's.                    *)
EXTENDS ArpSpoof, TLC

CONSTANTS host, router, dev, ip1, ip2, hostIp, zero

MCMacs == {host, router, dev}
MCIps == {ip1, ip2, zero}
MCConfs == [gateway : {ip1, ip2}, ip : {hostIp}, mac : {host}]

MCSymmetry == Permutations({router, dev}) \cup Permutations({ip1, ip2})
=============================================================================
