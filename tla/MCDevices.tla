------------------------------ MODULE MCDevices ------------------------------
(* An instance of Devices: two machines, either of which may be the host as it *)
(* changes its interface, on a network with one other address, the gateway's;   *)
(* ArpSpoof is checked with more addresses and with a gateway that moves.      *)
EXTENDS Devices, TLC

CONSTANTS m1, m2, ip1, hostIp, zero, d1, d2

MCMacs == {m1, m2}
MCIps == {ip1, zero}
MCAdverts == {d1, d2}
MCConfs == [gateway : {ip1}, ip : {hostIp}, mac : MCMacs]
MCSymmetry ==
  Permutations({m1, m2}) \cup Permutations({d1, d2})
=============================================================================
