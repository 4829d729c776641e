CONSTANTS
  m1 = m1
  m2 = m2
  ip1 = ip1
  hostIp = hostIp
  zero = zero
  d1 = d1
  d2 = d2
  Null = null
  ZeroIp = zero
  Macs <- MCMacs
  Ips <- MCIps
  Confs <- MCConfs
  Names = {n1}
  Agents = {a1}
  Adverts <- MCAdverts
  InspectByDefault = TRUE
SPECIFICATION DevicesSpec
SYMMETRY MCSymmetry
INVARIANT TypeOK
PROPERTIES OwnPacketsIgnored KnowledgeKept ImplementsAddresses
