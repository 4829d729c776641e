SPECIFICATION FairSpec
CONSTANTS
  host = host
  router = router
  m1 = m1
  m2 = m2
  gate = gate
  gate2 = gate2
  ip1 = ip1
  hostIp = hostIp
  hostIp2 = hostIp2
  server = server
  one = one
  two = two
  NoAddress = NoAddress
  Null = Null
  Unlisted = Unlisted
  Host = host
  Macs <- MCMacs
  Ips <- MCIps
  Leases <- MCLeases
  Confs <- MCConfs
  Frames <- MCFrames
  MaxSecond = 1
INVARIANTS
  TypeOK
  CountedOnce
  TrueEnds
  TrueNames
PROPERTIES
  NamesKept
  AllNamed
