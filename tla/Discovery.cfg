SPECIFICATION FairSpec
CONSTANTS
  m1 = m1
  m2 = m2
  ip1 = ip1
  ip2 = ip2
  both = both
  alone = alone
  Null = Null
  Unlisted = Unlisted
  Macs <- MCMacs
  Ips <- MCIps
  Leases <- MCLeases
  Types <- MCTypes
  Providers <- MCProviders
  Watched = {m2}
  Reticent = {m2}
  MaxAnswers = 3
  Confs = {network}
INVARIANTS
  TypeOK
  TrueEntries
PROPERTIES
  StopEnds
CHECK_DEADLOCK FALSE
