CONSTANTS
  host = host
  router = router
  dev = dev
  ip1 = ip1
  ip2 = ip2
  hostIp = hostIp
  zero = zero
  Null = null
  ZeroIp = zero
  Macs <- MCMacs
  Ips <- MCIps
  Confs <- MCConfs
  Names = {}
  Agents = {}
  Adverts = {}
  InspectByDefault = FALSE
  SpoofRouter = TRUE
  SpoofDevice = TRUE
  CountCap = 0
SPECIFICATION FairSpec
PROPERTIES TurnComes KeepsSpoofing
