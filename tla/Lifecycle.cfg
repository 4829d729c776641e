CONSTANTS
  Callers = {c1, c2}
  Workers = {ssdp, other}
  MayHang = {ssdp}
  Platform = "windows"
SPECIFICATION FairSpec
\* Callers and clean-up come to their end.
CHECK_DEADLOCK FALSE
INVARIANTS TypeOK SingleInstance ForwardingWhileSpoofing
  RestoredUnlessRetried
PROPERTIES CleanupStopsWorkers ImplementsService
