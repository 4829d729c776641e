CONSTANTS
  Callers = {c1, c2}
  Workers = {ssdp, other}
  MayHang = {ssdp}
  Platform = "linux"
SPECIFICATION Spec
CHECK_DEADLOCK FALSE
INVARIANT RedirectsRestored
