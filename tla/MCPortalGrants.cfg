\* One known device, two requests at once.
INIT Init
NEXT Next
CONSTANTS
  m1 = m1
  m2 = m2
  Macs = {m1}
  IPs = {i1}
  Handlers = {h1, h2}
  None = None
  Known <- M1Known
  HookMode = TRUE
  Ops = {"connect", "maintenance"}
  PaidMB = 1
  FreeMB = 1
  ShareMB = 1
  MaxTraffic = 0
  MaxSessions = 3
  MaxEvents = 4
  MaxClock = 0
INVARIANT OneGrantPerWindow
