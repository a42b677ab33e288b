\* One known device at two addresses, two requests at once, leases from the file.
SPECIFICATION Spec
CONSTANTS
  m1 = m1
  m2 = m2
  Macs = {m1}
  IPs = {i1, i2}
  Handlers = {h1, h2}
  None = None
  Known <- M1Known
  HookMode = FALSE
  Ops = {"connect", "credit", "cancel", "share", "merge", "addSession",
         "block", "clear", "delSession", "maintenance"}
  PaidMB = 1
  FreeMB = 1
  ShareMB = 1
  MaxTraffic = 1
  MaxSessions = 2
  MaxEvents = 3
  MaxClock = 1
INVARIANTS TypeOK RowsFollowLeases
PROPERTIES EventuallyOnline NoFreeRide LockdownWins
