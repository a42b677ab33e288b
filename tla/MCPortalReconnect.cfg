\* Two known devices, one with data, leases from the file.
SPECIFICATION Spec
CONSTANTS
  m1 = m1
  m2 = m2
  Macs = {m1, m2}
  IPs = {i1, i2}
  Handlers = {h1}
  None = None
  Known <- BothKnown
  HookMode = FALSE
  Ops = {"addSession"}
  PaidMB = 1
  FreeMB = 1
  ShareMB = 1
  MaxTraffic = 1
  MaxSessions = 2
  MaxEvents = 4
  MaxClock = 0
PROPERTY ReconnectNeedsData
