\* Two devices, two addresses, two leases; the file is rewritten, or the mode changed, or a
\* statement fails.
SPECIFICATION Spec
CONSTANTS
  Macs = {m1, m2}
  IPs = {i1, i2}
  None = None
  ChanCap = 1
  MaxGrants = 2
  MaxEvents = 1
INVARIANTS TypeOK CachedWereGranted AcceptedLeasesReachRows FileIsLearned
