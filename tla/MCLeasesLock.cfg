\* The comment of mapToSlice, when the listener of a program that was started in hook mode
\* outlives the switch to file_poll.
SPECIFICATION Spec
CONSTANTS
  Macs = {m1, m2}
  IPs = {i1, i2}
  None = None
  ChanCap = 1
  MaxGrants = 2
  MaxEvents = 1
INVARIANT SlicedUnderLock
