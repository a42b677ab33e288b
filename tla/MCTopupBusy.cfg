\* Two requests that both pass the busy check.
INIT Init
NEXT Next
SYMMETRY Symmetry
CONSTANTS
  Topups = {t1, t2}
  IPs = {i1}
  Devs = {d1, d2}
  Pins = {p1, p2}
  None = None
  ChanCap = 1
  MaxCoins = 1
  MaxTries = 1
  MaxEvents = 0
INVARIANTS BusyDuringSession
