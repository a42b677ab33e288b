\* Two topups of one device, nothing fails.
SPECIFICATION Spec
CONSTANTS
  Topups = {t1, t2}
  IPs = {i1}
  Devs = {d1}
  Pins = {p1}
  None = None
  ChanCap = 1
  MaxCoins = 1
  MaxTries = 0
  MaxEvents = 0
PROPERTIES TopupsEnd
