\* Two clients and two goroutines, one failed command or crash, a little traffic.
SPECIFICATION Spec
CONSTANTS
  IPs = {ip1, ip2}
  Threads = {t1, t2}
  NoThread = NoThread
  NoIP = NoIP
  MaxFaults = 1
  MaxBytes = 1
INVARIANTS TypeOK MutualExclusion DuplicatesNeedFaults AddedClientHasUplink NeverOverbilled AllOrNothing
PROPERTIES ImplementsAccessSet CallsReturn
