\* Two admins.
INIT Init
NEXT Next
CONSTANTS
  Ifaces = {"wlan0", "eth0"}
  Wlan0 = "wlan0"
  NetIface = "wlan0"
  IPs = {"10.0.0.1", "10.0.0.2"}
  LanIP = "10.0.0.1"
  Ranges = {"r1", "r0"}
  DefaultRange = "r0"
  None = None
  Admins = {a1, a2}
  Main = main
  Passwords = {p1, p2}
  RateTables <- Tables
  Pins = {g0, g1}
  DefaultPins = g0
  NetRequests <- Submissions
  RoleLists <- WanAndLan
  FirstNet <- Installed
  FirstDhcpd <- Packaged
  MaxAmount = 12
  MaxSessions = 1
  MaxRequests = 3
  MaxFaults = 1
CHECK_DEADLOCK FALSE
INVARIANTS TypeOK SettingsInForce ModeSurvives TokensStayValid HookInstalled NetworkInForce CreditIsGreedy
PROPERTY OnlyFirstLoginInits
