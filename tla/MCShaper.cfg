\* Two admins, two interfaces, two settings besides the default, three requests and one
\* fault.  Without requests the program has nothing to do.
INIT Init
NEXT Next
SYMMETRY Symmetry
CONSTANTS
  Admins = {a1, a2}
  Main = Main
  Ifaces = {"e1", "e2"}
  Configs <- SomeConfigs
  Default <- DefaultConfig
  None = None
  MaxRequests = 3
  MaxFaults = 1
INVARIANTS TypeOK InForce LoneApplySucceeds
CHECK_DEADLOCK FALSE
