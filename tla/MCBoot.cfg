\* One silo, its daemon and its child; the daemon may die, so there are final states.
SPECIFICATION Spec
CONSTANTS
  SubnetFirst = 0
  SubnetLast = 15
  StartIP = 4
  MaxOverrun = 4
  SiloIDs = {s1}
  self = s1
  MaxPolls = 3
  Faults <- AllFaults
  SiloDir = TRUE
  Requests <- AllRequests
CHECK_DEADLOCK FALSE
INVARIANTS
  BootTypeOK
  InternetWhenStarted
  RouteNeverTooEarly
PROPERTIES
  BootImplementsSilo
  BootSettles
