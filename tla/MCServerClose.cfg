\* Shutdown at any point of one silo, whose listeners may fail to bind; the daemon ends, so there are final states.
SPECIFICATION FairSpec
CONSTANTS
  SubnetFirst = 0
  SubnetLast = 15
  StartIP = 5
  MaxOverrun = 4
  SiloIDs = {i1}
  Names = {n1}
  None = None
  Faults <- BindFault
  SiloDir = TRUE
  Requests <- Plain
  Interrupts = TRUE
CHECK_DEADLOCK FALSE
PROPERTIES
  CloseLoopStopsAll
  ShutdownEndsUnlessMidEvent
