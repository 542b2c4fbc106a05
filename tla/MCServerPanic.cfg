\* A silo ends while the daemon shuts down.
SPECIFICATION Spec
CONSTANTS
  SubnetFirst = 0
  SubnetLast = 15
  StartIP = 5
  MaxOverrun = 4
  SiloIDs = {i1}
  Names = {n1}
  None = None
  Faults <- NoFaults
  SiloDir = TRUE
  Requests <- Plain
  Interrupts = TRUE
CHECK_DEADLOCK FALSE
INVARIANT NoPanic
