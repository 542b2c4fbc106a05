\* A silo is stopped while the metadata service closes.
SPECIFICATION FairSpec
CONSTANTS
  SubnetFirst = 0
  SubnetLast = 15
  StartIP = 5
  MaxOverrun = 4
  SiloIDs = {i1}
  Names = {n1}
  None = None
  Faults <- NoFaults
  SiloDir = TRUE
  Requests <- Plain
  Interrupts = TRUE
CHECK_DEADLOCK FALSE
PROPERTY ShutdownEnds
