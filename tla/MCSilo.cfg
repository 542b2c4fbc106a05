\* Two silos, every host operation may fail.  5..14 are the usable addresses:
\* two slices, so that the pool runs out and addresses are reused.
CONSTANTS
  SubnetFirst = 0
  SubnetLast = 15
  StartIP = 5
  MaxOverrun = 4
  SiloIDs = {1, 2}
  SiloDir = FALSE
  Faults <- AllFaults
  Requests <- TwoRequests
SPECIFICATION SiloSpec
INVARIANTS
  SiloTypeOK
  LiveSilosDisjoint
  InterfaceKeepsAddresses
PROPERTY SilosUsePoolProperly
