\* One slice of addresses, and starts that may fail at every stage but that of the process: what every silo comes to.
SPECIFICATION FairSpec
CONSTANTS
  SubnetFirst = 0
  SubnetLast = 15
  StartIP = 9
  MaxOverrun = 4
  SiloIDs = {i1, i2}
  Names = {n1}
  None = None
  Faults <- SetupOnlyFaults
  SiloDir = FALSE
  Requests <- Limited
  Interrupts = FALSE
INVARIANTS
  RegisteredIsWatched
  UnregisteredReleased
  AddressesAccountedFor
PROPERTY ExitedSiloCollected
