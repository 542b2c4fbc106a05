\* One silo whose program may end while it is being started; nothing else fails.
CONSTANTS
  SubnetFirst = 0
  SubnetLast = 15
  StartIP = 5
  MaxOverrun = 4
  SiloIDs = {1}
  SiloDir = FALSE
  Faults <- NoFaults
  Requests <- Plain
SPECIFICATION SiloSpec
INVARIANT FreeAddressesVacant
