\* Two silos of one or two names; the host may fail at every stage of a start or a stop; no shutdown.
SPECIFICATION Spec
CONSTANTS
  SubnetFirst = 0
  SubnetLast = 15
  StartIP = 5
  MaxOverrun = 4
  SiloIDs = {i1, i2}
  Names = {n1, n2}
  None = None
  Faults <- ServerFaults
  SiloDir = FALSE
  Requests <- Plain
  Interrupts = FALSE
SYMMETRY Symmetry
INVARIANTS
  TypeOK
  LiveSilosAreRegistered
  OneSiloPerName
  CollectorSparesLive
  MetadataCurrent
  CallerIsIdentified
  NamesLeadHome
  ListenersStopBeforeBridge
  StopMeetsListener
  LiveSilosDisjoint
PROPERTIES
  SilosUsePoolProperly
  ImplementsRegistry
