\* A certs file with one line; every bound may be reached, so there are final states.
SPECIFICATION Spec
CONSTANTS
  Users = {u1, u2}
  Keys = {k1, k2}
  Torn = Torn
  None = None
  ConfigFiles <- Configs
  CertsFiles <- OneLine
  KeyPairs <- OnePair
  DefaultWindow = 1
  HostFaults <- AllHostFaults
  MaxTime = 2
  MaxStarts = 2
  MaxCodes = 2
  MaxLines = 2
SYMMETRY Symmetry
CHECK_DEADLOCK FALSE
INVARIANTS
  AccessTypeOK
  EnrolledClientAccepted
  PinSurvivesRestart
  CommandsNeedEnrolment
 
