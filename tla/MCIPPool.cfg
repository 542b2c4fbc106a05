\* A /28 written as 0.0.0.0/28: fifteen usable addresses, three slices and a
\* remainder of three, so that the fourth assignment of a call fails.
CONSTANTS
  SubnetFirst = 0
  SubnetLast = 15
  StartIP = 0
  SiloIDs = {1, 2, 3, 4}
  MaxOverrun = 6
SPECIFICATION PoolSpec
INVARIANTS
  PoolTypeOK
  NoAddressTwice
  OnlyUsableAddresses
  WholeSlicesUntilExhausted
  LossBounded
  RefusesOnlyWhenFull
  SliceIsABlock
