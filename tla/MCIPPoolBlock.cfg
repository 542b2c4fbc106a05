\* 0.0.0.2/28: thirteen usable addresses, so that the second assignment of a
\* call fails and one address is returned on its own.
CONSTANTS
  SubnetFirst = 0
  SubnetLast = 15
  StartIP = 2
  SiloIDs = {1, 2, 3, 4}
  MaxOverrun = 6
SPECIFICATION PoolSpec
INVARIANT SliceIsABlock
