SPECIFICATION GroupFairSpec
CONSTANTS
  Committers = {c1, c2, c3}
  MaxSeq = 4
  FsyncFails = TRUE
INVARIANTS
  AckedDurable
  SleeperHasLeader
PROPERTIES
  EveryWaiterReturns
