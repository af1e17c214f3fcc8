SPECIFICATION Spec
CONSTANTS
  Txns = {t1, t2}
  Owners = {o1}
  JobSets = {{"commit", "flush", "compact"}, {"flush", "gc"}, {"commit", "compact", "checkpoint", "gc"}}
  MaxEpoch = 4
  MaxFaults = 1
  NoThread = NoThread
INVARIANT LostOnlyIfMissed
INVARIANT VisibleRowsLive
INVARIANT LiveRowsDurable
INVARIANT QuietTableSafe
SYMMETRY TxnSymmetry
CHECK_DEADLOCK FALSE
VIEW View
