SPECIFICATION Spec
CONSTANTS
  Txns = {t1}
  Owners = {o1}
  JobSets = {{"flush"}}
  MaxEpoch = 3
  MaxFaults = 0
  NoThread = NoThread
INVARIANTS
  AckedRecoverable
CHECK_DEADLOCK FALSE
