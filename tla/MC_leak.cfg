\* The callback overtakes the update to Running.
SPECIFICATION Spec
CONSTANTS
  t1 = t1
  t2 = t2
  c1 = c1
  c2 = c2
  c3 = c3
  Tasks = {t1}
  Claims = {c1}
  NoClaim = NoClaim
  NoTask = NoTask
  Valid = {t1}
  Accepted = {t1}
  MaxRetries = 0
  MaxTries = 1
  MaxFaults = 0
  MaxCrashes = 0
INVARIANTS
  CompletedTaskLeavesNoSandbox
CHECK_DEADLOCK FALSE
