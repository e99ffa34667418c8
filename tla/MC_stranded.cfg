\* A retry overtakes the end of the goroutine of the first attempt.
SPECIFICATION Spec
CONSTANTS
  t1 = t1
  t2 = t2
  c1 = c1
  c2 = c2
  c3 = c3
  Tasks = {t1}
  Claims = {c1, c2}
  NoClaim = NoClaim
  NoTask = NoTask
  Valid = {t1}
  Accepted = {t1}
  MaxRetries = 1
  MaxTries = 2
  MaxFaults = 0
  MaxCrashes = 0
SYMMETRY ClaimSymmetry
INVARIANTS
  StartedIsSubmitting
CHECK_DEADLOCK FALSE
