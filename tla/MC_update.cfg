\* One task, a new orchestrator beside the old one, and no failed calls.
SPECIFICATION Spec
CONSTANTS
  Tasks = {t1}
  Claims = {c1, c2}
  NoClaim = NoClaim
  NoTask = NoTask
  Valid = {t1}
  Accepted = {t1}
  MaxRetries = 0
  MaxTries = 1
  MaxFaults = 0
  MaxCrashes = 0
  MaxOverlap = 2
SYMMETRY ClaimSymmetry
PROPERTIES
  CompletedIsFinal
  RecordedClaimReleased
  ImplementsLifecycle
CHECK_DEADLOCK FALSE
