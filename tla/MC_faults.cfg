\* One failed call, broken connection, lost pod or lost token anywhere in the
\* life of a task that may be retried once.
SPECIFICATION Spec
CONSTANTS
  t1 = t1
  t2 = t2
  c1 = c1
  c2 = c2
  c3 = c3
  Tasks = {t1}
  Claims = {c1, c2}
  NoClaim = NoClaim
  NoTask = NoTask
  Valid = {t1}
  Accepted = {t1}
  MaxRetries = 1
  MaxTries = 1
  MaxFaults = 1
  MaxCrashes = 0
SYMMETRY ClaimSymmetry
INVARIANTS
  TypeOK
  SnapshotsCoherent
  RecordedSandboxIsOwn
  AnsweredWhenCompleted
PROPERTIES
  CompletedIsFinal
  RecordedClaimReleased
  CompletedByItsAttempt
  ImplementsLifecycle
CHECK_DEADLOCK FALSE
