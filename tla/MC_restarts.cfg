\* One restart of the orchestrator or of the listener anywhere in the lives of two tasks.
SPECIFICATION Spec
CONSTANTS
  t1 = t1
  t2 = t2
  c1 = c1
  c2 = c2
  c3 = c3
  Tasks = {t1, t2}
  Claims = {c1, c2}
  NoClaim = NoClaim
  NoTask = NoTask
  Valid = {t1}
  Accepted = {t1}
  MaxRetries = 1
  MaxTries = 2
  MaxFaults = 0
  MaxCrashes = 1
SYMMETRY ClaimSymmetry
INVARIANTS
  NoMissedWork
  OneCommentPerAttempt
  NoForgottenSandbox
  AnsweredWhenCompleted
CHECK_DEADLOCK FALSE
