\* Liveness through one restart, without retries or failed calls.
SPECIFICATION FairSpec
CONSTANTS
  t1 = t1
  t2 = t2
  c1 = c1
  c2 = c2
  c3 = c3
  Tasks = {t1}
  Claims = {c1, c2}
  NoClaim = NoClaim
  NoTask = NoTask
  Valid = {t1}
  Accepted = {t1}
  MaxRetries = 0
  MaxTries = 2
  MaxFaults = 0
  MaxCrashes = 1
PROPERTIES
  EventuallyAtRest
CHECK_DEADLOCK FALSE
