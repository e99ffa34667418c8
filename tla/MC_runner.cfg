\* Two attempts at a task of either type, at once or one after the other, two failures.
SPECIFICATION FairSpec
CONSTANTS
  Attempts = {a1, a2}
  MaxTries = 2
  MaxFaults = 2
  NoAttempt = NoAttempt
INVARIANTS
  TypeOK
  AnnouncedPullIsItsOwn
  OneOpenPullRequest
PROPERTIES
  ImplementsAttempts
  EveryAttemptEnds
CHECK_DEADLOCK FALSE
