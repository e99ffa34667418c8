\* Three requests of any kind, at once or one after the other.
SPECIFICATION FairSpec
CONSTANTS
  Requests = {1, 2, 3}
  Payloads <- SomePayloads
INVARIANTS
  TypeOK
  LateRequestsAreRefused
  OnlyATaskLocksTheServer
PROPERTIES
  LockedServerEnds
CHECK_DEADLOCK FALSE
