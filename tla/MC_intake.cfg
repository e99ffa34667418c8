\* One failed call and one restart while two deliveries are handled.
SPECIFICATION FairSpec
CONSTANTS
  Threads = {7, 8}
  PullRequests = {8}
  Foreign <- Incomplete
  PerPage = 1
  MaxDeliveries = 2
  MaxRedeliveries = 1
  MaxComments = 2
  MaxFaults = 1
  MaxCrashes = 1
  NoEvent = NoEvent
  NoTask = NoTask
INVARIANTS
  TypeOK
  TasksAreRunnable
  PromptHoldsTheMention
  AnswersAreTrue
  OneTaskPerDelivery
PROPERTIES
  EveryRequestIsAnswered
CHECK_DEADLOCK FALSE
