SPECIFICATION FairSpec
CONSTANTS
  faulty = faulty
  Requests = {long, plain, faulty}
  Arrival <- MCArrival
  MaxActive = 2
  DecodeBudget = 2
  PrefillBudget = 1
  MaxPrompt = 1
  MaxTokens = 1
  Long = {long}
  Faulty = {faulty}
  Cancellable = {long, plain, faulty}
INVARIANTS ReleasedOnce IndexExact
PROPERTIES ExpiredEndsWithSweep AdmittedByArrival EveryoneServed
CHECK_DEADLOCK FALSE
