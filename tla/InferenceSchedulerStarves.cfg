SPECIFICATION FairSpec
CONSTANTS
  faulty = faulty
  Requests = {long, short1, short2, short3}
  Arrival <- TieArrival
  MaxActive = 4
  DecodeBudget = 2
  PrefillBudget = 0
  MaxPrompt = 0
  MaxTokens = 1
  Long = {long}
  Faulty = {}
  Cancellable = {}
PROPERTIES EveryoneServed
CHECK_DEADLOCK FALSE
