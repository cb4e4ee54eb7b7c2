SPECIFICATION Spec
CONSTANTS
  Jobs = {j1, j2}
  Configs = {a, b}
  MaxEntries = 2
  MaxTickets = 2
  Faults = {"store"}
  Crashes = {"power"}
INVARIANTS JournalsLoad AtMostOnce ClaimIsDurable AcknowledgedIntentSurvives RunsWhatWasEnqueued
PROPERTIES TicketPromise
CHECK_DEADLOCK FALSE
