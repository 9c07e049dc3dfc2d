CONSTANTS
  Dispatchers = {d1}
  Length = 1
  BATCH_SIZE = 1
  MAX_ATTEMPTS = 2
  MaxWait = 2
  MaxDeaths = 1
  SlowHandlers = FALSE
SPECIFICATION DispatchSpec
INVARIANTS
  ProcessedMeansDone
