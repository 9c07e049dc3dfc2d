CONSTANTS
  Dispatchers = {d1, d2}
  Length = 2
  BATCH_SIZE = 1
  MAX_ATTEMPTS = 3
  MaxWait = 2
  MaxDeaths = 1
  SlowHandlers = FALSE
SPECIFICATION DispatchFairSpec
INVARIANTS
  OneHolder
  OutboxTellsTheTruth
PROPERTIES
  EveryCommandLeavesTheQueue
