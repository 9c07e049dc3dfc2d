SPECIFICATION SearchFairSpec
CONSTANTS
  Topics <- MCTopics
  EventIds <- MCEventIds
  Settings <- TwoFailures
  Products <- MCProducts
  Ghost = 9
  MAX_RETRIES = 2
  BATCH_SIZE = 2
  VISIBILITY_ATTEMPTS = 5
INVARIANTS
  BackedOffIsReread
CHECK_DEADLOCK FALSE
