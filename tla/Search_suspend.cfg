SPECIFICATION SearchFairSpec
CONSTANTS
  Topics <- MCTopics
  EventIds <- MCEventIds
  Settings <- Suspended
  Products <- MCProducts
  Ghost = 9
  MAX_RETRIES = 2
  BATCH_SIZE = 2
  VISIBILITY_ATTEMPTS = 5
INVARIANTS
  SuspendedIsHidden
CHECK_DEADLOCK FALSE
