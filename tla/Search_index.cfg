SPECIFICATION SearchFairSpec
CONSTANTS
  Topics <- MCTopics
  EventIds <- MCEventIds
  Settings <- Normal
  Products <- MCProducts
  Ghost = 9
  MAX_RETRIES = 2
  BATCH_SIZE = 2
  VISIBILITY_ATTEMPTS = 5
CHECK_DEADLOCK FALSE
INVARIANTS
  QuietIndexIsTrue
  LettersAreAccountedFor
  ReindexIsComplete
PROPERTIES
  VisibilitySettles
