SPECIFICATION StorefrontSpec
CONSTANTS
  s1 = s1 s2 = s2 kettle = kettle lamp = lamp
  first = first again = again other = other
  Sellers = {s1, s2}
  Clerks = {1, 2}
  MaxUploads = 2
  MaxTerms = 2
  NoClerkCall = NoClerkCall
  Products = {kettle, lamp}
  OwnerOf <- MCOwner
  Attempts = {first, again}
  OrderKey <- MCKey
  CartOf <- MCCart
  MaxPrices = 2
  VELOCITY = 5
  NoOrder = NoOrder
  NoListing = NoListing
  Settings <- MCSettings
CHECK_DEADLOCK FALSE
INVARIANTS
  ReviewIsHonoured
  NoOrderFromStoppedSeller
  OrderedOnlyWhatWasQuoted
PROPERTIES
  FollowsTransitions
