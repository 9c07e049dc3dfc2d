CONSTANTS
  big = big
  small = small
  odd = odd
  s1 = s1
  s2 = s2
  p1 = p1
  p2 = p2
  p3 = p3
  Orders = {big, small, odd}
  Listed = {p1, p2}
  InitialStock <- OneUnit
  Lines <- MCLines
  SellersOf <- MCSellersOf
  Settings <- Mixed
  MAX_ATTEMPTS = 2
  NoSeller = NoSeller
  NoOrder = NoOrder
  NoTx = NoTx
  NoRow = NoRow
  NoRefund = NoRefund
SPECIFICATION CheckoutSpec
CHECK_DEADLOCK FALSE
INVARIANTS
  CommittedGoodsAreHeld
  OnlyDeliveredGoodsAreConsumed
  UnchargedOrderHoldsNothing
  MoneyFollowsTheOrder
