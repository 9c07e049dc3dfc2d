CONSTANTS
  o1 = o1
  s1 = s1
  s2 = s2
  NoSeller = NoSeller
  NoTx = NoTx
  Keys = {k1, k2}
  Orders = {o1}
  SellersOf <- MCSellersOf
SPECIFICATION SagaFairSpec
CHECK_DEADLOCK FALSE
INVARIANTS
  ChargedAtMostOnce
PROPERTIES
  HandedOffIsLeftAlone
  BuyerStatusNeverRegresses
  EndedOrderHasNoLiveWork
