CONSTANTS
  p1 = p1
  p2 = p2
  unlisted = unlisted
  Products <- MCProducts
  Listed <- MCListed
  Orders = {o1, o2}
  NoOrder = NoOrder
  Keys = {k1, k2, k3}
  Quantities = {1, 2}
  InitialStock <- MCInitialStock
  Workers = {w1, w2}
  NoRow = NoRow
  Overlap = TRUE
SPECIFICATION FairSpec
CHECK_DEADLOCK FALSE
INVARIANTS
  StockConserved
PROPERTIES
  RequestsFinish
