CONSTANTS
  d1 = d1
  s1 = s1
  stray = stray
  Deals = {d1}
  SellerOf <- MCSellerOf
  Expected <- MCExpected
  Amounts = {9}
  Rates <- MCRates
  NoRate = NoRate
  Calls = {c1, c2, op}
  NoCall = NoCall
  NoDeal = NoDeal
  MaxPayouts = 1
  Couriers = {manual}
  Words <- MCWords
  Mappings <- MCMappings
  Batches = {"b1", "b2", "b3"}
  Files <- MCFiles
  NoParcel = NoParcel
  NoStatus = NoStatus
  NoFile = NoFile
  MaxTries = 2
  Settings <- Apart
  c1 = c1
  c2 = c2
  op = op
SPECIFICATION DeliveryFairSpec
INVARIANTS
  LedgerIsSound
  RoadIsRecorded
  GoodsAndDebtsAgree
  CashIsMatchedOnce
PROPERTIES
  DeliveryIsBookedOrParked
