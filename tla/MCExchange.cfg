\* Safety of the trading core: every kind of request, a book of up
\* to three orders.
CONSTANTS
  ETH = ETH
  USDT = USDT
  i1 = i1
  i2 = i2
  Assets <- MCAssets
  Ids <- MCIds
  OrderReqs <- MCOrderReqs
  Batches <- MCBatches
  IdLists <- MCIdLists
  BalanceLists <- MCBalanceLists
  Klines <- MCKlines
  Keep = 1
  Scale = 2
  SignalCap = 2
  MaxOrders = 3
  MaxDebt = 4
SPECIFICATION Spec
\* The exchange and its order tracker can really stop for ever (Wedged).
CHECK_DEADLOCK FALSE
CONSTRAINTS
  NegativeAlone
  OtherFirst
  InService
INVARIANTS
  SignalParity
  ActiveIsFound
  LockedBacksBook
  OpenIsActive
  DoneLeavesBook
PROPERTIES
  OnlyFillsMoveFunds
  FillsNeverFailFirst
