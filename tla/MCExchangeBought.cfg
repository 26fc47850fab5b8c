\* An order filled alone by a kline is later found CANCELED.
CONSTANTS
  ETH = ETH
  USDT = USDT
  i1 = i1
  i2 = i2
  Assets <- MCAssets
  Ids <- MCIds
  OrderReqs <- MCOrderReqs
  Batches <- MCBatches
  IdLists <- MCIdLists
  BalanceLists <- MCBalanceLists
  Klines <- MCKlines
  Keep = 1
  Scale = 2
  SignalCap = 2
  MaxOrders = 2
  MaxDebt = 4
SPECIFICATION Spec
\* The exchange and its order tracker can really stop for ever (Wedged).
CHECK_DEADLOCK FALSE
PROPERTIES
  BoughtStaysBought
