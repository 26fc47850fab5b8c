\* Liveness of the trading core.
CONSTANTS
  ETH = ETH
  USDT = USDT
  i1 = i1
  i2 = i2
  Assets <- MCAssets
  Ids <- MCIds
  OrderReqs <- BookOrderReqs
  Batches <- None
  IdLists <- None
  BalanceLists <- LiveBalanceLists
  Klines <- MCKlines
  Keep = 1
  Scale = 2
  SignalCap = 2
  MaxOrders = 2
  MaxDebt = 4
SPECIFICATION FairSpec
\* The exchange and its order tracker can really stop for ever (Wedged).
CHECK_DEADLOCK FALSE
PROPERTIES
  ActionsEnd
  FeedStarts
  CrossedOrderEnds
