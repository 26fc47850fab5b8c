----------------------------- MODULE MCExchange -----------------------------
(***************************************************************************)
(* Instances of Exchange for TLC: one market, ETH against USDT.            *)
(***************************************************************************)
EXTENDS Exchange

CONSTANTS ETH, USDT, i1, i2

Order(id, side, price, quantity, valid) ==
  [id |-> id, side |-> side, price |-> price, quantity |-> quantity,
   base |-> ETH, quote |-> USDT, valid |-> valid, named |-> TRUE]

Buy1  == Order(i1, "BUY", 2, 1, TRUE)
Sell2 == Order(i2, "SELL", 1, 2, TRUE)
Buy2  == Order(i2, "BUY", 1, 2, TRUE)
Bad   == Order(i2, "BUY", 1, 1, FALSE)
Minus == Order(i2, "BUY", 1, -2, TRUE)
Other == Order(i1, "OTHER", 2, 1, TRUE)
Short == [Order(i1, "BUY", 2, 1, TRUE) EXCEPT !.named = FALSE]

Entry(name, free, locked) == [name |-> name, free |-> free, locked |-> locked]

MCAssets == {ETH, USDT}
MCIds == {i1, i2}
MCOrderReqs == {Buy1, Sell2, Bad, Minus, Other, Short}
MCBatches == {<<Buy1, Sell2>>, <<Bad, Buy1>>}
MCIdLists == {<<i1, i2>>}
MCBalanceLists ==
  {<<Entry(USDT, 4, 0)>>, <<Entry(ETH, 4, 0)>>, <<Entry(ETH, 2, 0), Entry(USDT, 4, 0)>>}
MCKlines == {[low |-> 1, high |-> 2], [low |-> 3, high |-> 3]}

(* Bound: what follows another irregular event is left out once an order   *)
(* with a negative amount was added.                                       *)
NegativeAlone == "negative" \in mishaps => mishaps = {"negative"}

(* Bound: an order that is neither a buy nor a sell is the first one, and  *)
(* at most one order follows it.                                           *)
OtherFirst == \A h \in DOMAIN orders : orders[h].side = "OTHER" => h = 1 /\ orderSequence <= 2

(* Bound: for safety, nothing is looked at that follows a cancelled        *)
(* context, the end of the price connection or a panic: they take steps    *)
(* away and give none.                                                     *)
InService == ~mute /\ ~cancelled /\ pc # "panicked"

(* One buy and one sell, for liveness; every kline crosses Sell2, which    *)
(* has its funds.                                                          *)
BookOrderReqs == {Buy1, Sell2, Short}
None == {}
LiveBalanceLists == {<<Entry(ETH, 4, 0)>>}
=============================================================================
