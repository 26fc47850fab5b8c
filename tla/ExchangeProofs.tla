--------------------------- MODULE ExchangeProofs ---------------------------
(***************************************************************************)
(* Theorems about the trading core of one client, and about the clock that *)
(* stamps its orders, for every value of the constants.                    *)
(***************************************************************************)
EXTENDS Exchange, OrderClock, DataLemmas

USE BalanceListsAssumption, SignalCapAssumption, OrderReqsAssumption,
    OrderAmountsAssumption, ScaleAssumption, BatchesAssumption, IdListsAssumption

-----------------------------------------------------------------------------
(* Lemmas about the operators.                                             *)

(* One more or one less toggles the parity. *)
LEMMA OddFlip ==
  ASSUME NEW n \in Nat
  PROVE  Odd(n + 1) <=> ~Odd(n)
BY DEF Odd

(* The amounts of an order are integers, its assets are assets. *)
LEMMA AmountTypes ==
  ASSUME NEW o \in OrderReqs
  PROVE  /\ Hold(o) \in Int
         /\ Gain(o) \in Int
         /\ HoldAsset(o) \in Assets
         /\ GainAsset(o) \in Assets
<1>1. o.price \in Int /\ o.quantity \in Int /\ o.base \in Assets /\ o.quote \in Assets
  OBVIOUS
<1>2. Total(o) \in Int
  BY <1>1 DEF Total
<1>3. Scale \in Int /\ Keep \in Int
  OBVIOUS
<1>4. QED
  BY <1>1, <1>2, <1>3 DEF Hold, Gain, HoldAsset, GainAsset

(* Adjusting an asset by integers keeps balances balances. *)
LEMMA AdjustedType ==
  ASSUME NEW b \in [Assets -> Asset], NEW a \in Assets,
         NEW f \in Int, NEW l \in Int
  PROVE  Adjusted(b, a, f, l) \in [Assets -> Asset]
BY DEF Adjusted, Asset

(* So does the transaction on the held asset. *)
LEMMA HoldLegType ==
  ASSUME BalanceTypeOK, NEW o \in OrderReqs, NEW st \in {"NEW", "FILLED", "CANCELED"}
  PROVE  HoldLeg(o, st) \in [Assets -> Asset]
<1> DEFINE H == Hold(o)
<1>1. H \in Int /\ -H \in Int /\ 0 \in Int /\ HoldAsset(o) \in Assets
  BY AmountTypes
<1>2. bal \in [Assets -> Asset]
  BY DEF BalanceTypeOK
<1>3. /\ Adjusted(bal, HoldAsset(o), -H, H) \in [Assets -> Asset]
      /\ Adjusted(bal, HoldAsset(o), 0, -H) \in [Assets -> Asset]
      /\ Adjusted(bal, HoldAsset(o), H, -H) \in [Assets -> Asset]
  <2> HIDE DEF H
  <2> QED
    BY <1>1, <1>2, AdjustedType
<1> QED
  BY <1>3, Zenon DEF HoldLeg

(* A balance update keeps balances balances. *)
LEMMA UpdateBalanceType ==
  ASSUME BalanceTypeOK, NEW o \in OrderReqs,
         NEW st \in {"NEW", "FILLED", "CANCELED"},
         UpdateBalance(o, st)
  PROVE  BalanceTypeOK'
<1>1. HoldLeg(o, st) \in [Assets -> Asset]
  BY HoldLegType
<1>2. ASSUME st = "FILLED"
      PROVE  GainLeg(o) \in [Assets -> Asset]
  <2>1. HoldLeg(o, "FILLED") \in [Assets -> Asset]
    BY HoldLegType
  <2>2. Gain(o) \in Int /\ 0 \in Int /\ GainAsset(o) \in Assets
    BY AmountTypes
  <2>3. QED
    BY <2>1, <2>2, AdjustedType DEF GainLeg
<1>3. bal' \in [Assets -> Asset]
  BY <1>1, <1>2 DEF UpdateBalance
<1>4. QED
  BY <1>3 DEF UpdateBalance, BalanceTypeOK

(* Setting balances keeps balances balances. *)
LEMMA SetAssetsType ==
  ASSUME BalanceTypeOK, NEW list \in BalanceLists, SetAssets(list)
  PROVE  BalanceTypeOK'
<1>1. list \in Seq(BalanceEntry)
  OBVIOUS
<1>2. CASE list = <<>>
  BY <1>2 DEF SetAssets, BalanceTypeOK, balVars
<1>3. CASE list # <<>>
  <2>1. list[Len(list)] \in BalanceEntry
    BY <1>1, <1>3
  <2>2. Names(list) \in SUBSET Assets
    <3>1. \A i \in DOMAIN list : list[i] \in BalanceEntry
      BY <1>1, ElementOfSeq
    <3>2. \A i \in DOMAIN list : list[i].name \in Assets
      BY <3>1 DEF BalanceEntry
    <3>3. QED
      BY <3>2 DEF Names
  <2>3. bal' \in [Assets -> Asset]
    BY <1>3, <2>1 DEF SetAssets, BalanceTypeOK, Asset, BalanceEntry
  <2>4. aliases' \in [Assets -> SUBSET Assets]
    BY <1>3, <2>2 DEF SetAssets, BalanceTypeOK
  <2>5. QED
    BY <2>3, <2>4 DEF BalanceTypeOK
<1>4. QED
  BY <1>2, <1>3
-----------------------------------------------------------------------------
(* Type correctness.                                                       *)

(* Range's visit and its deletions belong to a kline being matched. *)
MatchIdle == pc \in {"select", "act"} => visit = {} /\ filled = {}

TypeInv == CoreTypeOK /\ MatchIdle

(* A step is one of the core, or leaves the core alone. *)
LEMMA NextCases ==
  ASSUME [Next]_vars
  PROVE  Request \/ Call \/ Panics \/ Drained \/ Control \/ Match \/ TrackerSignal
         \/ UNCHANGED coreVars
BY DEF Next, Inside, PriceConnEnds, Cancelled, vars

(* A function on 1 .. n is a sequence. *)
LEMMA FunctionIsSeq ==
  ASSUME NEW T, NEW n \in Nat, NEW f \in [1 .. n -> T]
  PROVE  f \in Seq(T)
OBVIOUS

(* The lists of calls of the requests are lists of calls. *)
LEMMA RequestCalls ==
  /\ \A r \in OrderReqs : <<AddCall(r)>> \in Seq(Calls)
  /\ \A rs \in Batches : [i \in DOMAIN rs |-> AddCall(rs[i])] \in Seq(Calls)
  /\ \A id \in Ids, r \in OrderReqs : <<CancelCall(id, TRUE), AddCall(r)>> \in Seq(Calls)
  /\ <<GetCall>> \in Seq(Calls)
  /\ \A id \in Ids : <<CancelCall(id, FALSE)>> \in Seq(Calls)
  /\ \A ids \in IdLists : [i \in DOMAIN ids |-> CancelCall(ids[i], FALSE)] \in Seq(Calls)
  /\ \A list \in BalanceLists : <<SetCall(list)>> \in Seq(Calls)
  /\ <<>> \in Seq(Calls)
<1>1. \A r \in OrderReqs : AddCall(r) \in Calls
  BY DEF AddCall, Calls
<1>2. \A id \in Ids, b \in BOOLEAN : CancelCall(id, b) \in Calls
  BY DEF CancelCall, Calls
<1>3. GetCall \in Calls
  BY DEF GetCall, Calls
<1>4. \A list \in BalanceLists : SetCall(list) \in Calls
  BY DEF SetCall, Calls
<1>5. ASSUME NEW rs \in Batches
      PROVE  [i \in DOMAIN rs |-> AddCall(rs[i])] \in Seq(Calls)
  <2>1. rs \in Seq(OrderReqs)
    OBVIOUS
  <2>2. Len(rs) \in Nat /\ DOMAIN rs = 1 .. Len(rs) /\ \A i \in 1 .. Len(rs) : rs[i] \in OrderReqs
    BY <2>1
  <2>3. \A i \in 1 .. Len(rs) : AddCall(rs[i]) \in Calls
    BY <1>1, <2>2
  <2>4. QED
    BY <2>2, <2>3, FunctionIsSeq
<1>6. ASSUME NEW ids \in IdLists
      PROVE  [i \in DOMAIN ids |-> CancelCall(ids[i], FALSE)] \in Seq(Calls)
  <2>1. ids \in Seq(Ids)
    OBVIOUS
  <2>2. Len(ids) \in Nat /\ DOMAIN ids = 1 .. Len(ids) /\ \A i \in 1 .. Len(ids) : ids[i] \in Ids
    BY <2>1
  <2>3. \A i \in 1 .. Len(ids) : CancelCall(ids[i], FALSE) \in Calls
    BY <1>2, <2>2
  <2>4. QED
    BY <2>2, <2>3, FunctionIsSeq
<1>7. \A x, y \in Calls : <<x>> \in Seq(Calls) /\ <<x, y>> \in Seq(Calls)
  OBVIOUS
<1>8. <<>> \in Seq(Calls)
  OBVIOUS
<1>9. QED
  BY <1>1, <1>2, <1>3, <1>4, <1>5, <1>6, <1>7, <1>8

LEMMA TypeInit == Init => TypeInv
<1> SUFFICES ASSUME Init PROVE TypeInv
  OBVIOUS
<1>1. BalanceTypeOK
  BY DEF Init, BalanceInit, BalanceTypeOK, Asset
<1>2. OrderTypeOK
  <2>1. orders = [h \in {} |-> 0] /\ DOMAIN orders = {}
    BY DEF Init, OrderInit
  <2>2. orders \in [DOMAIN orders -> OrderReqs]
    BY <2>1
  <2>3. status \in [DOMAIN orders -> {"NEW", "FILLED", "CANCELED"}]
    BY <2>1 DEF Init, OrderInit
  <2>4. byId \in [Ids -> {0} \cup DOMAIN orders] /\ signals \in 0 .. SignalCap
    BY DEF Init, OrderInit
  <2>5. QED
    BY <2>1, <2>2, <2>3, <2>4 DEF Init, OrderInit, OrderTypeOK
<1>3. todo \in Seq(Calls)
  BY RequestCalls DEF Init
<1>4. QED
  BY <1>1, <1>2, <1>3 DEF Init, OrderInit, TypeInv, CoreTypeOK, MatchIdle

(* The calls of an action and their fields. *)
LEMMA CallFields ==
  ASSUME CoreTypeOK, todo # <<>>
  PROVE  /\ Tail(todo) \in Seq(Calls)
         /\ <<>> \in Seq(Calls)
         /\ Head(todo).call = "add" => Head(todo).req \in OrderReqs
         /\ Head(todo).call = "cancel" => Head(todo).id \in Ids
         /\ Head(todo).call = "set" => Head(todo).list \in BalanceLists
<1>1. todo \in Seq(Calls)
  BY DEF CoreTypeOK
<1>2. Head(todo) \in Calls /\ Tail(todo) \in Seq(Calls)
  BY <1>1, HeadTailProperties
<1>3. QED
  BY <1>2, RequestCalls DEF Calls

LEMMA TypeAccept ==
  ASSUME TypeInv, Request
  PROVE  TypeInv'
<1>1. \E calls \in Seq(Calls) : Accept(calls)
  BY RequestCalls DEF Request, CreateOrder, CreateOrders, ReplaceOrder, GetOrder,
     CancelOrder, CancelOrders, SetBalances, GetBalances, GetPrice
<1>2. QED
  BY <1>1 DEF Accept, TypeInv, CoreTypeOK, MatchIdle, BalanceTypeOK, OrderTypeOK,
     balVars, orderVars, bookVars

(* An order is added to the book. *)
LEMMA TrackerAddType ==
  ASSUME OrderTypeOK, NEW r \in OrderReqs, TrackerAdd(r)
  PROVE  OrderTypeOK' /\ active \subseteq active'
<1>1. r.valid \in BOOLEAN /\ r.id \in Ids
  OBVIOUS
<1>2. CASE r.valid
  <2>1. NextHandle \in Nat /\ NextHandle \notin DOMAIN orders /\ orderSequence' = NextHandle
    BY DEF NextHandle, OrderTypeOK, TrackerAdd
  <2>2. DOMAIN orders' = DOMAIN orders \cup {NextHandle}
    BY <1>2 DEF TrackerAdd
  <2>3. orders' \in [DOMAIN orders' -> OrderReqs]
    BY <1>2, <2>2 DEF TrackerAdd, OrderTypeOK
  <2>4. status' \in [DOMAIN orders' -> {"NEW", "FILLED", "CANCELED"}]
    BY <1>2, <2>2 DEF TrackerAdd, OrderTypeOK
  <2>5. byId' \in [Ids -> {0} \cup DOMAIN orders']
    BY <1>1, <1>2, <2>2 DEF TrackerAdd, OrderTypeOK
  <2>6. DOMAIN orders' \subseteq 1 .. orderSequence'
    BY <2>1, <2>2 DEF OrderTypeOK, NextHandle
  <2>7. active' = active \cup {NextHandle} /\ sending' \in BOOLEAN /\ signals' = signals
    BY <1>2 DEF TrackerAdd
  <2> QED
    BY <2>1, <2>2, <2>3, <2>4, <2>5, <2>6, <2>7 DEF OrderTypeOK
<1>3. CASE ~r.valid
  BY <1>3 DEF TrackerAdd, OrderTypeOK, NextHandle
<1> QED
  BY <1>2, <1>3

LEMMA TypeCallAdd ==
  ASSUME TypeInv, CallAdd
  PROVE  TypeInv'
<1> DEFINE r == Head(todo).req
<1>1. pc = "act" /\ todo # <<>> /\ r \in OrderReqs
  BY CallFields DEF CallAdd, Calling, TypeInv
<1>2. TrackerAdd(r)
  BY DEF CallAdd
<1>4. OrderTypeOK' /\ active \subseteq active'
  BY <1>1, <1>2, TrackerAddType DEF TypeInv, CoreTypeOK
<1>5. BalanceTypeOK'
  <2>1. CASE r.valid
    BY <1>1, <2>1, UpdateBalanceType DEF CallAdd, TypeInv, CoreTypeOK
  <2>2. CASE ~r.valid
    BY <2>2 DEF CallAdd, TypeInv, CoreTypeOK, BalanceTypeOK, balVars
  <2>3. QED
    BY <2>1, <2>2
<1>6. todo' \in Seq(Calls)
  BY <1>1, CallFields DEF CallAdd, TypeInv
<1>7. mishaps' \subseteq {"overdraft", "dup", "alias", "reset", "negative", "panic"}
  BY DEF CallAdd, TypeInv, CoreTypeOK, Upset, Event
<1>8. QED
  BY <1>1, <1>4, <1>5, <1>6, <1>7 DEF CallAdd, TypeInv, CoreTypeOK, MatchIdle

(* A cancel of an order of the book. *)
LEMMA TrackerCancelType ==
  ASSUME OrderTypeOK, NEW id, NEW h \in active, TrackerCancel(id, h)
  PROVE  OrderTypeOK' /\ orders[h] \in OrderReqs
BY DEF OrderTypeOK, TrackerCancel

LEMMA TypeCallCancel ==
  ASSUME TypeInv, CallCancel
  PROVE  TypeInv'
<1>1. PICK h \in active :
        /\ TrackerCancel(Head(todo).id, h)
        /\ UpdateBalance(orders[h], "CANCELED")
        /\ todo' = <<>> \/ todo' = Tail(todo)
        /\ Upset(Event("overdraft", UpdateFails(orders[h], "CANCELED")))
  BY DEF CallCancel
<1>2. pc = "act" /\ todo # <<>>
  BY DEF CallCancel, Calling
<1>3. OrderTypeOK' /\ orders[h] \in OrderReqs
  BY <1>1, TrackerCancelType DEF TypeInv, CoreTypeOK
<1>4. BalanceTypeOK'
  BY <1>1, <1>3, UpdateBalanceType DEF TypeInv, CoreTypeOK
<1>5. todo' \in Seq(Calls)
  BY <1>1, <1>2, CallFields DEF TypeInv
<1>6. mishaps' \subseteq {"overdraft", "dup", "alias", "reset", "negative", "panic"}
  BY <1>1 DEF TypeInv, CoreTypeOK, Upset, Event
<1>7. QED
  BY <1>2, <1>3, <1>4, <1>5, <1>6 DEF CallCancel, TypeInv, CoreTypeOK, MatchIdle

LEMMA TypeCallCancelUnknown ==
  ASSUME TypeInv, CallCancelUnknown
  PROVE  TypeInv'
<1>1. OrderTypeOK'
  BY DEF CallCancelUnknown, TrackerCancelUnknown, bookVars, TypeInv, CoreTypeOK, OrderTypeOK
<1>2. active' = active /\ pc' = pc /\ pc = "act"
  BY DEF CallCancelUnknown, TrackerCancelUnknown, bookVars, Calling
<1>3. BalanceTypeOK'
  BY DEF CallCancelUnknown, TypeInv, CoreTypeOK, BalanceTypeOK, balVars
<1>4. QED
  BY <1>1, <1>2, <1>3, RequestCalls DEF CallCancelUnknown, TypeInv, CoreTypeOK, MatchIdle

LEMMA TypeCallGet ==
  ASSUME TypeInv, CallGet
  PROVE  TypeInv'
<1>1. todo' \in Seq(Calls)
  BY CallFields DEF CallGet, Calling, TypeInv
<1>2. QED
  BY <1>1 DEF CallGet, TrackerRead, TypeInv, CoreTypeOK, MatchIdle, BalanceTypeOK,
     OrderTypeOK, balVars, orderVars, bookVars

LEMMA TypeCallSet ==
  ASSUME TypeInv, CallSet
  PROVE  TypeInv'
<1>1. todo # <<>> /\ Head(todo).list \in BalanceLists /\ todo' \in Seq(Calls)
  BY CallFields DEF CallSet, Calling, TypeInv
<1>2. BalanceTypeOK'
  BY <1>1, SetAssetsType DEF CallSet, TypeInv, CoreTypeOK
<1>3. mishaps' \subseteq {"overdraft", "dup", "alias", "reset", "negative", "panic"}
  BY DEF CallSet, TypeInv, CoreTypeOK, Upset, SetMishaps, Event
<1>4. QED
  BY <1>1, <1>2, <1>3 DEF CallSet, TypeInv, CoreTypeOK, MatchIdle, OrderTypeOK,
     orderVars, bookVars

LEMMA TypeMatchOrder ==
  ASSUME TypeInv, MatchOrder
  PROVE  TypeInv'
<1>1. PICK h \in visit :
        /\ visit' = visit \ {h}
        /\ IF Crosses(orders[h], kline)
             THEN /\ status' = [status EXCEPT ![h] = "FILLED"]
                  /\ UpdateBalance(orders[h], "FILLED")
                  /\ filled' = filled \/ filled' = filled \cup {h}
                  /\ Upset(Event("overdraft", UpdateFails(orders[h], "FILLED")))
             ELSE UNCHANGED <<balVars, status, filled, mishaps>>
  BY DEF MatchOrder
<1>2. h \in active /\ orders[h] \in OrderReqs
  BY DEF TypeInv, CoreTypeOK, OrderTypeOK
<1>3. BalanceTypeOK'
  <2>1. CASE Crosses(orders[h], kline)
    BY <1>1, <1>2, <2>1, UpdateBalanceType DEF TypeInv, CoreTypeOK
  <2>2. CASE ~Crosses(orders[h], kline)
    BY <1>1, <2>2 DEF TypeInv, CoreTypeOK, BalanceTypeOK, balVars
  <2>3. QED
    BY <2>1, <2>2
<1>4. OrderTypeOK'
  BY <1>1 DEF MatchOrder, TypeInv, CoreTypeOK, OrderTypeOK
<1>5. mishaps' \subseteq {"overdraft", "dup", "alias", "reset", "negative", "panic"}
  BY <1>1 DEF TypeInv, CoreTypeOK, Upset, Event
<1>6. filled' \subseteq active' /\ visit' \subseteq active'
  BY <1>1, <1>2 DEF MatchOrder, TypeInv, CoreTypeOK
<1>7. QED
  BY <1>3, <1>4, <1>5, <1>6 DEF MatchOrder, TypeInv, CoreTypeOK, MatchIdle

LEMMA TypeEndMatch ==
  ASSUME TypeInv, EndMatch
  PROVE  TypeInv'
<1>1. OrderTypeOK'
  <2>1. OrderTypeOK
    BY DEF TypeInv, CoreTypeOK
  <2>2. CASE UNCHANGED orderVars
    BY <2>1, <2>2 DEF orderVars, bookVars, OrderTypeOK
  <2>3. ASSUME NEW id, NEW g \in active, TrackerCancel(id, g)
        PROVE  OrderTypeOK'
    BY <2>1, <2>3, TrackerCancelType
  <2>4. ASSUME NEW ids, TrackerRemoveRange(ids)
        PROVE  OrderTypeOK'
    BY <2>1, <2>4 DEF TrackerRemoveRange, OrderTypeOK
  <2>5. QED
    BY <2>2, <2>3, <2>4 DEF EndMatch
<1>2. BalanceTypeOK'
  BY DEF EndMatch, TypeInv, CoreTypeOK, BalanceTypeOK, balVars
<1>3. QED
  BY <1>1, <1>2 DEF EndMatch, TypeInv, CoreTypeOK, MatchIdle

(* A panic in a handler changes `pc' only, one in an action has added its  *)
(* order to the book.                                                      *)
LEMMA TypePanics ==
  ASSUME TypeInv, Panics
  PROVE  TypeInv'
<1>1. CASE ReplaceNothing
  BY <1>1 DEF ReplaceNothing, Panic, Upset, TypeInv, CoreTypeOK, MatchIdle, BalanceTypeOK,
     OrderTypeOK, balVars, orderVars, bookVars
<1>2. CASE CallAddPanics
  <2> DEFINE r == Head(todo).req
  <2>1. pc = "act" /\ todo # <<>> /\ r \in OrderReqs
    BY <1>2, CallFields DEF CallAddPanics, Calling, TypeInv
  <2>2. TrackerAdd(r)
    BY <1>2 DEF CallAddPanics
  <2>3. OrderTypeOK' /\ active \subseteq active'
    BY <2>1, <2>2, TrackerAddType DEF TypeInv, CoreTypeOK
  <2>4. mishaps' \subseteq {"overdraft", "dup", "alias", "reset", "negative", "panic"}
    BY <1>2 DEF CallAddPanics, Panic, Upset, Event, TypeInv, CoreTypeOK
  <2> QED
    BY <1>2, <2>1, <2>3, <2>4 DEF CallAddPanics, Panic, TypeInv, CoreTypeOK, MatchIdle,
       BalanceTypeOK, balVars
<1> QED
  BY <1>1, <1>2 DEF Panics

(* What a panic leaves alone, and what it records. *)
LEMMA PanicSteps ==
  ASSUME Panics
  PROVE  /\ UNCHANGED <<balVars, visit, filled>>
         /\ pc' = "panicked" /\ "panic" \in mishaps' /\ mishaps \subseteq mishaps'
         /\ "overdraft" \in mishaps' => "overdraft" \in mishaps
<1>1. CASE ReplaceNothing
  BY <1>1 DEF ReplaceNothing, Panic, Upset
<1>2. CASE CallAddPanics
  BY <1>2 DEF CallAddPanics, Panic, Upset, Event
<1> QED
  BY <1>1, <1>2 DEF Panics

(* The other steps change one or two variables. *)
LEMMA TypeOthers ==
  ASSUME TypeInv,
         Drained \/ Control \/ (\E k \in Klines : Kline(k)) \/ TrackerSignal \/ UNCHANGED coreVars
  PROVE  TypeInv'
<1> USE DEF TypeInv, CoreTypeOK, MatchIdle, BalanceTypeOK, OrderTypeOK,
            balVars, orderVars, bookVars
<1>1. CASE Drained
  BY <1>1 DEF Drained
<1>2. CASE Control
  <2>1. signals \in Nat /\ signals' = signals - 1 /\ signals > 0
    BY <1>2 DEF Control
  <2>2. signals' \in 0 .. SignalCap
    BY <2>1
  <2>3. QED
    BY <1>2, <2>2 DEF Control
<1>3. CASE \E k \in Klines : Kline(k)
  BY <1>3 DEF Kline
<1>4. CASE TrackerSignal
  <2>1. signals \in Nat /\ signals' = signals + 1 /\ signals < SignalCap
    BY <1>4 DEF TrackerSignal, SendSignal
  <2>2. signals' \in 0 .. SignalCap
    BY <2>1
  <2>3. QED
    BY <1>4, <2>2 DEF TrackerSignal, SendSignal, exchangeVars
<1>5. CASE UNCHANGED coreVars
  BY <1>5 DEF coreVars, exchangeVars
<1>6. QED
  BY <1>1, <1>2, <1>3, <1>4, <1>5

LEMMA TypeNext ==
  ASSUME TypeInv, [Next]_vars
  PROVE  TypeInv'
BY NextCases, TypePanics, TypeAccept, TypeCallAdd, TypeCallCancel, TypeCallCancelUnknown, TypeCallGet,
   TypeCallSet, TypeMatchOrder, TypeEndMatch, TypeOthers DEF Call, Match

(* Type correctness of the trading core, for every set of assets, orders,  *)
(* lists and klines. *)
THEOREM TypeCorrect == Spec => []TypeOK
<1> DEFINE OuterTypeOK == mute \in BOOLEAN /\ cancelled \in BOOLEAN
<1>1. TypeInv /\ [Next]_vars => TypeInv'
  BY TypeNext
<1>2. Init => OuterTypeOK
  BY DEF Init
<1>3. OuterTypeOK /\ [Next]_vars => OuterTypeOK'
  BY DEF Next, Inside, PriceConnEnds, Cancelled, vars, outerVars
<1>4. TypeInv /\ OuterTypeOK => TypeOK
  BY DEF TypeInv, TypeOK
<1> HIDE DEF OuterTypeOK
<1>5. QED
  BY TypeInit, <1>1, <1>2, <1>3, <1>4, PTL DEF Spec
-----------------------------------------------------------------------------
(* The feed switch.                                                        *)

LEMMA ParityInit == Init => SignalParity
<1> SUFFICES ASSUME Init PROVE SignalParity
  OBVIOUS
<1>1. Odd(signals) = FALSE
  BY DEF Init, OrderInit, Odd
<1>2. active = {} /\ sending = FALSE /\ running = FALSE /\ drift = FALSE
  BY DEF Init, OrderInit
<1>3. QED
  BY <1>1, <1>2 DEF SignalParity

(* A transaction of the tracker that leaves the switch alone. *)
LEMMA ParityTracker ==
  ASSUME TypeInv, SignalParity, ~sending,
         UNCHANGED <<running, signals>>,
         \/ UNCHANGED <<active, sending, drift>>
         \/ active # {} /\ sending' = (active' = {}) /\ UNCHANGED drift
         \/ active = {} /\ active' # {} /\ sending' /\ UNCHANGED drift
         \/ active = {} /\ active' = {} /\ sending' /\ drift' = ~drift
  PROVE  SignalParity'
<1>1. /\ running \in BOOLEAN /\ sending \in BOOLEAN /\ drift \in BOOLEAN
      /\ Odd(signals) \in BOOLEAN /\ Odd(signals)' = Odd(signals)
  BY DEF TypeInv, CoreTypeOK, OrderTypeOK, Odd
<1>2. QED
  BY <1>1 DEF SignalParity

LEMMA ParityAdd ==
  ASSUME TypeInv, SignalParity, NEW r, TrackerAdd(r), UNCHANGED <<running, drift>>
  PROVE  SignalParity'
<1>1. /\ ~sending /\ UNCHANGED signals
      /\ \/ UNCHANGED <<active, sending>>
         \/ active' # {} /\ sending' = (active = {})
  BY DEF TrackerAdd
<1>2. CASE active = {} \/ UNCHANGED <<active, sending>>
  BY <1>1, <1>2, ParityTracker
<1>3. CASE active # {} /\ active' # {} /\ sending' = (active = {})
  <2>1. sending' = (active' = {})
    BY <1>3
  <2> QED
    BY <1>1, <1>3, <2>1, ParityTracker
<1> QED
  BY <1>1, <1>2, <1>3

LEMMA ParityNext ==
  ASSUME TypeInv, SignalParity, [Next]_vars
  PROVE  SignalParity'
<1>1. /\ running \in BOOLEAN /\ sending \in BOOLEAN /\ drift \in BOOLEAN
      /\ signals \in Nat /\ filled \subseteq active
  BY DEF TypeInv, CoreTypeOK, OrderTypeOK
<1>2. CASE UNCHANGED <<running, active, signals, sending, drift>>
  BY <1>2 DEF SignalParity
<1>3. ASSUME Request \/ CallGet \/ CallSet \/ Drained \/ (\E k \in Klines : Kline(k))
             \/ MatchOrder \/ UNCHANGED coreVars
      PROVE  UNCHANGED <<running, active, signals, sending, drift>>
  <2> USE DEF orderVars, bookVars
  <2>1. CASE Request
    BY <2>1 DEF Request, CreateOrder, CreateOrders, ReplaceOrder, GetOrder, CancelOrder,
       CancelOrders, SetBalances, GetBalances, GetPrice, Accept
  <2>2. CASE CallGet \/ CallSet
    BY <2>2 DEF CallGet, TrackerRead, CallSet
  <2>3. CASE Drained \/ (\E k \in Klines : Kline(k)) \/ MatchOrder
    BY <2>3 DEF Drained, Kline, MatchOrder
  <2>4. CASE UNCHANGED coreVars
    BY <2>4 DEF coreVars, exchangeVars
  <2>5. QED
    BY <1>3, <2>1, <2>2, <2>3, <2>4
<1>4. CASE CallAdd
  <2>1. TrackerAdd(Head(todo).req) /\ UNCHANGED <<running, drift>>
    BY <1>4 DEF CallAdd
  <2> QED
    BY <2>1, ParityAdd
<1>5. CASE CallCancel
  <2>1. PICK h \in active : TrackerCancel(Head(todo).id, h)
    BY <1>5 DEF CallCancel
  <2>2. active # {} /\ ~sending /\ sending' = (active' = {}) /\ UNCHANGED signals
    BY <2>1 DEF TrackerCancel
  <2>3. QED
    BY <1>5, <2>2, ParityTracker DEF CallCancel
<1>6. CASE CallCancelUnknown
  <2>1. /\ TrackerCancelUnknown(Head(todo).id)
        /\ drift' = IF active = {} THEN ~drift ELSE drift
        /\ UNCHANGED running
    BY <1>6 DEF CallCancelUnknown
  <2>2. ~sending /\ sending' = (active = {}) /\ UNCHANGED <<active, signals>>
    BY <2>1 DEF TrackerCancelUnknown, bookVars
  <2>3. CASE active = {}
    <3>1. active = {} /\ active' = {} /\ sending' /\ drift' = ~drift
      BY <2>1, <2>2, <2>3
    <3>2. QED
      BY <2>1, <2>2, <3>1, ParityTracker
  <2>4. CASE active # {}
    <3>1. active # {} /\ sending' = (active' = {}) /\ UNCHANGED drift
      BY <2>1, <2>2, <2>4
    <3>2. QED
      BY <2>1, <2>2, <3>1, ParityTracker
  <2>5. QED
    BY <2>3, <2>4
<1>7. CASE EndMatch
  <2>1. ~sending /\ UNCHANGED <<running, drift>>
    BY <1>7 DEF EndMatch
  <2>2. CASE UNCHANGED orderVars
    BY <1>2, <2>1, <2>2 DEF orderVars, bookVars
  <2>3. ASSUME NEW id, NEW g \in active, TrackerCancel(id, g)
        PROVE  SignalParity'
    <3>1. active # {} /\ sending' = (active' = {}) /\ UNCHANGED signals
      BY <2>3 DEF TrackerCancel
    <3>2. QED
      BY <2>1, <3>1, ParityTracker
  <2>4. ASSUME NEW ids, NEW g \in filled, TrackerRemoveRange(ids)
        PROVE  SignalParity'
    <3>1. active # {} /\ sending' = (active' = {}) /\ UNCHANGED signals
      BY <1>1, <2>4 DEF TrackerRemoveRange
    <3>2. QED
      BY <2>1, <3>1, ParityTracker
  <2>5. QED
    BY <1>7, <2>2, <2>3, <2>4 DEF EndMatch
<1>8. CASE Control
  <2>1. /\ signals' \in Nat /\ signals = signals' + 1 /\ running' = ~running
        /\ UNCHANGED <<active, sending, drift>>
    BY <1>1, <1>8 DEF Control, bookVars
  <2>2. Odd(signals) = ~Odd(signals')
    BY <2>1, OddFlip DEF Odd
  <2>3. Odd(signals)' = Odd(signals')
    BY DEF Odd
  <2>4. Odd(signals) \in BOOLEAN /\ Odd(signals') \in BOOLEAN
    BY DEF Odd
  <2>5. QED
    BY <1>1, <2>1, <2>2, <2>3, <2>4 DEF SignalParity
<1>9. CASE TrackerSignal
  <2>1. /\ signals' = signals + 1 /\ sending /\ sending' = FALSE
        /\ UNCHANGED <<active, running, drift>>
    BY <1>9 DEF TrackerSignal, SendSignal, bookVars, exchangeVars
  <2>2. Odd(signals') = ~Odd(signals)
    BY <1>1, <2>1, OddFlip DEF Odd
  <2>3. Odd(signals)' = Odd(signals')
    BY DEF Odd
  <2>4. Odd(signals) \in BOOLEAN /\ Odd(signals') \in BOOLEAN
    BY DEF Odd
  <2>5. QED
    BY <1>1, <2>1, <2>2, <2>3, <2>4 DEF SignalParity
<1>10. CASE CallAddPanics
  <2>1. TrackerAdd(Head(todo).req) /\ UNCHANGED <<running, drift>>
    BY <1>10 DEF CallAddPanics
  <2> QED
    BY <2>1, ParityAdd
<1>11. CASE ReplaceNothing
  <2>1. UNCHANGED <<running, active, signals, sending, drift>>
    BY <1>11 DEF ReplaceNothing, orderVars, bookVars
  <2> QED
    BY <1>2, <2>1
<1>12. QED
  BY NextCases, <1>2, <1>3, <1>4, <1>5, <1>6, <1>7, <1>8, <1>9, <1>10, <1>11 DEF Call, Match, Panics

(* The feed switch follows the book through every interleaving of the      *)
(* exchange with the tracker, for any capacity of the signal channel.      *)
THEOREM SwitchFollowsBook == Spec => []SignalParity
<1>1. Init => TypeInv /\ SignalParity
  BY TypeInit, ParityInit
<1>2. TypeInv /\ SignalParity /\ [Next]_vars => (TypeInv /\ SignalParity)'
  BY TypeNext, ParityNext
<1>3. QED
  BY <1>1, <1>2, PTL DEF Spec
-----------------------------------------------------------------------------
(* The book.  Its three properties are inductive together, with the fact   *)
(* that the orders to delete after a Range were filled by it.              *)

FilledMarked == \A h \in filled : status[h] = "FILLED"

BookInv == OpenIsActive /\ ActiveIsFound /\ DoneLeavesBook /\ FilledMarked

LEMMA BookInit == Init => BookInv
<1> SUFFICES ASSUME Init PROVE BookInv
  OBVIOUS
<1>1. active = {} /\ filled = {} /\ DOMAIN status = {}
  BY DEF Init, OrderInit
<1>2. QED
  BY <1>1 DEF BookInv, OpenIsActive, ActiveIsFound, DoneLeavesBook, FilledMarked

(* A step that keeps the book, the statuses and the deletions, and the     *)
(* goroutine's place unless there is nothing to delete.                    *)
LEMMA BookUnchanged ==
  ASSUME TypeInv, BookInv,
         UNCHANGED <<orders, status, active, byId>>,
         mishaps \subseteq mishaps',
         \/ UNCHANGED <<pc, filled>>
         \/ filled = {} /\ filled' = {}
  PROVE  BookInv'
BY DEF BookInv, OpenIsActive, ActiveIsFound, DoneLeavesBook, FilledMarked

(* An order enters the book; if one of its id is there, that is recorded.  *)
LEMMA BookAdd ==
  ASSUME TypeInv, BookInv, NEW r \in OrderReqs, r.valid, TrackerAdd(r),
         filled = {}, filled' = {},
         mishaps \subseteq mishaps',
         Matches(r.id) # {} => "dup" \in mishaps',
         UNCHANGED pc \/ "panic" \in mishaps'
  PROVE  BookInv'
<1>1. /\ DOMAIN status = DOMAIN orders
      /\ active \subseteq DOMAIN orders
      /\ NextHandle \notin DOMAIN orders
      /\ byId \in [Ids -> {0} \cup DOMAIN orders]
      /\ r.id \in Ids
  BY DEF TypeInv, CoreTypeOK, OrderTypeOK, NextHandle
<1>2. /\ active' = active \cup {NextHandle}
      /\ byId' = [byId EXCEPT ![r.id] = NextHandle]
      /\ DOMAIN status' = DOMAIN orders \cup {NextHandle}
      /\ status'[NextHandle] = "NEW" /\ orders'[NextHandle] = r
      /\ \A h \in DOMAIN orders : status'[h] = status[h] /\ orders'[h] = orders[h]
  BY <1>1 DEF TrackerAdd
<1>3. OpenIsActive'
  BY <1>1, <1>2 DEF BookInv, OpenIsActive
<1>4. ActiveIsFound'
  BY <1>1, <1>2 DEF BookInv, ActiveIsFound, Matches
<1>5. DoneLeavesBook'
  BY <1>1, <1>2 DEF BookInv, DoneLeavesBook
<1>6. FilledMarked'
  BY DEF FilledMarked
<1> QED
  BY <1>3, <1>4, <1>5, <1>6 DEF BookInv

LEMMA BookCallAdd ==
  ASSUME TypeInv, BookInv, CallAdd
  PROVE  BookInv'
<1> DEFINE r == Head(todo).req
<1>1. pc = "act" /\ todo # <<>> /\ r \in OrderReqs /\ UNCHANGED <<pc, filled>> /\ filled = {}
  BY CallFields DEF CallAdd, Calling, TypeInv, MatchIdle
<1>2. TrackerAdd(r)
  BY DEF CallAdd
<1>3. CASE ~r.valid
  <2>1. UNCHANGED <<orders, status, active, byId>> /\ mishaps' = mishaps
    BY <1>2, <1>3 DEF CallAdd, TrackerAdd
  <2>2. QED
    BY <1>1, <2>1, BookUnchanged
<1>4. CASE r.valid
  <2>1. /\ mishaps \subseteq mishaps'
        /\ Matches(r.id) # {} => "dup" \in mishaps'
    BY <1>4 DEF CallAdd, Upset, Event
  <2> HIDE DEF r
  <2> QED
    BY <1>1, <1>2, <1>4, <2>1, BookAdd
<1>5. QED
  BY <1>3, <1>4

LEMMA BookPanics ==
  ASSUME TypeInv, BookInv, Panics
  PROVE  BookInv'
<1>1. "panic" \in mishaps' /\ mishaps \subseteq mishaps' /\ UNCHANGED filled
  BY PanicSteps
<1>2. CASE ReplaceNothing
  <2>1. UNCHANGED <<orders, status, active, byId>>
    BY <1>2 DEF ReplaceNothing, orderVars, bookVars
  <2> QED
    BY <1>1, <2>1 DEF BookInv, OpenIsActive, ActiveIsFound, DoneLeavesBook, FilledMarked
<1>3. CASE CallAddPanics
  <2> DEFINE r == Head(todo).req
  <2>1. pc = "act" /\ todo # <<>> /\ r \in OrderReqs /\ filled = {}
    BY <1>3, CallFields DEF CallAddPanics, Calling, TypeInv, MatchIdle
  <2>2. /\ r.valid /\ TrackerAdd(r)
        /\ Matches(r.id) # {} => "dup" \in mishaps'
    BY <1>3 DEF CallAddPanics, Panic, Upset, Event
  <2> HIDE DEF r
  <2> QED
    BY <1>1, <2>1, <2>2, BookAdd
<1> QED
  BY <1>2, <1>3 DEF Panics

LEMMA BookCallCancel ==
  ASSUME TypeInv, BookInv, CallCancel
  PROVE  BookInv'
<1>1. PICK h \in active : TrackerCancel(Head(todo).id, h)
  BY DEF CallCancel
<1>2. UNCHANGED <<pc, filled>> /\ filled = {} /\ mishaps \subseteq mishaps' /\ pc = "act"
  BY DEF CallCancel, Calling, TypeInv, MatchIdle, Upset
<1>3. /\ active' = active \ {h} /\ UNCHANGED <<orders, byId>>
      /\ status' = [status EXCEPT ![h] = "CANCELED"]
  BY <1>1 DEF TrackerCancel
<1>4. OpenIsActive'
  BY <1>2, <1>3 DEF BookInv, OpenIsActive
<1>5. ActiveIsFound'
  BY <1>2, <1>3 DEF BookInv, ActiveIsFound
<1>6. DoneLeavesBook'
  BY <1>2, <1>3 DEF BookInv, DoneLeavesBook, TypeInv, CoreTypeOK, OrderTypeOK
<1>7. QED
  BY <1>2, <1>4, <1>5, <1>6 DEF BookInv, FilledMarked

LEMMA BookMatchOrder ==
  ASSUME TypeInv, BookInv, MatchOrder
  PROVE  BookInv'
<1>1. PICK h \in visit :
        IF Crosses(orders[h], kline)
          THEN /\ status' = [status EXCEPT ![h] = "FILLED"]
               /\ filled' = IF UpdateFails(orders[h], "FILLED") THEN filled ELSE filled \cup {h}
               /\ Upset(Event("overdraft", UpdateFails(orders[h], "FILLED")))
          ELSE UNCHANGED <<status, filled, mishaps>>
  BY DEF MatchOrder
<1>2. UNCHANGED <<orders, active, byId, pc>> /\ pc = "match"
  BY DEF MatchOrder
<1>3. CASE ~Crosses(orders[h], kline)
  BY <1>1, <1>2, <1>3, BookUnchanged
<1>4. CASE Crosses(orders[h], kline)
  <2>1. /\ status' = [status EXCEPT ![h] = "FILLED"]
        /\ filled \subseteq filled' /\ filled' \subseteq filled \cup {h}
        /\ mishaps \subseteq mishaps'
        /\ h \in filled' \/ "overdraft" \in mishaps'
    BY <1>1, <1>4 DEF Upset, Event
  <2>2. h \in active /\ active \subseteq DOMAIN status /\ filled \subseteq active
    BY DEF TypeInv, CoreTypeOK, OrderTypeOK
  <2>3. OpenIsActive'
    BY <1>2, <2>1, <2>2 DEF BookInv, OpenIsActive
  <2>4. ActiveIsFound'
    BY <1>2, <2>1 DEF BookInv, ActiveIsFound
  <2>5. DoneLeavesBook'
    BY <1>2, <2>1, <2>2 DEF BookInv, DoneLeavesBook
  <2>6. FilledMarked'
    BY <2>1, <2>2 DEF BookInv, FilledMarked
  <2>7. QED
    BY <2>3, <2>4, <2>5, <2>6 DEF BookInv
<1>5. QED
  BY <1>3, <1>4

LEMMA BookEndMatch ==
  ASSUME TypeInv, BookInv, EndMatch
  PROVE  BookInv'
<1>1. /\ UNCHANGED mishaps /\ filled' = {} /\ pc' = "select" /\ filled \subseteq active
      /\ DOMAIN status = DOMAIN orders /\ active \subseteq DOMAIN orders
  BY DEF EndMatch, TypeInv, CoreTypeOK, OrderTypeOK
<1>2. ASSUME "dup" \notin mishaps, NEW g \in active, NEW h \in active,
             orders[g].id = orders[h].id
      PROVE  g = h
  BY <1>2 DEF BookInv, ActiveIsFound
<1>3. CASE filled = {} /\ UNCHANGED orderVars
  BY <1>1, <1>3, BookUnchanged DEF orderVars, bookVars
<1>4. ASSUME NEW f \in filled, filled = {f}, NEW g \in active, TrackerCancel(orders[f].id, g)
      PROVE  BookInv'
  <2>1. /\ active' = active \ {g} /\ UNCHANGED <<orders, byId>>
        /\ status' = [status EXCEPT ![g] = "CANCELED"]
        /\ orders[g].id = orders[f].id
    BY <1>4 DEF TrackerCancel, IsFirst, Matches
  <2>2. OpenIsActive'
    BY <1>1, <2>1 DEF BookInv, OpenIsActive
  <2>3. ActiveIsFound'
    BY <1>1, <2>1 DEF BookInv, ActiveIsFound
  <2>4. "dup" \notin mishaps => g = f
    BY <1>1, <1>2, <1>4, <2>1
  <2>5. DoneLeavesBook'
    BY <1>1, <1>4, <2>1, <2>4 DEF BookInv, DoneLeavesBook
  <2>6. QED
    BY <1>1, <2>2, <2>3, <2>5 DEF BookInv, FilledMarked
<1>5. ASSUME TrackerRemoveRange({orders[h].id : h \in filled})
      PROVE  BookInv'
  <2>1. /\ active' = {h \in active : orders[h].id \notin {orders[f].id : f \in filled}}
        /\ UNCHANGED <<orders, status, byId>>
    BY <1>5 DEF TrackerRemoveRange
  <2>2. \A h \in filled : h \notin active'
    BY <2>1
  <2>3. ASSUME "dup" \notin mishaps, NEW h \in active, h \notin active'
        PROVE  h \in filled
    BY <1>1, <1>2, <2>1, <2>3
  <2>4. OpenIsActive'
    BY <1>1, <2>1, <2>3 DEF BookInv, OpenIsActive, FilledMarked
  <2>5. ActiveIsFound'
    BY <1>1, <2>1 DEF BookInv, ActiveIsFound
  <2>6. DoneLeavesBook'
    BY <1>1, <2>1, <2>2 DEF BookInv, DoneLeavesBook
  <2>7. QED
    BY <1>1, <2>4, <2>5, <2>6 DEF BookInv, FilledMarked
<1>6. QED
  BY <1>3, <1>4, <1>5 DEF EndMatch

LEMMA BookNext ==
  ASSUME TypeInv, BookInv, [Next]_vars
  PROVE  BookInv'
<1>1. ASSUME Request \/ CallCancelUnknown \/ CallGet \/ CallSet \/ Drained \/ Control
             \/ (\E k \in Klines : Kline(k)) \/ TrackerSignal \/ UNCHANGED coreVars
      PROVE  /\ UNCHANGED <<orders, status, active, byId>>
             /\ mishaps \subseteq mishaps'
             /\ UNCHANGED <<pc, filled>> \/ (filled = {} /\ filled' = {})
  <2> USE DEF orderVars, bookVars
  <2>1. CASE Request
    BY <2>1 DEF Request, CreateOrder, CreateOrders, ReplaceOrder, GetOrder, CancelOrder,
       CancelOrders, SetBalances, GetBalances, GetPrice, Accept, TypeInv, MatchIdle
  <2>2. CASE CallCancelUnknown \/ CallGet \/ CallSet
    BY <2>2 DEF CallCancelUnknown, TrackerCancelUnknown, CallGet, TrackerRead, CallSet, Upset
  <2>3. CASE Drained \/ Control \/ (\E k \in Klines : Kline(k))
    BY <2>3 DEF Drained, Control, Kline, TypeInv, MatchIdle
  <2>4. CASE TrackerSignal \/ UNCHANGED coreVars
    BY <2>4 DEF TrackerSignal, SendSignal, coreVars, exchangeVars
  <2>5. QED
    BY <1>1, <2>1, <2>2, <2>3, <2>4
<1>2. QED
  BY NextCases, <1>1, BookUnchanged, BookCallAdd, BookCallCancel, BookMatchOrder, BookEndMatch,
     BookPanics DEF Call, Match

LEMMA BookAlways == Spec => []BookInv
<1>1. Init => TypeInv /\ BookInv
  BY TypeInit, BookInit
<1>2. TypeInv /\ BookInv /\ [Next]_vars => (TypeInv /\ BookInv)'
  BY TypeNext, BookNext
<1>3. QED
  BY <1>1, <1>2, PTL DEF Spec

(* No open order is lost, as long as no id of an active order is reused. *)
THEOREM NoOpenOrderLost == Spec => []OpenIsActive
<1>1. BookInv => OpenIsActive
  BY DEF BookInv
<1>2. QED
  BY <1>1, BookAlways, PTL

(* The book and the index by id agree, under the same condition. *)
THEOREM IndexAgrees == Spec => []ActiveIsFound
<1>1. BookInv => ActiveIsFound
  BY DEF BookInv
<1>2. QED
  BY <1>1, BookAlways, PTL

(* No order is matched twice, unless balances went negative, ids of active *)
(* orders were reused or the process panicked.                             *)
THEOREM NoOrderMatchedTwice == Spec => []DoneLeavesBook
<1>1. BookInv => DoneLeavesBook
  BY DEF BookInv
<1>2. QED
  BY <1>1, BookAlways, PTL
-----------------------------------------------------------------------------
(* Funds.  Names that share an asset share it with each other, and read    *)
(* the same amounts.                                                       *)

SharedAre(b) == \A a \in Assets : \A x \in aliases[a] : b[x] = b[a]

AliasInv ==
  /\ \A a \in Assets : a \in aliases[a] /\ \A x \in aliases[a] : aliases[x] = aliases[a]
  /\ SharedAre(bal)

(* A transaction keeps shared names equal. *)
LEMMA AdjustedShared ==
  ASSUME TypeInv, AliasInv, NEW b \in [Assets -> Asset], SharedAre(b),
         NEW a \in Assets, NEW f \in Int, NEW l \in Int
  PROVE  SharedAre(Adjusted(b, a, f, l))
<1>1. \A c \in Assets : \A x \in aliases[c] : x \in Assets /\ (x \in aliases[a] <=> c \in aliases[a])
  BY DEF AliasInv, TypeInv, CoreTypeOK, BalanceTypeOK
<1>2. QED
  BY <1>1 DEF SharedAre, Adjusted

LEMMA HoldLegAdjusts ==
  ASSUME TypeInv, NEW o \in OrderReqs, NEW st \in {"NEW", "FILLED", "CANCELED"}
  PROVE  \E f, l \in Int : /\ HoldLeg(o, st) = Adjusted(bal, HoldAsset(o), f, l)
                           /\ st # "FILLED" => f + l = 0
<1> DEFINE H == Hold(o)
<1>1. H \in Int /\ -H \in Int /\ 0 \in Int
  BY AmountTypes
<1>2. -H + H = 0 /\ H + -H = 0
  BY <1>1
<1> HIDE DEF H
<1>3. CASE st = "NEW"
  <2>1. HoldLeg(o, st) = Adjusted(bal, HoldAsset(o), -H, H)
    BY <1>3 DEF HoldLeg, H
  <2>2. QED
    BY <1>1, <1>2, <2>1
<1>4. CASE st = "FILLED"
  <2>1. HoldLeg(o, st) = Adjusted(bal, HoldAsset(o), 0, -H)
    BY <1>4 DEF HoldLeg, H
  <2>2. QED
    BY <1>1, <1>4, <2>1
<1>5. CASE st = "CANCELED"
  <2>1. HoldLeg(o, st) = Adjusted(bal, HoldAsset(o), H, -H)
    BY <1>5 DEF HoldLeg, H
  <2>2. QED
    BY <1>1, <1>2, <2>1
<1>6. QED
  BY <1>3, <1>4, <1>5

(* A balance update keeps shared names equal. *)
LEMMA UpdateBalanceShared ==
  ASSUME TypeInv, AliasInv, NEW o \in OrderReqs,
         NEW st \in {"NEW", "FILLED", "CANCELED"}, UpdateBalance(o, st)
  PROVE  AliasInv'
<1>1. SharedAre(bal) /\ bal \in [Assets -> Asset] /\ aliases' = aliases
  BY DEF AliasInv, TypeInv, CoreTypeOK, BalanceTypeOK, UpdateBalance
<1>2. SharedAre(HoldLeg(o, st)) /\ HoldLeg(o, st) \in [Assets -> Asset]
  <2>1. PICK f, l \in Int : HoldLeg(o, st) = Adjusted(bal, HoldAsset(o), f, l)
    BY HoldLegAdjusts
  <2>2. QED
    BY <1>1, <2>1, AmountTypes, AdjustedShared, AdjustedType
<1>3. CASE st = "FILLED"
  <2>1. GainLeg(o) = Adjusted(HoldLeg(o, st), GainAsset(o), Gain(o), 0)
    BY <1>3 DEF GainLeg
  <2>2. SharedAre(GainLeg(o))
    BY <1>2, <2>1, AmountTypes, AdjustedShared
  <2>3. bal' = HoldLeg(o, st) \/ bal' = GainLeg(o)
    BY <1>3 DEF UpdateBalance
  <2>4. QED
    BY <1>1, <1>2, <2>2, <2>3 DEF AliasInv, SharedAre
<1>4. CASE st # "FILLED"
  BY <1>1, <1>2, <1>4 DEF UpdateBalance, AliasInv, SharedAre
<1>5. QED
  BY <1>3, <1>4

(* Setting balances makes the listed names share one asset. *)
LEMMA SetAssetsShared ==
  ASSUME TypeInv, AliasInv, NEW list \in BalanceLists, SetAssets(list)
  PROVE  AliasInv'
<1>1. CASE list = <<>>
  BY <1>1 DEF SetAssets, balVars, AliasInv, SharedAre
<1>2. CASE list # <<>>
  <2> DEFINE N == Names(list)
             v == [free |-> list[Len(list)].free, locked |-> list[Len(list)].locked]
  <2>1. /\ bal' = [x \in Assets |-> IF x \in N THEN v ELSE bal[x]]
        /\ aliases' = [x \in Assets |-> IF x \in N THEN N ELSE aliases[x] \ N]
    BY <1>2 DEF SetAssets
  <2> HIDE DEF N, v
  <2>2. \A a \in Assets : a \in aliases'[a] /\ \A x \in aliases'[a] : x \in Assets => aliases'[x] = aliases'[a]
    BY <2>1 DEF AliasInv
  <2>3. aliases' \in [Assets -> SUBSET Assets]
    BY SetAssetsType DEF TypeInv, CoreTypeOK, BalanceTypeOK
  <2>4. \A a \in Assets : \A x \in aliases'[a] : bal'[x] = bal'[a]
    BY <2>1, <2>3 DEF AliasInv, SharedAre
  <2>5. QED
    BY <2>2, <2>3, <2>4 DEF AliasInv, SharedAre
<1>3. QED
  BY <1>1, <1>2

(* The steps that leave the balances alone. *)
LEMMA BalancesUntouched ==
  ASSUME Request \/ CallCancelUnknown \/ CallGet \/ Drained \/ Control
         \/ (\E k \in Klines : Kline(k)) \/ EndMatch \/ TrackerSignal \/ Panics
         \/ UNCHANGED coreVars
  PROVE  UNCHANGED balVars
<1>1. CASE Request
  BY <1>1 DEF Request, CreateOrder, CreateOrders, ReplaceOrder, GetOrder, CancelOrder,
     CancelOrders, SetBalances, GetBalances, GetPrice, Accept
<1>2. CASE CallCancelUnknown \/ CallGet \/ Drained \/ Control
  BY <1>2 DEF CallCancelUnknown, CallGet, Drained, Control
<1>3. CASE (\E k \in Klines : Kline(k)) \/ EndMatch \/ TrackerSignal \/ UNCHANGED coreVars
  BY <1>3 DEF Kline, EndMatch, TrackerSignal, coreVars
<1>4. QED
  BY <1>1, <1>2, <1>3, PanicSteps

LEMMA AliasNext ==
  ASSUME TypeInv, AliasInv, [Next]_vars
  PROVE  AliasInv'
<1>1. CASE UNCHANGED balVars
  BY <1>1 DEF balVars, AliasInv, SharedAre
<1>2. ASSUME CallAdd, ~UNCHANGED balVars
      PROVE  AliasInv'
  <2>1. Head(todo).req \in OrderReqs /\ UpdateBalance(Head(todo).req, "NEW")
    BY <1>2, CallFields DEF CallAdd, Calling, TypeInv
  <2>2. QED
    BY <2>1, UpdateBalanceShared
<1>3. CASE CallCancel
  <2>1. PICK h \in active : UpdateBalance(orders[h], "CANCELED")
    BY <1>3 DEF CallCancel
  <2>2. orders[h] \in OrderReqs
    BY DEF TypeInv, CoreTypeOK, OrderTypeOK
  <2>3. QED
    BY <2>1, <2>2, UpdateBalanceShared
<1>4. ASSUME MatchOrder, ~UNCHANGED balVars
      PROVE  AliasInv'
  <2>1. PICK h \in visit : UpdateBalance(orders[h], "FILLED")
    BY <1>4 DEF MatchOrder, balVars
  <2>2. orders[h] \in OrderReqs
    BY DEF TypeInv, CoreTypeOK, OrderTypeOK
  <2>3. QED
    BY <2>1, <2>2, UpdateBalanceShared
<1>5. CASE CallSet
  <2>1. Head(todo).list \in BalanceLists /\ SetAssets(Head(todo).list)
    BY <1>5, CallFields DEF CallSet, Calling, TypeInv
  <2>2. QED
    BY <2>1, SetAssetsShared
<1>6. QED
  BY NextCases, <1>1, <1>2, <1>3, <1>4, <1>5, BalancesUntouched DEF Call, Match

(* A hold or a release moves an asset's amount between free and locked. *)
LEMMA HoldKeepsWorth ==
  ASSUME TypeInv, AliasInv, NEW o \in OrderReqs, NEW st \in {"NEW", "CANCELED"},
         UpdateBalance(o, st), NEW a \in Assets
  PROVE  Worth(a)' = Worth(a)
<1>1. PICK f, l \in Int : /\ HoldLeg(o, st) = Adjusted(bal, HoldAsset(o), f, l)
                          /\ f + l = 0
  BY HoldLegAdjusts
<1>2. bal' = Adjusted(bal, HoldAsset(o), f, l)
  BY <1>1 DEF UpdateBalance
<1>3. /\ bal[a].free \in Int /\ bal[a].locked \in Int
      /\ a \in aliases[HoldAsset(o)] => bal[HoldAsset(o)] = bal[a]
  BY AmountTypes DEF TypeInv, CoreTypeOK, BalanceTypeOK, Asset, AliasInv, SharedAre
<1>4. \/ bal'[a] = bal[a]
      \/ bal'[a] = [free |-> bal[a].free + f, locked |-> bal[a].locked + l]
  BY <1>2, <1>3 DEF Adjusted
<1>5. bal'[a].free + bal'[a].locked = bal[a].free + bal[a].locked
  BY <1>1, <1>3, <1>4
<1>6. QED
  BY <1>5 DEF Worth

LEMMA FundsStep ==
  ASSUME TypeInv, AliasInv, [Next]_vars, pc # "match", ~Calling("set")
  PROVE  \A a \in Assets : Worth(a)' = Worth(a)
<1>1. CASE UNCHANGED balVars
  BY <1>1 DEF balVars, Worth
<1>2. ASSUME CallAdd, ~UNCHANGED balVars
      PROVE  \A a \in Assets : Worth(a)' = Worth(a)
  <2>1. Head(todo).req \in OrderReqs /\ UpdateBalance(Head(todo).req, "NEW")
    BY <1>2, CallFields DEF CallAdd, Calling, TypeInv
  <2>2. QED
    BY <2>1, HoldKeepsWorth
<1>3. CASE CallCancel
  <2>1. PICK h \in active : UpdateBalance(orders[h], "CANCELED")
    BY <1>3 DEF CallCancel
  <2>2. orders[h] \in OrderReqs
    BY DEF TypeInv, CoreTypeOK, OrderTypeOK
  <2>3. QED
    BY <2>1, <2>2, HoldKeepsWorth
<1>4. ~MatchOrder /\ ~CallSet
  BY DEF MatchOrder, CallSet
<1>5. QED
  BY NextCases, <1>1, <1>2, <1>3, <1>4, BalancesUntouched DEF Call, Match

LEMMA AliasInit == Init => AliasInv
BY DEF Init, BalanceInit, AliasInv, SharedAre

(* Placing, cancelling and replacing orders never changes what a client    *)
(* owns, even when the update fails and whichever names share an asset.    *)
THEOREM FundsKept == Spec => OnlyFillsMoveFunds
<1>1. Init => TypeInv /\ AliasInv
  BY TypeInit, AliasInit
<1>2. TypeInv /\ AliasInv /\ [Next]_vars => (TypeInv /\ AliasInv)'
  BY TypeNext, AliasNext
<1>3. TypeInv /\ AliasInv /\ [Next]_vars
        => [\/ pc = "match"
            \/ Calling("set")
            \/ \A a \in Assets : Worth(a)' = Worth(a)]_vars
  BY FundsStep
<1>4. QED
  BY <1>1, <1>2, <1>3, PTL DEF Spec, OnlyFillsMoveFunds
-----------------------------------------------------------------------------
(* What is locked.  The invariant adds to the one of the book: without an  *)
(* alias every name has its own asset, no order that Range still visits is *)
(* filled, and until something irregular happens every free amount and     *)
(* every order's amounts are not negative.                                 *)

Unaliased == "alias" \notin mishaps => \A a \in Assets : aliases[a] = {a}

VisitUnfilled == visit \cap filled = {}

NothingNegative ==
  mishaps = {} => /\ \A a \in Assets : bal[a].free >= 0
                  /\ \A h \in active : Hold(orders[h]) >= 0 /\ Gain(orders[h]) >= 0

FundsInv == Unaliased /\ VisitUnfilled /\ LockedBacksBook /\ NothingNegative

(* The open orders of an asset are finitely many, with integer amounts. *)
LEMMA OpenFinite ==
  ASSUME CoreTypeOK, NEW a \in Assets
  PROVE  /\ IsFiniteSet(Open(a))
         /\ \A h \in Open(a) : h \in DOMAIN orders /\ orders[h] \in OrderReqs /\ Hold(orders[h]) \in Int
<1>1. active \subseteq 1 .. orderSequence /\ orderSequence \in Nat
  BY DEF CoreTypeOK, OrderTypeOK
<1>2. Open(a) \in SUBSET (1 .. orderSequence)
  BY <1>1 DEF Open
<1>3. IsFiniteSet(1 .. orderSequence)
  BY <1>1, FS_Interval
<1>4. IsFiniteSet(Open(a))
  BY <1>2, <1>3, FS_Subset
<1>5. \A h \in Open(a) : h \in DOMAIN orders /\ orders[h] \in OrderReqs
  BY DEF Open, CoreTypeOK, OrderTypeOK
<1> QED
  BY <1>4, <1>5, AmountTypes

(* What is committed changes with the open orders. *)
LEMMA CommittedKept ==
  ASSUME CoreTypeOK, NEW a \in Assets, Open(a)' = Open(a),
         DOMAIN orders \subseteq DOMAIN orders',
         \A h \in DOMAIN orders : orders'[h] = orders[h]
  PROVE  Committed(a)' = Committed(a) /\ Committed(a) \in Int
<1> DEFINE w == [h \in DOMAIN orders |-> Hold(orders[h])]
           u == [h \in DOMAIN orders' |-> Hold(orders'[h])]
<1>1. \A h \in Open(a) : w[h] \in Int /\ u[h] = w[h]
  BY OpenFinite DEF Hold, Buys, Sells, Total
<1>2. /\ Committed(a) = SumFunctionOnSet(w, Open(a))
      /\ Committed(a)' = SumFunctionOnSet(u, Open(a))
  BY DEF Committed, Hold, Buys, Sells, Total
<1> HIDE DEF w, u
<1>3. IsFiniteSet(Open(a))
  BY OpenFinite
<1> QED
  BY <1>1, <1>2, <1>3, SumSame, SumRemove

LEMMA CommittedLess ==
  ASSUME CoreTypeOK, NEW a \in Assets, NEW h \in Open(a), Open(a)' = Open(a) \ {h}, orders' = orders
  PROVE  Committed(a)' = Committed(a) - Hold(orders[h]) /\ Committed(a) \in Int
<1> DEFINE w == [k \in DOMAIN orders |-> Hold(orders[k])]
<1>1. \A k \in Open(a) : w[k] \in Int /\ w[h] = Hold(orders[h])
  BY OpenFinite
<1>2. /\ Committed(a) = SumFunctionOnSet(w, Open(a))
      /\ Committed(a)' = SumFunctionOnSet(w, Open(a) \ {h})
  BY DEF Committed, Hold, Buys, Sells, Total
<1> HIDE DEF w
<1>3. IsFiniteSet(Open(a)) /\ IsFiniteSet(Open(a) \ {h})
  BY OpenFinite, FS_RemoveElement
<1>4. SumFunctionOnSet(w, Open(a)) = w[h] + SumFunctionOnSet(w, Open(a) \ {h})
  BY <1>1, <1>3, SumRemove
<1>5. SumFunctionOnSet(w, Open(a) \ {h}) \in Int /\ SumFunctionOnSet(w, Open(a)) \in Int
  BY <1>1, <1>3, SumRemove
<1> QED
  BY <1>1, <1>2, <1>4, <1>5

LEMMA CommittedMore ==
  ASSUME CoreTypeOK, NEW a \in Assets, NEW r \in OrderReqs, NEW n, n \notin DOMAIN orders,
         Open(a)' = Open(a) \cup {n},
         DOMAIN orders' = DOMAIN orders \cup {n}, orders'[n] = r,
         \A h \in DOMAIN orders : orders'[h] = orders[h]
  PROVE  Committed(a)' = Committed(a) + Hold(r) /\ Committed(a) \in Int
<1> DEFINE w == [h \in DOMAIN orders |-> Hold(orders[h])]
           u == [h \in DOMAIN orders' |-> Hold(orders'[h])]
<1>1. \A h \in Open(a) : w[h] \in Int /\ u[h] = w[h] /\ h # n
  BY OpenFinite DEF Hold, Buys, Sells, Total
<1>2. u[n] = Hold(r) /\ Hold(r) \in Int
  BY AmountTypes DEF Hold, Buys, Sells, Total
<1>3. /\ Committed(a) = SumFunctionOnSet(w, Open(a))
      /\ Committed(a)' = SumFunctionOnSet(u, Open(a) \cup {n})
  BY DEF Committed, Hold, Buys, Sells, Total
<1> HIDE DEF w, u
<1>4. IsFiniteSet(Open(a)) /\ n \notin Open(a)
  BY <1>1, OpenFinite
<1>5. \A h \in Open(a) \cup {n} : u[h] \in Int
  BY <1>1, <1>2
<1>6. SumFunctionOnSet(u, Open(a) \cup {n}) = u[n] + SumFunctionOnSet(u, Open(a))
  BY <1>4, <1>5, SumAdd
<1>7. SumFunctionOnSet(u, Open(a)) = SumFunctionOnSet(w, Open(a))
  BY <1>1, <1>4, SumSame
<1>8. SumFunctionOnSet(w, Open(a)) \in Int
  BY <1>1, <1>4, SumRemove
<1> QED
  BY <1>2, <1>3, <1>6, <1>7, <1>8

(* What is committed is an integer. *)
LEMMA CommittedIsInt ==
  ASSUME CoreTypeOK, NEW a \in Assets
  PROVE  Committed(a) \in Int
<1> DEFINE w == [h \in DOMAIN orders |-> Hold(orders[h])]
<1>1. \A h \in Open(a) : w[h] \in Int
  BY OpenFinite
<1> HIDE DEF w
<1>2. SumFunctionOnSet(w, Open(a)) \in Int
  BY <1>1, OpenFinite, SumRemove
<1> QED
  BY <1>2 DEF Committed, w

(* An open order's amount is part of what is committed. *)
LEMMA CommittedCovers ==
  ASSUME CoreTypeOK, NEW a \in Assets, NEW h \in Open(a),
         \A k \in Open(a) : Hold(orders[k]) >= 0
  PROVE  Committed(a) >= Hold(orders[h])
<1> DEFINE w == [k \in DOMAIN orders |-> Hold(orders[k])]
<1>1. \A k \in Open(a) : w[k] \in Nat
  BY OpenFinite
<1>2. Committed(a) = SumFunctionOnSet(w, Open(a)) /\ w[h] = Hold(orders[h])
  BY OpenFinite DEF Committed
<1> HIDE DEF w
<1>3. IsFiniteSet(Open(a)) /\ IsFiniteSet(Open(a) \ {h}) /\ \A k \in Open(a) : w[k] \in Int
  BY <1>1, OpenFinite, FS_RemoveElement
<1>4. SumFunctionOnSet(w, Open(a)) = w[h] + SumFunctionOnSet(w, Open(a) \ {h})
  BY <1>3, SumRemove
<1>5. SumFunctionOnSet(w, Open(a) \ {h}) \in Nat
  BY <1>1, <1>3, SumNat
<1> QED
  BY <1>1, <1>2, <1>4, <1>5

(* What a transaction does to the amounts when every name has its own      *)
(* asset, and what the two legs of a balance update do.                    *)
LEMMA AdjustedAlone ==
  ASSUME CoreTypeOK, \A c \in Assets : aliases[c] = {c},
         NEW b \in [Assets -> Asset], NEW a \in Assets, NEW f \in Int, NEW l \in Int,
         NEW x \in Assets
  PROVE  /\ Adjusted(b, a, f, l)[x].free = IF x = a THEN b[x].free + f ELSE b[x].free
         /\ Adjusted(b, a, f, l)[x].locked = IF x = a THEN b[x].locked + l ELSE b[x].locked
BY DEF Adjusted, Asset

LEMMA HoldLegAlone ==
  ASSUME CoreTypeOK, \A c \in Assets : aliases[c] = {c}, NEW o \in OrderReqs, NEW x \in Assets
  PROVE  /\ HoldLeg(o, "NEW")[x].free = bal[x].free - IF x = HoldAsset(o) THEN Hold(o) ELSE 0
         /\ HoldLeg(o, "NEW")[x].locked = bal[x].locked + IF x = HoldAsset(o) THEN Hold(o) ELSE 0
         /\ HoldLeg(o, "CANCELED")[x].free = bal[x].free + IF x = HoldAsset(o) THEN Hold(o) ELSE 0
         /\ HoldLeg(o, "CANCELED")[x].locked = bal[x].locked - IF x = HoldAsset(o) THEN Hold(o) ELSE 0
         /\ HoldLeg(o, "FILLED")[x].free = bal[x].free
         /\ HoldLeg(o, "FILLED")[x].locked = bal[x].locked - IF x = HoldAsset(o) THEN Hold(o) ELSE 0
<1> DEFINE H == Hold(o)
           A == HoldAsset(o)
<1>1. H \in Int /\ -H \in Int /\ 0 \in Int /\ A \in Assets
  BY AmountTypes
<1>2. bal \in [Assets -> Asset] /\ bal[x].free \in Int /\ bal[x].locked \in Int
  BY DEF CoreTypeOK, BalanceTypeOK, Asset
<1>3. /\ HoldLeg(o, "NEW") = Adjusted(bal, A, -H, H)
      /\ HoldLeg(o, "CANCELED") = Adjusted(bal, A, H, -H)
      /\ HoldLeg(o, "FILLED") = Adjusted(bal, A, 0, -H)
  BY Zenon DEF HoldLeg
<1> HIDE DEF H, A
<1>4. /\ HoldLeg(o, "NEW")[x].free = bal[x].free - IF x = A THEN H ELSE 0
      /\ HoldLeg(o, "NEW")[x].locked = bal[x].locked + IF x = A THEN H ELSE 0
  BY <1>1, <1>2, <1>3, AdjustedAlone
<1>5. /\ HoldLeg(o, "CANCELED")[x].free = bal[x].free + IF x = A THEN H ELSE 0
      /\ HoldLeg(o, "CANCELED")[x].locked = bal[x].locked - IF x = A THEN H ELSE 0
  BY <1>1, <1>2, <1>3, AdjustedAlone
<1>6. /\ HoldLeg(o, "FILLED")[x].free = bal[x].free
      /\ HoldLeg(o, "FILLED")[x].locked = bal[x].locked - IF x = A THEN H ELSE 0
  BY <1>1, <1>2, <1>3, AdjustedAlone
<1> QED
  BY <1>4, <1>5, <1>6 DEF H, A

LEMMA GainLegAlone ==
  ASSUME CoreTypeOK, \A c \in Assets : aliases[c] = {c}, NEW o \in OrderReqs, NEW x \in Assets
  PROVE  /\ GainLeg(o)[x].free = bal[x].free + IF x = GainAsset(o) THEN Gain(o) ELSE 0
         /\ GainLeg(o)[x].locked = bal[x].locked - IF x = HoldAsset(o) THEN Hold(o) ELSE 0
<1>1. HoldLeg(o, "FILLED") \in [Assets -> Asset]
  BY HoldLegType DEF CoreTypeOK
<1> DEFINE b == HoldLeg(o, "FILLED")
<1>2. /\ b[x].free = bal[x].free
      /\ b[x].locked = bal[x].locked - IF x = HoldAsset(o) THEN Hold(o) ELSE 0
      /\ b[x].free \in Int /\ b[x].locked \in Int
  BY <1>1, HoldLegAlone DEF Asset
<1>3. GainLeg(o) = Adjusted(b, GainAsset(o), Gain(o), 0)
  BY DEF GainLeg
<1> HIDE DEF b
<1>4. b \in [Assets -> Asset] /\ Gain(o) \in Int /\ GainAsset(o) \in Assets /\ 0 \in Int
  BY <1>1, AmountTypes DEF b
<1>5. /\ GainLeg(o)[x].free = IF x = GainAsset(o) THEN b[x].free + Gain(o) ELSE b[x].free
      /\ GainLeg(o)[x].locked = IF x = GainAsset(o) THEN b[x].locked + 0 ELSE b[x].locked
  BY <1>3, <1>4, AdjustedAlone
<1> QED
  BY <1>2, <1>4, <1>5

-----------------------------------------------------------------------------
(* The steps that leave the book alone. *)
LEMMA BookUntouched ==
  ASSUME CoreTypeOK,
         Request \/ CallCancelUnknown \/ CallGet \/ CallSet \/ Drained \/ Control
           \/ (\E k \in Klines : Kline(k)) \/ TrackerSignal \/ UNCHANGED coreVars
  PROVE  UNCHANGED <<orders, status, active>> /\ mishaps \subseteq mishaps'
<1> USE DEF orderVars, bookVars
<1>1. CASE Request
  BY <1>1 DEF Request, CreateOrder, CreateOrders, ReplaceOrder, GetOrder, CancelOrder,
     CancelOrders, SetBalances, GetBalances, GetPrice, Accept
<1>2. CASE CallCancelUnknown \/ CallGet \/ CallSet
  BY <1>2 DEF CallCancelUnknown, TrackerCancelUnknown, CallGet, TrackerRead, CallSet, Upset
<1>3. CASE Drained \/ Control \/ (\E k \in Klines : Kline(k))
  BY <1>3 DEF Drained, Control, Kline
<1>4. CASE TrackerSignal \/ UNCHANGED coreVars
  BY <1>4 DEF TrackerSignal, SendSignal, coreVars, exchangeVars
<1> QED
  BY <1>1, <1>2, <1>3, <1>4

LEMMA CommittedSame ==
  ASSUME CoreTypeOK, UNCHANGED <<orders, status, active>>, NEW a \in Assets
  PROVE  Committed(a)' = Committed(a) /\ Committed(a) \in Int
<1>1. Open(a)' = Open(a)
  BY DEF Open, HoldAsset, Buys, Sells
<1> QED
  BY <1>1, CommittedKept

(* Every name keeps its own asset. *)
LEMMA UnaliasedNext ==
  ASSUME TypeInv, Unaliased, [Next]_vars
  PROVE  Unaliased'
<1>1. ASSUME UNCHANGED aliases, mishaps \subseteq mishaps'
      PROVE  Unaliased'
  BY <1>1 DEF Unaliased
<1>2. CASE CallAdd
  BY <1>1, <1>2 DEF CallAdd, UpdateBalance, Upset, balVars
<1>3. CASE CallCancel
  BY <1>1, <1>3 DEF CallCancel, UpdateBalance, Upset
<1>4. CASE MatchOrder
  BY <1>1, <1>4 DEF MatchOrder, UpdateBalance, Upset, balVars
<1>5. CASE EndMatch
  BY <1>1, <1>5 DEF EndMatch, balVars
<1>6. CASE CallSet
  <2> DEFINE list == Head(todo).list
  <2>1. SetAssets(list) /\ mishaps' = mishaps \cup SetMishaps(list)
    BY <1>6 DEF CallSet, Upset
  <2> HIDE DEF list
  <2>2. SUFFICES ASSUME "alias" \notin mishaps' PROVE \A a \in Assets : aliases'[a] = {a}
    BY DEF Unaliased
  <2>3. \A a \in Assets : aliases[a] = {a}
    BY <2>1, <2>2 DEF Unaliased
  <2>4. \A c, d \in Names(list) : c = d
    BY <2>1, <2>2 DEF SetMishaps, Event
  <2>5. CASE list = <<>>
    BY <2>1, <2>3, <2>5 DEF SetAssets, balVars
  <2>6. CASE list # <<>>
    <3>1. \A x \in Assets : aliases'[x] = IF x \in Names(list) THEN Names(list)
                                                               ELSE aliases[x] \ Names(list)
      BY <2>1, <2>6 DEF SetAssets
    <3>2. \A a \in Names(list) : Names(list) = {a}
      BY <2>4
    <3>3. \A a \in Assets : a \notin Names(list) => {a} \ Names(list) = {a}
      OBVIOUS
    <3> QED
      BY <2>3, <3>1, <3>2, <3>3
  <2> QED
    BY <2>5, <2>6
<1>7. CASE Panics
  BY <1>1, <1>7, PanicSteps DEF balVars
<1> QED
  BY NextCases, <1>1, <1>2, <1>3, <1>4, <1>5, <1>6, <1>7, BookUntouched, BalancesUntouched
     DEF Call, Match, balVars, TypeInv

(* Range does not visit an order that it filled. *)
LEMMA VisitNext ==
  ASSUME TypeInv, VisitUnfilled, [Next]_vars
  PROVE  VisitUnfilled'
<1>1. CASE UNCHANGED <<visit, filled>>
  BY <1>1 DEF VisitUnfilled
<1>2. CASE (\E k \in Klines : Kline(k)) \/ EndMatch
  BY <1>2 DEF Kline, EndMatch, VisitUnfilled
<1>3. CASE MatchOrder
  BY <1>3 DEF MatchOrder, VisitUnfilled
<1>4. CASE Request \/ Drained \/ Control \/ TrackerSignal \/ UNCHANGED coreVars
  BY <1>1, <1>4 DEF Request, CreateOrder, CreateOrders, ReplaceOrder, GetOrder, CancelOrder,
     CancelOrders, SetBalances, GetBalances, GetPrice, Accept, Drained, Control,
     TrackerSignal, coreVars, exchangeVars
<1>5. CASE Call
  BY <1>1, <1>5 DEF Call, CallAdd, CallCancel, CallCancelUnknown, CallGet, CallSet
<1> QED
  BY NextCases, PanicSteps, <1>1, <1>2, <1>3, <1>4, <1>5 DEF Match

-----------------------------------------------------------------------------
LEMMA LockedCallAdd ==
  ASSUME TypeInv, BookInv, FundsInv, CallAdd
  PROVE  LockedBacksBook' /\ NothingNegative'
<1> DEFINE r == Head(todo).req
<1>1. r \in OrderReqs /\ CoreTypeOK
  BY CallFields DEF CallAdd, Calling, TypeInv
<1>2. TrackerAdd(r)
  BY DEF CallAdd
<1>3. CASE ~r.valid
  <2>1. UNCHANGED <<orders, status, active, bal, mishaps>>
    BY <1>2, <1>3 DEF CallAdd, TrackerAdd, balVars
  <2> QED
    BY <1>1, <2>1, CommittedSame DEF FundsInv, LockedBacksBook, NothingNegative,
       Hold, Gain, Buys, Sells, Total
<1>4. CASE r.valid
  <2> HIDE DEF r
  <2>1. /\ UpdateBalance(r, "NEW")
        /\ mishaps \subseteq mishaps'
        /\ UpdateFails(r, "NEW") => "overdraft" \in mishaps'
        /\ Hold(r) < 0 \/ Gain(r) < 0 => "negative" \in mishaps'
    BY <1>4 DEF CallAdd, Upset, Event, r
  <2>2. bal' = HoldLeg(r, "NEW")
    BY <2>1 DEF UpdateBalance
  <2>3. /\ NextHandle \notin DOMAIN orders /\ active \subseteq DOMAIN orders
        /\ DOMAIN status = DOMAIN orders
    BY <1>1 DEF CoreTypeOK, OrderTypeOK, NextHandle
  <2>4. /\ active' = active \cup {NextHandle}
        /\ DOMAIN orders' = DOMAIN orders \cup {NextHandle}
        /\ status'[NextHandle] = "NEW" /\ orders'[NextHandle] = r
        /\ \A h \in DOMAIN orders : status'[h] = status[h] /\ orders'[h] = orders[h]
    BY <1>2, <1>4, <2>3 DEF TrackerAdd
  <2>5. ASSUME NEW a \in Assets
        PROVE  /\ Committed(a)' = Committed(a) + IF a = HoldAsset(r) THEN Hold(r) ELSE 0
               /\ Committed(a) \in Int
    <3>1. CASE a = HoldAsset(r)
      <4>1. Open(a)' = Open(a) \cup {NextHandle}
        BY <2>3, <2>4, <3>1 DEF Open, HoldAsset, Buys, Sells
      <4> QED
        BY <1>1, <2>3, <2>4, <3>1, <4>1, CommittedMore
    <3>2. CASE a # HoldAsset(r)
      <4>1. Open(a)' = Open(a)
        BY <2>3, <2>4, <3>2 DEF Open, HoldAsset, Buys, Sells
      <4> QED
        BY <1>1, <2>3, <2>4, <3>2, <4>1, CommittedKept
    <3> QED
      BY <3>1, <3>2
  <2>6. LockedBacksBook'
    <3> SUFFICES ASSUME mishaps' \subseteq {"negative"}, NEW a \in Assets
                 PROVE  bal'[a].locked = Committed(a)'
      BY DEF LockedBacksBook
    <3>1. bal[a].locked = Committed(a) /\ \A c \in Assets : aliases[c] = {c}
      BY <2>1 DEF FundsInv, LockedBacksBook, Unaliased
    <3> QED
      BY <1>1, <2>2, <2>5, <3>1, HoldLegAlone
  <2>7. NothingNegative'
    <3> SUFFICES ASSUME mishaps' = {}
                 PROVE  /\ \A a \in Assets : bal'[a].free >= 0
                        /\ \A h \in active' : Hold(orders'[h]) >= 0 /\ Gain(orders'[h]) >= 0
      BY DEF NothingNegative, Hold, Gain, Buys, Sells, Total
    <3>1. /\ \A c \in Assets : aliases[c] = {c} /\ bal[c].free >= 0
          /\ \A h \in active : Hold(orders[h]) >= 0 /\ Gain(orders[h]) >= 0
          /\ Hold(r) \in Int /\ Gain(r) \in Int
      BY <1>1, <2>1, AmountTypes DEF FundsInv, NothingNegative, Unaliased
    <3>2. Hold(r) >= 0 /\ Gain(r) >= 0
      BY <2>1, <3>1
    <3>3. ~Negative(bal', HoldAsset(r))
      BY <2>1, <2>2 DEF UpdateFails, HoldFails
    <3>4. ASSUME NEW a \in Assets
          PROVE  bal'[a].free >= 0
      <4>1. CASE a = HoldAsset(r)
        <5>1. bal'[a].free \in Int
          BY UpdateBalanceType, <1>1, <2>1 DEF CoreTypeOK, BalanceTypeOK, Asset
        <5> QED
          BY <3>3, <4>1, <5>1 DEF Negative
      <4>2. CASE a # HoldAsset(r)
        <5>1. bal'[a].free = bal[a].free - 0 /\ bal[a].free \in Int
          BY <1>1, <2>2, <3>1, <4>2, HoldLegAlone DEF CoreTypeOK, BalanceTypeOK, Asset
        <5> QED
          BY <3>1, <5>1
      <4> QED
        BY <4>1, <4>2
    <3>5. \A h \in active' : Hold(orders'[h]) >= 0 /\ Gain(orders'[h]) >= 0
      BY <2>3, <2>4, <3>1, <3>2
    <3> QED
      BY <3>4, <3>5
  <2> QED
    BY <2>6, <2>7
<1> QED
  BY <1>3, <1>4

(* Without an overdraft or a reused id, an order of the book that no Range *)
(* has filled is open.                                                     *)
LEMMA BookIsOpen ==
  ASSUME TypeInv, BookInv, NEW h \in active, h \notin filled,
         mishaps \subseteq {"negative"}
  PROVE  status[h] = "NEW"
<1>1. status[h] \in {"NEW", "FILLED", "CANCELED"}
  BY DEF TypeInv, CoreTypeOK, OrderTypeOK
<1>2. mishaps \cap {"overdraft", "dup"} = {}
  OBVIOUS
<1> QED
  BY <1>1, <1>2 DEF BookInv, DoneLeavesBook

(* An open order that leaves the open orders. *)
LEMMA CommittedClosed ==
  ASSUME CoreTypeOK, NEW h \in active, status[h] = "NEW",
         NEW st \in {"FILLED", "CANCELED"}, status' = [status EXCEPT ![h] = st],
         orders' = orders, active' = active \/ active' = active \ {h},
         NEW a \in Assets
  PROVE  /\ Committed(a)' = Committed(a) - IF a = HoldAsset(orders[h]) THEN Hold(orders[h]) ELSE 0
         /\ Committed(a) \in Int
<1>1. h \in DOMAIN status /\ active \subseteq DOMAIN status
  BY DEF CoreTypeOK, OrderTypeOK
<1>2. CASE a = HoldAsset(orders[h])
  <2>1. h \in Open(a) /\ Open(a)' = Open(a) \ {h}
    BY <1>1, <1>2 DEF Open, HoldAsset, Buys, Sells
  <2> QED
    BY <1>2, <2>1, CommittedLess
<1>3. CASE a # HoldAsset(orders[h])
  <2>1. Open(a)' = Open(a)
    BY <1>1, <1>3 DEF Open, HoldAsset, Buys, Sells
  <2> QED
    BY <1>3, <2>1, CommittedKept
<1> QED
  BY <1>2, <1>3

(* Nothing fails while nothing irregular happened: what an open order      *)
(* holds is locked.                                                        *)
LEMMA LockedCovers ==
  ASSUME TypeInv, FundsInv, mishaps = {}, NEW h \in active, status[h] = "NEW"
  PROVE  /\ bal[HoldAsset(orders[h])].locked >= Hold(orders[h])
         /\ Hold(orders[h]) >= 0 /\ Gain(orders[h]) >= 0
         /\ \A a \in Assets : bal[a].free >= 0 /\ bal[a].locked >= 0
         /\ \A c \in Assets : aliases[c] = {c}
<1>1. /\ orders[h] \in OrderReqs /\ CoreTypeOK
      /\ \A k \in active : Hold(orders[k]) >= 0 /\ Gain(orders[k]) >= 0
      /\ \A a \in Assets : bal[a].free >= 0 /\ bal[a].locked = Committed(a) /\ aliases[a] = {a}
  BY DEF TypeInv, CoreTypeOK, OrderTypeOK, FundsInv, NothingNegative, LockedBacksBook, Unaliased
<1>2. HoldAsset(orders[h]) \in Assets /\ h \in Open(HoldAsset(orders[h]))
  BY <1>1, AmountTypes DEF Open
<1>3. ASSUME NEW a \in Assets
      PROVE  Committed(a) >= 0
  <2>1. CASE Open(a) = {}
    BY <2>1, SumEmpty DEF Committed
  <2>2. ASSUME NEW k \in Open(a)
        PROVE  Committed(a) >= 0
    <3>1. Committed(a) >= Hold(orders[k]) /\ Hold(orders[k]) >= 0
      BY <1>1, CommittedCovers DEF Open
    <3>2. Hold(orders[k]) \in Int /\ Committed(a) \in Int
      BY <1>1, OpenFinite, CommittedIsInt
    <3> QED
      BY <3>1, <3>2
  <2> QED
    BY <2>1, <2>2
<1>4. Committed(HoldAsset(orders[h])) >= Hold(orders[h])
  <2>1. \A k \in Open(HoldAsset(orders[h])) : Hold(orders[k]) >= 0
    BY <1>1 DEF Open
  <2> QED
    BY <1>1, <1>2, <2>1, CommittedCovers
<1> QED
  BY <1>1, <1>2, <1>3, <1>4

(* The amounts after a balance update are integers. *)
LEMMA HoldLegInts ==
  ASSUME CoreTypeOK, NEW o \in OrderReqs, NEW st \in {"NEW", "FILLED", "CANCELED"}, NEW a \in Assets
  PROVE  /\ HoldLeg(o, st)[a].free \in Int /\ HoldLeg(o, st)[a].locked \in Int
         /\ GainLeg(o)[a].free \in Int /\ GainLeg(o)[a].locked \in Int
<1>1. bal \in [Assets -> Asset] /\ CoreTypeOK
  BY DEF CoreTypeOK, BalanceTypeOK
<1>2. HoldLeg(o, st) \in [Assets -> Asset] /\ HoldLeg(o, "FILLED") \in [Assets -> Asset]
  BY HoldLegType DEF CoreTypeOK
<1>3. GainLeg(o) \in [Assets -> Asset]
  BY <1>2, AmountTypes, AdjustedType DEF GainLeg
<1> QED
  BY <1>2, <1>3 DEF Asset

(* A cancel gives back what the order held. *)
LEMMA LockedCallCancel ==
  ASSUME TypeInv, BookInv, FundsInv, CallCancel
  PROVE  /\ LockedBacksBook' /\ NothingNegative'
         /\ mishaps = {} => mishaps' = {}
<1>1. PICK h \in active :
        /\ TrackerCancel(Head(todo).id, h)
        /\ UpdateBalance(orders[h], "CANCELED")
        /\ Upset(Event("overdraft", UpdateFails(orders[h], "CANCELED")))
  BY DEF CallCancel
<1>2. filled = {} /\ CoreTypeOK /\ orders[h] \in OrderReqs /\ mishaps \subseteq mishaps'
  BY <1>1 DEF CallCancel, Calling, TypeInv, MatchIdle, CoreTypeOK, OrderTypeOK, Upset
<1>3. /\ active' = active \ {h} /\ orders' = orders
      /\ status' = [status EXCEPT ![h] = "CANCELED"]
      /\ bal' = HoldLeg(orders[h], "CANCELED")
  BY <1>1 DEF TrackerCancel, UpdateBalance
<1>4. mishaps \subseteq {"negative"} => status[h] = "NEW"
  BY <1>2, BookIsOpen
<1>5. LockedBacksBook'
  <2> SUFFICES ASSUME mishaps' \subseteq {"negative"}, NEW a \in Assets
               PROVE  bal'[a].locked = Committed(a)'
    BY DEF LockedBacksBook
  <2>1. bal[a].locked = Committed(a) /\ \A c \in Assets : aliases[c] = {c}
    BY <1>2 DEF FundsInv, LockedBacksBook, Unaliased
  <2>2. Committed(a)' = Committed(a) - IF a = HoldAsset(orders[h]) THEN Hold(orders[h]) ELSE 0
    BY <1>2, <1>3, <1>4, CommittedClosed
  <2> QED
    BY <1>2, <1>3, <2>1, <2>2, HoldLegAlone
<1>6. ASSUME mishaps = {}
      PROVE  mishaps' = {} /\ \A a \in Assets : bal'[a].free >= 0
  <2>1. /\ bal[HoldAsset(orders[h])].locked >= Hold(orders[h])
        /\ Hold(orders[h]) >= 0
        /\ \A a \in Assets : bal[a].free >= 0 /\ aliases[a] = {a}
    BY <1>4, <1>6, LockedCovers
  <2>2. \A a \in Assets : bal[a].free \in Int /\ bal[a].locked \in Int
    BY <1>2 DEF CoreTypeOK, BalanceTypeOK, Asset
  <2>3. HoldAsset(orders[h]) \in Assets /\ Hold(orders[h]) \in Int
    BY <1>2, AmountTypes
  <2>4. /\ HoldLeg(orders[h], "CANCELED")[HoldAsset(orders[h])].locked >= 0
        /\ \A a \in Assets : HoldLeg(orders[h], "CANCELED")[a].free >= 0
    <3>1. \A a \in Assets : HoldLeg(orders[h], "CANCELED")[a].free
                              = bal[a].free + IF a = HoldAsset(orders[h]) THEN Hold(orders[h]) ELSE 0
      BY <1>2, <2>1, HoldLegAlone
    <3>2. HoldLeg(orders[h], "CANCELED")[HoldAsset(orders[h])].locked
            = bal[HoldAsset(orders[h])].locked - Hold(orders[h])
      BY <1>2, <2>1, <2>3, HoldLegAlone
    <3> QED
      BY <2>1, <2>2, <2>3, <3>1, <3>2
  <2>5. ~UpdateFails(orders[h], "CANCELED")
    BY <2>2, <2>3, <2>4, HoldLegInts, <1>2 DEF UpdateFails, HoldFails, Negative
  <2> QED
    BY <1>1, <1>3, <1>6, <2>4, <2>5 DEF Upset, Event
<1>7. NothingNegative'
  <2> SUFFICES ASSUME mishaps' = {}
               PROVE  \A k \in active' : Hold(orders'[k]) >= 0 /\ Gain(orders'[k]) >= 0
    BY <1>2, <1>6 DEF NothingNegative, Hold, Gain, Buys, Sells, Total
  <2> QED
    BY <1>2, <1>3 DEF FundsInv, NothingNegative
<1> QED
  BY <1>5, <1>6, <1>7

(* A fill takes what the order held. *)
LEMMA LockedMatchOrder ==
  ASSUME TypeInv, BookInv, FundsInv, MatchOrder
  PROVE  /\ LockedBacksBook' /\ NothingNegative'
         /\ mishaps = {} => mishaps' = {}
<1>1. PICK h \in visit :
        IF Crosses(orders[h], kline)
          THEN /\ status' = [status EXCEPT ![h] = "FILLED"]
               /\ UpdateBalance(orders[h], "FILLED")
               /\ Upset(Event("overdraft", UpdateFails(orders[h], "FILLED")))
          ELSE UNCHANGED <<balVars, status, mishaps>>
  BY DEF MatchOrder
<1>2. /\ CoreTypeOK /\ h \in active /\ h \notin filled /\ orders[h] \in OrderReqs
      /\ UNCHANGED <<orders, active>>
  BY DEF MatchOrder, TypeInv, CoreTypeOK, OrderTypeOK, FundsInv, VisitUnfilled
<1>3. CASE ~Crosses(orders[h], kline)
  <2>1. UNCHANGED <<orders, status, active, bal, mishaps>>
    BY <1>1, <1>2, <1>3 DEF balVars
  <2> QED
    BY <1>2, <2>1, CommittedSame DEF FundsInv, LockedBacksBook, NothingNegative,
       Hold, Gain, Buys, Sells, Total
<1>4. CASE Crosses(orders[h], kline)
  <2>1. /\ status' = [status EXCEPT ![h] = "FILLED"]
        /\ UpdateBalance(orders[h], "FILLED")
        /\ mishaps' = mishaps \cup IF UpdateFails(orders[h], "FILLED") THEN {"overdraft"} ELSE {}
    BY <1>1, <1>4 DEF Upset, Event
  <2>2. mishaps \subseteq {"negative"} => status[h] = "NEW"
    BY <1>2, BookIsOpen
  <2>3. "overdraft" \notin mishaps' => bal' = GainLeg(orders[h])
    BY <2>1 DEF UpdateBalance, UpdateFails
  <2>4. LockedBacksBook'
    <3> SUFFICES ASSUME mishaps' \subseteq {"negative"}, NEW a \in Assets
                 PROVE  bal'[a].locked = Committed(a)'
      BY DEF LockedBacksBook
    <3>1. /\ mishaps \subseteq {"negative"} /\ bal' = GainLeg(orders[h])
          /\ bal[a].locked = Committed(a) /\ \A c \in Assets : aliases[c] = {c}
      BY <2>1, <2>3 DEF FundsInv, LockedBacksBook, Unaliased
    <3>2. Committed(a)' = Committed(a) - IF a = HoldAsset(orders[h]) THEN Hold(orders[h]) ELSE 0
      BY <1>2, <2>1, <2>2, <3>1, CommittedClosed
    <3> QED
      BY <1>2, <3>1, <3>2, GainLegAlone
  <2>5. ASSUME mishaps = {}
        PROVE  mishaps' = {} /\ \A a \in Assets : bal'[a].free >= 0
    <3>1. /\ bal[HoldAsset(orders[h])].locked >= Hold(orders[h])
          /\ Hold(orders[h]) >= 0 /\ Gain(orders[h]) >= 0
          /\ \A a \in Assets : bal[a].free >= 0 /\ bal[a].locked >= 0 /\ aliases[a] = {a}
      BY <1>2, <2>2, <2>5, LockedCovers
    <3>2. \A a \in Assets : bal[a].free \in Int /\ bal[a].locked \in Int
      BY <1>2 DEF CoreTypeOK, BalanceTypeOK, Asset
    <3>3. /\ HoldAsset(orders[h]) \in Assets /\ GainAsset(orders[h]) \in Assets
          /\ Hold(orders[h]) \in Int /\ Gain(orders[h]) \in Int
      BY <1>2, AmountTypes
    <3>4. \A a \in Assets : HoldLeg(orders[h], "FILLED")[a].free >= 0
      BY <1>2, <3>1, <3>2, <3>3, HoldLegAlone
    <3>5. HoldLeg(orders[h], "FILLED")[HoldAsset(orders[h])].locked >= 0
      BY <1>2, <3>1, <3>2, <3>3, HoldLegAlone
    <3>6. \A a \in Assets : GainLeg(orders[h])[a].free >= 0 /\ GainLeg(orders[h])[a].locked >= 0
      BY <1>2, <3>1, <3>2, <3>3, GainLegAlone
    <3>7. ~UpdateFails(orders[h], "FILLED")
      BY <1>2, <3>3, <3>4, <3>5, <3>6, HoldLegInts DEF UpdateFails, HoldFails, Negative
    <3> QED
      BY <2>1, <2>3, <2>5, <3>6, <3>7
  <2>6. NothingNegative'
    <3> SUFFICES ASSUME mishaps' = {}
                 PROVE  \A k \in active' : Hold(orders'[k]) >= 0 /\ Gain(orders'[k]) >= 0
      BY <2>1, <2>5 DEF NothingNegative, Hold, Gain, Buys, Sells, Total
    <3> QED
      BY <1>2, <2>1 DEF FundsInv, NothingNegative
  <2> QED
    BY <2>4, <2>5, <2>6
<1> QED
  BY <1>3, <1>4

(* The orders that the end of a Range deletes are filled ones.             *)
LEMMA LockedEndMatch ==
  ASSUME TypeInv, BookInv, FundsInv, EndMatch
  PROVE  LockedBacksBook' /\ NothingNegative'
<1>1. /\ UNCHANGED <<bal, mishaps, orders>> /\ filled \subseteq active /\ CoreTypeOK
      /\ DOMAIN status = DOMAIN orders /\ active \subseteq DOMAIN orders
  BY DEF EndMatch, balVars, orderVars, bookVars, TrackerCancel, TrackerRemoveRange,
     TypeInv, CoreTypeOK, OrderTypeOK
<1>2. ASSUME "dup" \notin mishaps, NEW g \in active, NEW h \in active,
             orders[g].id = orders[h].id
      PROVE  g = h
  BY <1>2 DEF BookInv, ActiveIsFound
<1>3. \A h \in filled : status[h] = "FILLED"
  BY DEF BookInv, FilledMarked
<1>4. /\ active' \subseteq active
      /\ \A h \in DOMAIN status : status[h] # "NEW" => status'[h] # "NEW"
      /\ "dup" \notin mishaps => \A h \in active : status[h] = "NEW" => h \in active' /\ status'[h] = "NEW"
  <2>1. CASE UNCHANGED orderVars
    BY <2>1 DEF orderVars, bookVars
  <2>2. ASSUME NEW f \in filled, NEW g \in active, TrackerCancel(orders[f].id, g)
        PROVE  <1>4!:
    <3>1. /\ active' = active \ {g} /\ status' = [status EXCEPT ![g] = "CANCELED"]
          /\ orders[g].id = orders[f].id
      BY <2>2 DEF TrackerCancel, IsFirst, Matches
    <3>2. "dup" \notin mishaps => status[g] = "FILLED"
      BY <1>1, <1>2, <1>3, <3>1
    <3> QED
      BY <1>1, <3>1, <3>2
  <2>3. ASSUME TrackerRemoveRange({orders[h].id : h \in filled})
        PROVE  <1>4!:
    <3>1. /\ active' = {h \in active : orders[h].id \notin {orders[f].id : f \in filled}}
          /\ UNCHANGED status
      BY <2>3 DEF TrackerRemoveRange
    <3>2. ASSUME "dup" \notin mishaps, NEW h \in active, h \notin active'
          PROVE  h \in filled
      BY <1>1, <1>2, <3>1, <3>2
    <3> QED
      BY <1>1, <1>3, <3>1, <3>2
  <2> QED
    BY <2>1, <2>2, <2>3 DEF EndMatch
<1>5. LockedBacksBook'
  <2> SUFFICES ASSUME mishaps \subseteq {"negative"}, NEW a \in Assets
               PROVE  bal[a].locked = Committed(a)'
    BY <1>1 DEF LockedBacksBook
  <2>1. Open(a)' = Open(a)
    BY <1>1, <1>4 DEF Open, HoldAsset, Buys, Sells
  <2>2. Committed(a)' = Committed(a)
    BY <1>1, <2>1, CommittedKept
  <2> QED
    BY <2>2 DEF FundsInv, LockedBacksBook
<1>6. NothingNegative'
  BY <1>1, <1>4 DEF FundsInv, NothingNegative, Hold, Gain, Buys, Sells, Total
<1> QED
  BY <1>5, <1>6

(* Balances set while the book is empty have nothing to back.              *)
LEMMA LockedCallSet ==
  ASSUME TypeInv, BookInv, FundsInv, CallSet
  PROVE  /\ LockedBacksBook' /\ NothingNegative'
         /\ "overdraft" \in mishaps' => "overdraft" \in mishaps
<1> DEFINE list == Head(todo).list
<1>1. list \in Seq(BalanceEntry) /\ CoreTypeOK
  BY CallFields DEF CallSet, Calling, TypeInv
<1>2. /\ SetAssets(list) /\ mishaps' = mishaps \cup SetMishaps(list)
      /\ UNCHANGED <<orders, status, active>>
  BY DEF CallSet, Upset, orderVars, bookVars
<1> HIDE DEF list
<1>3. "reset" \notin mishaps' => active = {} /\ \A i \in DOMAIN list : list[i].locked = 0 /\ list[i].free >= 0
  <2>1. \A i \in DOMAIN list : list[i] \in BalanceEntry
    BY <1>1, ElementOfSeq
  <2>2. \A i \in DOMAIN list : list[i].free \in Int
    BY <2>1 DEF BalanceEntry
  <2> QED
    BY <1>2, <2>2 DEF SetMishaps, Event
<1>4. "overdraft" \in mishaps' => "overdraft" \in mishaps
  BY <1>2 DEF SetMishaps, Event
<1>5. ASSUME "reset" \notin mishaps', NEW a \in Assets
      PROVE  \/ bal'[a] = bal[a]
             \/ bal'[a].locked = 0 /\ bal'[a].free >= 0
  <2>1. CASE list = <<>>
    BY <1>2, <2>1 DEF SetAssets, balVars
  <2>2. CASE list # <<>>
    <3>1. Len(list) \in DOMAIN list
      BY <1>1, <2>2
    <3> QED
      BY <1>2, <1>3, <1>5, <2>2, <3>1 DEF SetAssets
  <2> QED
    BY <2>1, <2>2
<1>6. LockedBacksBook'
  <2> SUFFICES ASSUME mishaps' \subseteq {"negative"}, NEW a \in Assets
               PROVE  bal'[a].locked = Committed(a)'
    BY DEF LockedBacksBook
  <2>1. bal[a].locked = Committed(a) /\ Committed(a)' = Committed(a) /\ active = {}
    BY <1>1, <1>2, <1>3, CommittedSame DEF FundsInv, LockedBacksBook
  <2>2. Committed(a) = 0
    BY <2>1, SumEmpty DEF Committed, Open
  <2> QED
    BY <1>5, <2>1, <2>2
<1>7. NothingNegative'
  <2> SUFFICES ASSUME mishaps' = {}
               PROVE  /\ \A a \in Assets : bal'[a].free >= 0
                      /\ \A h \in active : Hold(orders[h]) >= 0 /\ Gain(orders[h]) >= 0
    BY <1>2 DEF NothingNegative, Hold, Gain, Buys, Sells, Total
  <2> QED
    BY <1>2, <1>5 DEF FundsInv, NothingNegative
<1> QED
  BY <1>4, <1>6, <1>7

LEMMA FundsInit == Init => FundsInv
<1> SUFFICES ASSUME Init PROVE FundsInv
  OBVIOUS
<1>1. active = {} /\ visit = {} /\ filled = {}
  BY DEF Init, OrderInit
<1>2. \A a \in Assets : bal[a].free = 0 /\ bal[a].locked = 0 /\ aliases[a] = {a}
  BY DEF Init, BalanceInit
<1>3. \A a \in Assets : Committed(a) = 0
  BY <1>1, SumEmpty DEF Committed, Open
<1> QED
  BY <1>1, <1>2, <1>3 DEF FundsInv, Unaliased, VisitUnfilled, LockedBacksBook, NothingNegative

LEMMA FundsNext ==
  ASSUME TypeInv, BookInv, FundsInv, [Next]_vars
  PROVE  FundsInv'
<1>1. CoreTypeOK
  BY DEF TypeInv
<1>2. ASSUME UNCHANGED <<orders, status, active, bal>>, mishaps \subseteq mishaps'
      PROVE  LockedBacksBook' /\ NothingNegative'
  BY <1>1, <1>2, CommittedSame DEF FundsInv, LockedBacksBook, NothingNegative,
     Hold, Gain, Buys, Sells, Total
<1>3. ASSUME Request \/ CallCancelUnknown \/ CallGet \/ Drained \/ Control
             \/ (\E k \in Klines : Kline(k)) \/ TrackerSignal \/ UNCHANGED coreVars
      PROVE  LockedBacksBook' /\ NothingNegative'
  BY <1>1, <1>2, <1>3, BookUntouched, BalancesUntouched DEF balVars
<1>4. ASSUME Panics
      PROVE  LockedBacksBook' /\ NothingNegative'
  BY <1>4, PanicSteps DEF LockedBacksBook, NothingNegative
<1>5. LockedBacksBook' /\ NothingNegative'
  BY NextCases, <1>3, <1>4, LockedCallAdd, LockedCallCancel, LockedCallSet, LockedMatchOrder,
     LockedEndMatch DEF Call, Match
<1> QED
  BY <1>5, UnaliasedNext, VisitNext DEF FundsInv

LEMMA FundsAlways == Spec => [](TypeInv /\ BookInv /\ FundsInv)
<1>1. Init => TypeInv /\ BookInv /\ FundsInv
  BY TypeInit, BookInit, FundsInit
<1>2. TypeInv /\ BookInv /\ FundsInv /\ [Next]_vars => (TypeInv /\ BookInv /\ FundsInv)'
  BY TypeNext, BookNext, FundsNext
<1> QED
  BY <1>1, <1>2, PTL DEF Spec

(* The locked amounts are, to the unit, what the open orders of the book   *)
(* hold, through every action, fill and half-done action, for any book and *)
(* any amounts.                                                            *)
THEOREM LockedIsBacked == Spec => []LockedBacksBook
<1>1. FundsInv => LockedBacksBook
  BY DEF FundsInv
<1> QED
  BY <1>1, FundsAlways, PTL

LEMMA FirstOverdraft ==
  ASSUME TypeInv, BookInv, FundsInv, [Next]_vars, mishaps = {}, "overdraft" \in mishaps'
  PROVE  Calling("add")
<1>1. ~UNCHANGED mishaps
  OBVIOUS
<1>2. ~CallCancel /\ ~MatchOrder /\ ~CallSet
  BY LockedCallCancel, LockedMatchOrder, LockedCallSet
<1>3. ~Request
  BY <1>1 DEF Request, CreateOrder, CreateOrders, ReplaceOrder, GetOrder, CancelOrder,
     CancelOrders, SetBalances, GetBalances, GetPrice, Accept
<1>4. ~(CallCancelUnknown \/ CallGet \/ Drained \/ Control \/ EndMatch)
  BY <1>1 DEF CallCancelUnknown, CallGet, Drained, Control, EndMatch
<1>5. ~((\E k \in Klines : Kline(k)) \/ TrackerSignal \/ UNCHANGED coreVars)
  BY <1>1 DEF Kline, TrackerSignal, coreVars
<1>6. ~Panics
  BY PanicSteps
<1>7. CallAdd
  BY NextCases, <1>2, <1>3, <1>4, <1>5, <1>6 DEF Call, Match
<1> QED
  BY <1>7 DEF CallAdd

(* A fill or a cancel always finds the amount that was locked for it: the  *)
(* first balance update that fails is the placement of an order.           *)
THEOREM FillsFindTheirFunds == Spec => FillsNeverFailFirst
<1>1. TypeInv /\ BookInv /\ FundsInv /\ [Next]_vars
        => [mishaps = {} /\ "overdraft" \in mishaps' => Calling("add")]_vars
  BY FirstOverdraft
<1> QED
  BY <1>1, FundsAlways, PTL DEF Spec, FillsNeverFailFirst

-----------------------------------------------------------------------------
(* TransactTime, for every price history and every number of orders and    *)
(* actions.                                                                *)

(* What is known of one stamp, and of a stamp and a later one. *)
StampOK(s) ==
  /\ s.at <= s.time
  /\ s.row <= row
  /\ s.row = row => /\ s.at <= unix
                    /\ left > 0 /\ s.at = unix => s.time <= local

Ordered(s, t) ==
  s.row = t.row => /\ s.at <= t.at
                   /\ s.at = t.at => s.time < t.time

(* Under one kline the actions are given ascending times, and the orders   *)
(* of one action ascending stamps.                                         *)
ClockInv ==
  /\ ClockTypeOK
  /\ left > 0 => unix <= local
  /\ \A i \in DOMAIN stamps : StampOK(stamps[i])
  /\ \A i, j \in DOMAIN stamps : i < j => Ordered(stamps[i], stamps[j])

LEMMA ClockInvInit == ClockInit => ClockInv
<1> SUFFICES ASSUME ClockInit PROVE ClockInv
  OBVIOUS
<1>1. Rows[1] \in Nat /\ 1 \in 1 .. Len(Rows)
  BY RowsAssumption
<1>2. stamps \in Seq(Stamp) /\ DOMAIN stamps = {}
  BY DEF ClockInit
<1>3. QED
  BY <1>1, <1>2 DEF ClockInit, ClockInv, ClockTypeOK

(* A step that adds no stamp. *)
LEMMA NoStamp ==
  ASSUME ClockInv, stamps' = stamps, ClockTypeOK',
         left' > 0 => unix' <= local',
         \A t \in Stamp : StampOK(t) => StampOK(t)'
  PROVE  ClockInv'
<1>1. \A i \in DOMAIN stamps : stamps[i] \in Stamp
  BY ElementOfSeq DEF ClockInv, ClockTypeOK
<1>2. ASSUME NEW i \in DOMAIN stamps'
      PROVE  StampOK(stamps[i])'
  <2>1. PICK t \in Stamp : t = stamps[i] /\ StampOK(t)
    BY <1>1, <1>2 DEF ClockInv
  <2>2. StampOK(t)' /\ stamps'[i] = t
    BY <2>1
  <2>3. QED
    BY <2>2 DEF StampOK
<1>3. QED
  BY <1>2 DEF ClockInv, Ordered

(* A step that adds one. *)
LEMMA OneStamp ==
  ASSUME ClockInv, NEW s \in Stamp, stamps' = Append(stamps, s), ClockTypeOK',
         left' > 0 => unix' <= local',
         StampOK(s)',
         \A t \in Stamp : StampOK(t) => StampOK(t)' /\ Ordered(t, s)
  PROVE  ClockInv'
<1>1. stamps \in Seq(Stamp)
  BY DEF ClockInv, ClockTypeOK
<1>2. /\ Len(stamps) \in Nat
      /\ DOMAIN stamps = 1 .. Len(stamps)
      /\ DOMAIN stamps' = 1 .. Len(stamps) + 1
      /\ \A i \in DOMAIN stamps : stamps'[i] = stamps[i] /\ stamps[i] \in Stamp
      /\ stamps'[Len(stamps) + 1] = s
  BY <1>1, AppendProperties, ElementOfSeq
<1>3. ASSUME NEW i \in DOMAIN stamps'
      PROVE  StampOK(stamps[i])'
  <2>1. PICK t \in Stamp : t = stamps'[i] /\ StampOK(t)'
    BY <1>2, <1>3 DEF ClockInv
  <2>2. QED
    BY <2>1 DEF StampOK
<1>4. ASSUME NEW i \in DOMAIN stamps', NEW j \in DOMAIN stamps', i < j
      PROVE  Ordered(stamps'[i], stamps'[j])
  <2>1. i \in DOMAIN stamps /\ stamps'[i] = stamps[i]
    BY <1>2, <1>4
  <2>2. CASE j \in DOMAIN stamps
    BY <1>2, <1>4, <2>1, <2>2 DEF ClockInv
  <2>3. CASE j = Len(stamps) + 1
    BY <1>2, <2>1, <2>3 DEF ClockInv
  <2>4. QED
    BY <1>2, <2>2, <2>3
<1>5. QED
  BY <1>3, <1>4 DEF ClockInv, Ordered

LEMMA ClockInvNext ==
  ASSUME ClockInv, [ClockNext]_clockVars
  PROVE  ClockInv'
<1>1. /\ row \in 1 .. Len(Rows) /\ unix \in Nat /\ local \in Nat /\ left \in Nat
      /\ stamps \in Seq(Stamp) /\ Len(Rows) \in Nat
  BY RowsAssumption DEF ClockInv, ClockTypeOK
<1>2. CASE StampOrder
  <2>1. PICK s \in Stamp : s = [time |-> unix + 1, at |-> unix + 1, row |-> row]
    <3>1. unix + 1 \in Nat /\ local + 1 \in Nat /\ unix \in Nat /\ row \in Nat
      BY <1>1
    <3>2. [time |-> unix + 1, at |-> unix + 1, row |-> row] \in Stamp
      BY <3>1 DEF Stamp
    <3>3. QED
      BY <3>2
  <2>2. /\ stamps' = Append(stamps, s) /\ unix' = unix + 1 /\ row' = row
        /\ left = 0 /\ UNCHANGED <<left, local>>
    BY <1>2, <2>1 DEF StampOrder, NextAction, AddAt
  <2>3. ClockTypeOK'
    BY <1>1, <2>2, AppendProperties DEF ClockTypeOK
  <2>4. StampOK(s)'
    BY <1>1, <2>1, <2>2 DEF StampOK
  <2>5. \A t \in Stamp : StampOK(t) => StampOK(t)' /\ Ordered(t, s)
    BY <1>1, <2>1, <2>2 DEF StampOK, Ordered, Stamp
  <2>6. QED
    BY <1>1, <2>2, <2>3, <2>4, <2>5, OneStamp
<1>3. CASE StampBatchOrder
  <2>1. PICK s \in Stamp : s = [time |-> local + 1, at |-> unix, row |-> row]
    <3>1. unix + 1 \in Nat /\ local + 1 \in Nat /\ unix \in Nat /\ row \in Nat
      BY <1>1
    <3>2. [time |-> local + 1, at |-> unix, row |-> row] \in Stamp
      BY <3>1 DEF Stamp
    <3>3. QED
      BY <3>2
  <2>2. /\ stamps' = Append(stamps, s) /\ UNCHANGED <<row, unix>>
        /\ left > 0 /\ left' = left - 1 /\ local' = local + 1
        /\ unix <= local
    BY <1>3, <2>1 DEF StampBatchOrder, AddAt, ClockInv
  <2>3. ClockTypeOK'
    BY <1>1, <2>2, AppendProperties DEF ClockTypeOK
  <2>4. StampOK(s)'
    BY <1>1, <2>1, <2>2 DEF StampOK
  <2>5. \A t \in Stamp : StampOK(t) => StampOK(t)' /\ Ordered(t, s)
    BY <1>1, <2>1, <2>2 DEF StampOK, Ordered, Stamp
  <2>6. unix' <= local'
    BY <1>1, <2>2
  <2>7. QED
    BY <2>2, <2>3, <2>4, <2>5, <2>6, OneStamp
<1>4. CASE OtherAction \/ \E n \in 0 .. MaxBatch : StartBatch(n)
  <2>1. /\ stamps' = stamps /\ unix' = unix + 1 /\ row' = row
        /\ left = 0 /\ left' \in Nat /\ local' \in Nat
        /\ left' > 0 => local' = unix'
    BY <1>1, <1>4, BoundsAssumption DEF OtherAction, StartBatch, NextAction
  <2>2. ClockTypeOK' /\ (left' > 0 => unix' <= local')
    BY <1>1, <2>1 DEF ClockTypeOK
  <2>3. \A t \in Stamp : StampOK(t) => StampOK(t)'
    BY <1>1, <2>1 DEF StampOK, Stamp
  <2>4. QED
    BY <2>1, <2>2, <2>3, NoStamp
<1>5. CASE EndBatch
  <2>1. left' = 0 /\ local' = local + 1 /\ UNCHANGED <<row, unix, stamps>>
    BY <1>5 DEF EndBatch
  <2>2. ClockTypeOK'
    BY <1>1, <2>1 DEF ClockTypeOK
  <2>3. \A t \in Stamp : StampOK(t) => StampOK(t)'
    BY <1>1, <2>1 DEF StampOK, Stamp
  <2>4. QED
    BY <2>1, <2>2, <2>3, NoStamp
<1>6. CASE ReadKline
  <2>1. /\ left = 0 /\ row' = row + 1 /\ row < Len(Rows) /\ unix' = Rows[row + 1]
        /\ UNCHANGED <<local, left, stamps>>
    BY <1>6 DEF ReadKline
  <2>2. row + 1 \in 1 .. Len(Rows) /\ Rows[row + 1] \in Nat
    BY <1>1, <2>1, RowsAssumption
  <2>3. ClockTypeOK'
    BY <1>1, <2>1, <2>2 DEF ClockTypeOK
  <2>4. \A t \in Stamp : StampOK(t) => StampOK(t)'
    BY <1>1, <2>1 DEF StampOK, Stamp
  <2>5. QED
    BY <2>1, <2>3, <2>4, NoStamp
<1>7. CASE UNCHANGED clockVars
  <2>1. UNCHANGED <<row, unix, local, left, stamps>>
    BY <1>7 DEF clockVars
  <2>2. ClockTypeOK' /\ (left' > 0 => unix' <= local')
    BY <2>1 DEF ClockInv, ClockTypeOK
  <2>3. \A t \in Stamp : StampOK(t) => StampOK(t)'
    BY <2>1 DEF StampOK
  <2>4. QED
    BY <2>1, <2>2, <2>3, NoStamp
<1>8. QED
  BY <1>2, <1>3, <1>4, <1>5, <1>6, <1>7 DEF ClockNext

(* The clock's state keeps its types: times are natural numbers, a batch   *)
(* adds no more orders than it has.                                        *)
THEOREM ClockTypeCorrect == ClockSpec => []ClockTypeOK
<1>1. ClockInv /\ [ClockNext]_clockVars => ClockInv'
  BY ClockInvNext
<1>2. ClockInv => ClockTypeOK
  BY DEF ClockInv
<1>3. QED
  BY ClockInvInit, <1>1, <1>2, PTL DEF ClockSpec

(* Two orders of one kline share a TransactTime only when a CreateOrders   *)
(* was run before another action.                                          *)
THEOREM CollisionsNeedBatch == ClockSpec => []OnlyBatchesCollide
<1>1. ClockInv /\ [ClockNext]_clockVars => ClockInv'
  BY ClockInvNext
<1>2. ClockInv => OnlyBatchesCollide
  <2> SUFFICES ASSUME ClockInv,
                      NEW i \in DOMAIN stamps, NEW j \in DOMAIN stamps, i < j,
                      stamps[i].row = stamps[j].row, stamps[i].time = stamps[j].time
               PROVE  stamps[i].at < stamps[i].time /\ stamps[i].at # stamps[j].at
    BY DEF OnlyBatchesCollide
  <2>1. stamps[i] \in Stamp /\ stamps[j] \in Stamp
    BY ElementOfSeq DEF ClockInv, ClockTypeOK
  <2>2. /\ stamps[i].at <= stamps[j].at
        /\ stamps[i].at = stamps[j].at => stamps[i].time < stamps[j].time
        /\ stamps[i].at <= stamps[i].time
        /\ stamps[j].at <= stamps[j].time
    BY DEF ClockInv, Ordered, StampOK
  <2>3. QED
    BY <2>1, <2>2 DEF Stamp
<1>3. QED
  BY ClockInvInit, <1>1, <1>2, PTL DEF ClockSpec
=============================================================================
