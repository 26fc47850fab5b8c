------------------------------ MODULE Exchange ------------------------------
(***************************************************************************)
(* The trading core of one client: the exchange goroutine                  *)
(* (internal/exchange/exchange.go, Start and UpdateBalance) with the       *)
(* handlers of internal/app/client.go it runs as actions, over the order   *)
(* tracker and the balance tracker.                                        *)
(*                                                                         *)
(* The goroutine sits in a select over three channels: the tracker's       *)
(* signal (toggle the price feed), the clients' actions, and - while the   *)
(* feed is on - the klines.  After an action it drains the action queue    *)
(* without looking at the other channels.  An action is run call by call:  *)
(* one step per order added or cancelled, with the balance update that     *)
(* follows it, so that the tracker's send of the signal interleaves.       *)
(*                                                                         *)
(* A panic, here or in a handler, ends the process: `pc' is "panicked".    *)
(*                                                                         *)
(* Amounts are integers in units of 1/Scale of the asset.  Left to other   *)
(* modules: state.Unix and TransactTime, and the client's lifetime.  Of    *)
(* the latter this module knows that the context may be cancelled, which   *)
(* also follows the end of the price history: from then on the goroutines  *)
(* still may take their steps, but none of them must.                      *)
(***************************************************************************)
EXTENDS BalanceTracker, OrderTracker, Functions

CONSTANTS
  Klines,     \* the klines of the price history: [low, high]
  Batches,    \* the order lists of CreateOrders
  IdLists,    \* the id lists of CancelOrders
  Keep, Scale,\* Client.commission = Keep / Scale, the share a fill keeps
  MaxOrders,  \* bound: add transactions in a behaviour
  MaxDebt     \* bound: no kline is read once a locked amount is below -MaxDebt

ASSUME OrderAmountsAssumption ==
  \A r \in OrderReqs : /\ r.price \in Int
                       /\ r.quantity \in Int
                       /\ r.base \in Assets
                       /\ r.quote \in Assets
                       /\ r.named \in BOOLEAN
ASSUME ScaleAssumption == Scale \in Nat \ {0} /\ Keep \in 0 .. Scale
ASSUME BatchesAssumption == Batches \subseteq Seq(OrderReqs)
ASSUME IdListsAssumption == IdLists \subseteq Seq(Ids)

VARIABLES
  running,   \* the feed is on: currentStates # nil
  pc,        \* where the exchange goroutine is: "select", "act", "match" or,
             \* when the process has ended with a panic, "panicked"
  todo,      \* "act": the calls the current action still makes
  kline,     \* "match": the kline being matched
  visit,     \* "match": the orders Range has not visited yet
  filled,    \* "match": the orders behind deletedOrders
  mishaps,   \* history: which irregular events have happened (see Upset)
  drift,     \* history: an odd number of signals were sent for no change
  mute,      \* the price connection has ended: every send to it fails
  cancelled  \* the client's context is cancelled

exchangeVars == <<running, pc, todo, kline, visit, filled>>
coreVars == <<balVars, orderVars, exchangeVars, mishaps, drift>>
outerVars == <<mute, cancelled>>
vars == <<coreVars, outerVars>>

-----------------------------------------------------------------------------
(* UpdateBalance.  A buy holds Total of the asset after the third letter   *)
(* of the symbol (quote) and gains Quantity of the one before (base); a    *)
(* sell the other way round, and an order of another side nothing of the   *)
(* same assets as a sell.  A gain is multiplied by the commission factor   *)
(* unless that is zero.  `named' is whether the symbol has three letters:  *)
(* of a shorter one base and quote mean nothing, the first UpdateBalance   *)
(* panics on it.                                                           *)
Total(o) == o.price * o.quantity
Buys(o) == o.side = "BUY"
HoldAsset(o) == IF Buys(o) THEN o.quote ELSE o.base
GainAsset(o) == IF Buys(o) THEN o.base ELSE o.quote
Sells(o) == o.side = "SELL"
Hold(o) == (IF Buys(o) THEN Total(o) ELSE IF Sells(o) THEN o.quantity ELSE 0) * Scale
Gain(o) == (IF Buys(o) THEN o.quantity ELSE IF Sells(o) THEN Total(o) ELSE 0)
             * (IF Keep = 0 THEN Scale ELSE Keep)

(* Mutants: a cancel does not give the amount back, a fill does not take   *)
(* it out of the locked amount, and a new order does not lock it.          *)
HoldLegNoRefund(o, st) ==
  CASE st = "NEW"      -> Adjusted(bal, HoldAsset(o), -Hold(o), Hold(o))
    [] st = "FILLED"   -> Adjusted(bal, HoldAsset(o), 0, -Hold(o))
    [] st = "CANCELED" -> Adjusted(bal, HoldAsset(o), 0, -Hold(o))

HoldLegFillKeeps(o, st) ==
  CASE st = "NEW"      -> Adjusted(bal, HoldAsset(o), -Hold(o), Hold(o))
    [] st = "FILLED"   -> bal
    [] st = "CANCELED" -> Adjusted(bal, HoldAsset(o), Hold(o), -Hold(o))

HoldLegNoLock(o, st) ==
  CASE st = "NEW"      -> Adjusted(bal, HoldAsset(o), -Hold(o), 0)
    [] st = "FILLED"   -> Adjusted(bal, HoldAsset(o), 0, -Hold(o))
    [] st = "CANCELED" -> Adjusted(bal, HoldAsset(o), Hold(o), -Hold(o))

(* The transaction on the held asset, by the status of the order. *)
HoldLeg(o, st) ==
  CASE st = "NEW"      -> Adjusted(bal, HoldAsset(o), -Hold(o), Hold(o))
    [] st = "FILLED"   -> Adjusted(bal, HoldAsset(o), 0, -Hold(o))
    [] st = "CANCELED" -> Adjusted(bal, HoldAsset(o), Hold(o), -Hold(o))

(* The transaction on the gained asset, of a fill only. *)
GainLeg(o) == Adjusted(HoldLeg(o, "FILLED"), GainAsset(o), Gain(o), 0)

HoldFails(o, st) == Negative(HoldLeg(o, st), HoldAsset(o))

UpdateFails(o, st) ==
  \/ HoldFails(o, st)
  \/ st = "FILLED" /\ Negative(GainLeg(o), GainAsset(o))

UpdateBalance(o, st) ==
  /\ bal' = IF st = "FILLED" /\ ~HoldFails(o, st) THEN GainLeg(o) ELSE HoldLeg(o, st)
  /\ UNCHANGED aliases

-----------------------------------------------------------------------------
(* History of irregular events, after which less can be promised:          *)
(*   "overdraft"  a balance update reported ErrNegative                    *)
(*   "dup"        an order was added under the id of an active order       *)
(*   "alias"      balances were set for two names at once                  *)
(*   "reset"      balances were set under active orders, or set to amounts *)
(*                that are locked or negative                              *)
(*   "negative"   an order was added with a negative amount                *)
(*   "panic"      the process ended with a panic                           *)
Upset(events) == mishaps' = mishaps \cup events
Event(name, happened) == IF happened THEN {name} ELSE {}

SetMishaps(list) ==
  Event("alias", \E a, b \in Names(list) : a # b)
    \cup Event("reset", \/ active # {}
                        \/ \E i \in DOMAIN list : list[i].locked # 0 \/ list[i].free < 0)

-----------------------------------------------------------------------------
(* The calls an action makes. *)
AddCall(r) == [call |-> "add", req |-> r]
CancelCall(id, strict) == [id |-> id, call |-> "cancel", strict |-> strict]
GetCall == [call |-> "get"]
SetCall(list) == [list |-> list, call |-> "set"]

(* An action is taken from the queue by the select, or by the draining     *)
(* loop once the previous action is done.                                  *)
Accept(calls) ==
  /\ pc = "select" \/ (pc = "act" /\ todo = <<>>)
  /\ pc' = "act"
  /\ todo' = calls
  /\ UNCHANGED <<balVars, orderVars, running, kline, visit, filled, mishaps, drift>>

Room(n) == orderSequence + n <= MaxOrders

CreateOrder(r)      == Room(1) /\ Accept(<<AddCall(r)>>)
CreateOrders(rs)    == Room(Len(rs)) /\ Accept([i \in DOMAIN rs |-> AddCall(rs[i])])
ReplaceOrder(id, r) == Room(1) /\ Accept(<<CancelCall(id, TRUE), AddCall(r)>>)
GetOrder            == Accept(<<GetCall>>)
CancelOrder(id)     == Accept(<<CancelCall(id, FALSE)>>)
CancelOrders(ids)   == Accept([i \in DOMAIN ids |-> CancelCall(ids[i], FALSE)])
SetBalances(list)   == Accept(<<SetCall(list)>>)
GetBalances         == Accept(<<>>)
GetPrice            == Accept(<<>>)

Request ==
  \/ \E r \in OrderReqs : CreateOrder(r)
  \/ \E rs \in Batches : CreateOrders(rs)
  \/ \E id \in Ids, r \in OrderReqs : ReplaceOrder(id, r)
  \/ GetOrder
  \/ \E id \in Ids : CancelOrder(id)
  \/ \E ids \in IdLists : CancelOrders(ids)
  \/ \E list \in BalanceLists : SetBalances(list)
  \/ GetBalances
  \/ GetPrice

Panic(events) == pc' = "panicked" /\ Upset(events \cup {"panic"})

(* A ReplaceOrder without an order: its handler, which runs beside the     *)
(* exchange, writes the user's id into it before it queues the action.     *)
ReplaceNothing ==
  /\ pc # "panicked"
  /\ Panic({})
  /\ UNCHANGED <<balVars, orderVars, running, todo, kline, visit, filled, drift>>

Calling(name) == pc = "act" /\ todo # <<>> /\ Head(todo).call = name

(* Order.Add and, for the order it returns, UpdateBalance.  An order that  *)
(* does not parse ends the action; a balance that goes negative does not,  *)
(* and the order stays in the book.                                        *)
CallAdd ==
  /\ Calling("add")
  /\ Head(todo).req.valid => Head(todo).req.named
  /\ LET r == Head(todo).req
     IN  /\ TrackerAdd(r)
         /\ IF r.valid
              THEN /\ UpdateBalance(r, "NEW")
                   /\ todo' = Tail(todo)
                   /\ Upset(Event("overdraft", UpdateFails(r, "NEW"))
                             \cup Event("dup", Matches(r.id) # {})
                             \cup Event("negative", Hold(r) < 0 \/ Gain(r) < 0))
              ELSE /\ todo' = <<>>
                   /\ UNCHANGED <<balVars, mishaps>>
  /\ UNCHANGED <<running, pc, kline, visit, filled, drift>>

(* UpdateBalance cuts the symbol at its third letter.  When it is shorter  *)
(* that panics, and the order is in the book by then.                      *)
CallAddPanics ==
  /\ Calling("add")
  /\ LET r == Head(todo).req
     IN  /\ r.valid /\ ~r.named
         /\ TrackerAdd(r)
         /\ Panic(Event("dup", Matches(r.id) # {}))
  /\ UNCHANGED <<balVars, running, todo, kline, visit, filled, drift>>

(* Order.Cancel and, for the order it finds, UpdateBalance.  An unknown id *)
(* ends the action, as does a failed balance update in ReplaceOrder.       *)
CallCancel ==
  /\ Calling("cancel")
  /\ \E h \in active :
       LET o     == orders[h]
           fails == UpdateFails(o, "CANCELED")
       IN  /\ TrackerCancel(Head(todo).id, h)
           /\ UpdateBalance(o, "CANCELED")
           /\ todo' = IF Head(todo).strict /\ fails THEN <<>> ELSE Tail(todo)
           /\ Upset(Event("overdraft", fails))
  /\ UNCHANGED <<running, pc, kline, visit, filled, drift>>

CallCancelUnknown ==
  /\ Calling("cancel")
  /\ TrackerCancelUnknown(Head(todo).id)
  /\ todo' = <<>>
  /\ drift' = IF active = {} THEN ~drift ELSE drift
  /\ UNCHANGED <<balVars, running, pc, kline, visit, filled, mishaps>>

(* Order.Get. *)
CallGet ==
  /\ Calling("get")
  /\ TrackerRead
  /\ todo' = Tail(todo)
  /\ UNCHANGED <<balVars, running, pc, kline, visit, filled, mishaps, drift>>

(* Balance.Set. *)
CallSet ==
  /\ Calling("set")
  /\ SetAssets(Head(todo).list)
  /\ todo' = Tail(todo)
  /\ Upset(SetMishaps(Head(todo).list))
  /\ UNCHANGED <<orderVars, running, pc, kline, visit, filled, drift>>

(* The draining loop finds the queue empty and goes back to the select. *)
Drained ==
  /\ pc = "act" /\ todo = <<>>
  /\ pc' = "select"
  /\ UNCHANGED <<balVars, orderVars, running, todo, kline, visit, filled, mishaps, drift>>

-----------------------------------------------------------------------------
(* A value on Order.Control() toggles the feed. *)
Control ==
  /\ pc = "select"
  /\ signals > 0
  /\ signals' = signals - 1
  /\ running' = ~running
  /\ UNCHANGED <<balVars, bookVars, sending, pc, todo, kline, visit, filled, mishaps, drift>>

(* Mutant: the range over the book starts at its second order. *)
KlineSkipsFirst(k) ==
  /\ pc = "select"
  /\ running
  /\ ~mute
  /\ \A a \in Assets : bal[a].locked >= -MaxDebt
  /\ pc' = "match"
  /\ kline' = k
  /\ visit' = {h \in active : ~IsFirst(h, active)}
  /\ filled' = {}
  /\ UNCHANGED <<balVars, orderVars, running, todo, mishaps, drift>>

(* A kline arrives and is sent to the price subscriber.  A send that fails *)
(* drops the kline before any order sees it, a step that changes nothing   *)
(* here; once the connection has ended every send fails.  Otherwise the    *)
(* book is ranged over.                                                    *)
Kline(k) ==
  /\ pc = "select"
  /\ running
  /\ ~mute
  /\ \A a \in Assets : bal[a].locked >= -MaxDebt
  /\ pc' = "match"
  /\ kline' = k
  /\ visit' = active
  /\ filled' = {}
  /\ UNCHANGED <<balVars, orderVars, running, todo, mishaps, drift>>

(* The condition under which Range goes on without filling the order is    *)
(* the negation of this.                                                   *)
Crosses(o, k) == (Buys(o) => o.price >= k.low) /\ (Sells(o) => o.price <= k.high)

(* Range's callback visits the next order.  The order is FILLED before its *)
(* balances are; when they fail it is not deleted.                         *)
MatchOrder ==
  /\ pc = "match"
  /\ ~sending
  /\ \E h \in visit :
       LET o     == orders[h]
           fails == UpdateFails(o, "FILLED")
       IN  /\ IsFirst(h, visit)
           /\ visit' = visit \ {h}
           /\ IF Crosses(o, kline)
                THEN /\ status' = [status EXCEPT ![h] = "FILLED"]
                     /\ UpdateBalance(o, "FILLED")
                     /\ filled' = IF fails THEN filled ELSE filled \cup {h}
                     /\ Upset(Event("overdraft", fails))
                ELSE UNCHANGED <<balVars, status, filled, mishaps>>
  /\ UNCHANGED <<orders, active, byId, orderSequence, signals, sending>>
  /\ UNCHANGED <<running, pc, todo, kline, drift>>

(* Mutant: a single filled order is not deleted. *)
EndMatchKeepsOne ==
  /\ pc = "match" /\ visit = {}
  /\ ~sending
  /\ \/ (\A g, h \in filled : g = h) /\ UNCHANGED orderVars
     \/ /\ \E g, h \in filled : g # h
        /\ TrackerRemoveRange({orders[h].id : h \in filled})
  /\ pc' = "select"
  /\ filled' = {}
  /\ UNCHANGED <<balVars, running, todo, kline, visit, mishaps, drift>>

(* After Range: nothing to delete, one order to delete with Order.Cancel,  *)
(* or several with RemoveRange; both by id.                                *)
EndMatch ==
  /\ pc = "match" /\ visit = {}
  /\ ~sending
  /\ \/ filled = {} /\ UNCHANGED orderVars
     \/ \E h \in filled : filled = {h} /\ \E g \in active : TrackerCancel(orders[h].id, g)
     \/ /\ \E g, h \in filled : g # h
        /\ TrackerRemoveRange({orders[h].id : h \in filled})
  /\ pc' = "select"
  /\ filled' = {}
  /\ UNCHANGED <<balVars, running, todo, kline, visit, mishaps, drift>>

TrackerSignal ==
  /\ pc # "panicked"
  /\ SendSignal
  /\ UNCHANGED <<balVars, exchangeVars, mishaps, drift>>

(* The price connection ends.  CloseConn closes nothing and the field is   *)
(* kept: klines are dropped from now on.  (A new connection takes klines   *)
(* again, but its coming also closes the client: see Lifecycle.)           *)
PriceConnEnds ==
  /\ mute' = TRUE
  /\ UNCHANGED <<coreVars, cancelled>>

(* The client's context ends: its stream did, it was closed, or its price  *)
(* history is over.                                                        *)
Cancelled ==
  /\ cancelled' = TRUE
  /\ UNCHANGED <<coreVars, mute>>

-----------------------------------------------------------------------------
Init ==
  /\ BalanceInit
  /\ OrderInit
  /\ running = FALSE
  /\ pc = "select"
  /\ todo = <<>>
  /\ kline \in Klines
  /\ visit = {}
  /\ filled = {}
  /\ mishaps = {}
  /\ drift = FALSE
  /\ mute = FALSE
  /\ cancelled = FALSE

Call == CallAdd \/ CallCancel \/ CallCancelUnknown \/ CallGet \/ CallSet
Match == (\E k \in Klines : Kline(k)) \/ MatchOrder \/ EndMatch

Panics == CallAddPanics \/ ReplaceNothing

Inside ==
  /\ Request \/ Call \/ Panics \/ Drained \/ Control \/ Match \/ TrackerSignal
  /\ UNCHANGED outerVars

Next == Inside \/ PriceConnEnds \/ Cancelled

Spec == Init /\ [][Next]_vars


(* Fairness.  The goroutines run when they can, until the context that     *)
(* stops them is cancelled: weak fairness of their steps.  Go's select     *)
(* chooses at random among the ready cases, so a case that is ready again  *)
(* and again is taken: strong fairness of Control and of the klines, which *)
(* keep coming as long as there are rows; after the last one the context   *)
(* is cancelled.  Strong fairness of Drained is an assumption about the    *)
(* clients: again and again the queue of actions is empty when polled.     *)
Live(step) == ~cancelled /\ step /\ UNCHANGED outerVars

Fairness ==
  /\ WF_vars(Live(Call \/ CallAddPanics))
  /\ WF_vars(Live(MatchOrder))
  /\ WF_vars(Live(EndMatch))
  /\ WF_vars(Live(TrackerSignal))
  /\ SF_vars(Live(Drained))
  /\ SF_vars(Live(Control))
  /\ SF_vars(Live(\E k \in Klines : Kline(k)))

FairSpec == Spec /\ Fairness

-----------------------------------------------------------------------------
Calls == [call : {"add"}, req : OrderReqs]
           \cup [id : Ids, call : {"cancel"}, strict : BOOLEAN]
           \cup [call : {"get"}]
           \cup [list : BalanceLists, call : {"set"}]

CoreTypeOK ==
  /\ BalanceTypeOK
  /\ OrderTypeOK
  /\ running \in BOOLEAN
  /\ pc \in {"select", "act", "match", "panicked"}
  /\ todo \in Seq(Calls)
  /\ kline \in Klines
  /\ visit \subseteq active
  /\ filled \subseteq active
  /\ mishaps \subseteq {"overdraft", "dup", "alias", "reset", "negative", "panic"}
  /\ drift \in BOOLEAN

(* Type correctness of the trading core. *)
TypeOK == CoreTypeOK /\ mute \in BOOLEAN /\ cancelled \in BOOLEAN

Odd(n) == n % 2 = 1

(* The feed switch follows the book.  The exchange only toggles, so it is  *)
(* right only if every change of "the book is empty" is matched by exactly *)
(* one signal, wherever the signals still are: the feed is on iff the book *)
(* has orders, corrected for the unread signals, for the one the tracker   *)
(* is sending, and for the ones sent for no change (a cancel of an unknown *)
(* id while the book was empty).                                           *)
SignalParity ==
  running <=> ((((active # {}) # Odd(signals)) # sending) # drift)

(* The open orders of the book that hold an asset, and what they hold of   *)
(* it together.                                                            *)
Open(a) == {h \in active : status[h] = "NEW" /\ HoldAsset(orders[h]) = a}

Committed(a) == SumFunctionOnSet([h \in DOMAIN orders |-> Hold(orders[h])], Open(a))

(* The locked amount of an asset is exactly what the open orders of the    *)
(* book hold of it: across creations, cancels, replacements, fills and     *)
(* half-done actions no amount stays locked for an order that is gone and  *)
(* none is released twice, as long as nothing irregular has happened but   *)
(* negative amounts.                                                       *)
LockedBacksBook ==
  mishaps \subseteq {"negative"} => \A a \in Assets : bal[a].locked = Committed(a)

(* No open order is lost: while ids of active orders are not reused, an    *)
(* order that is neither filled nor cancelled is in the book.              *)
OpenIsActive ==
  "dup" \notin mishaps => \A h \in DOMAIN status : status[h] = "NEW" => h \in active

(* The two collections of the tracker agree: while ids of active orders    *)
(* are not reused, GetOrder on the id of an active order finds that order. *)
ActiveIsFound ==
  "dup" \notin mishaps => \A h \in active : byId[orders[h].id] = h

(* A filled order leaves the book with the kline that filled it, and a     *)
(* cancelled one at once: no order is matched twice, as long as balances   *)
(* do not go negative, ids of active orders are not reused and nothing     *)
(* panics.                                                                 *)
DoneLeavesBook ==
  \A h \in active : /\ status[h] # "CANCELED"
                    /\ status[h] = "FILLED" =>
                         \/ pc = "match" /\ h \in filled
                         \/ mishaps \cap {"overdraft", "dup", "panic"} # {}

Worth(a) == bal[a].free + bal[a].locked

(* Placing, cancelling and replacing orders never changes what a client    *)
(* owns of an asset, whether or not the update fails and whichever names   *)
(* share the asset: only fills and SetBalances do.                         *)
OnlyFillsMoveFunds ==
  [][\/ pc = "match"
     \/ Calling("set")
     \/ \A a \in Assets : Worth(a)' = Worth(a)]_vars

(* The first balance update that fails is the placement of an order: a     *)
(* fill or a cancel always finds the amount that was locked for it, until  *)
(* something irregular has happened.                                       *)
FillsNeverFailFirst ==
  [][mishaps = {} /\ "overdraft" \in mishaps' => Calling("add")]_vars

-----------------------------------------------------------------------------
(* The exchange goroutine waits for the tracker, and the tracker for room  *)
(* in the signal channel that only the exchange goroutine reads.           *)
Wedged ==
  /\ sending /\ signals = SignalCap
  /\ pc = "match" \/ Calling("add") \/ Calling("cancel") \/ Calling("get")

(* Nobody waits any more: the process has panicked, or the context that    *)
(* stops the client's goroutines is cancelled.                             *)
Over == pc = "panicked" \/ cancelled

(* Every action the exchange starts is run to its end, unless the exchange *)
(* and the tracker wedge, a symbol or a message makes the process panic,   *)
(* or the client's context is cancelled meanwhile (the trackers stop with  *)
(* it: see Lifecycle).  No other wait in the core is for ever.             *)
ActionsEnd == (todo # <<>>) ~> (todo = <<>> \/ Wedged \/ Over)

(* A book that keeps an order gets its price feed: the lag of the signals  *)
(* is transient.  Excepted are the wedge, a drifted switch, a panic and a  *)
(* cancelled context.                                                      *)
FeedStarts == (active # {} /\ ~drift) ~> (running \/ active = {} \/ drift \/ Wedged \/ Over)

(* An open order that every kline crosses does not stay open for ever,     *)
(* with the same exceptions (the end of the history cancels the context),  *)
(* and unless a balance went negative or the price connection has ended,   *)
(* which drops every kline before an order sees it.                        *)
CrossedOrderEnds ==
  \A h \in 1 .. MaxOrders :
    (h \in active /\ status[h] = "NEW" /\ \A k \in Klines : Crosses(orders[h], k))
      ~> (\/ h \notin active \/ status[h] # "NEW"
          \/ drift \/ Wedged \/ Over \/ mute \/ "overdraft" \in mishaps)

-----------------------------------------------------------------------------
(* Statements of the repository's comments that do not hold.               *)

(* "price=10, high=12, low=9 -> bought" (exchange.go:143): an order filled *)
(* by a kline stays filled.                                                *)
BoughtStaysBought ==
  [][mishaps' = {} =>
       \A h \in DOMAIN status : status[h] = "FILLED" => status'[h] = "FILLED"]_vars

(* "NEW order / BUY: USDT free-total / BUY: USDT locked+total"             *)
(* (exchange.go:255-257): a new order changes the asset it holds only.     *)
NewOrderHoldsOneAsset ==
  [][Calling("add") =>
       \A a \in Assets : a # HoldAsset(Head(todo).req) => bal'[a] = bal[a]]_vars
=============================================================================
