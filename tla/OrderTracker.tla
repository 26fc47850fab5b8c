---------------------------- MODULE OrderTracker ----------------------------
(***************************************************************************)
(* The order tracker of one client (internal/order/order.go): a goroutine  *)
(* that owns the orders and applies one transaction at a time while its    *)
(* caller waits.  When a transaction fills an empty book or leaves the     *)
(* book empty the tracker then sends on the `signal' channel, which the    *)
(* exchange goroutine reads as "toggle the price feed".  The send comes    *)
(* after the caller was released and blocks while the channel is full; the *)
(* tracker serves nobody meanwhile.                                        *)
(*                                                                         *)
(* An order is a pointer in the code; here it is a handle, the value of    *)
(* orderSequence when it was added.  t.active is appended to and removed   *)
(* from, so its handles are always ascending and the slice is the SET of   *)
(* its handles read in ascending order.                                    *)
(***************************************************************************)
EXTENDS Integers

CONSTANTS
  Ids,        \* order ids, chosen by the clients
  OrderReqs,  \* the orders clients submit
  SignalCap   \* capacity of the signal channel (10 in the code)

VARIABLES
  orders,         \* orders[h]: what the client submitted; set once
  status,         \* status[h]: Order.Status
  active,         \* t.active
  byId,           \* `data': the order last added under each id, 0 if none
  orderSequence,  \* transactions of type add so far
  signals,        \* unread values in the signal channel
  sending         \* the tracker is at its channel send

bookVars == <<orders, status, active, byId, orderSequence>>
orderVars == <<bookVars, signals, sending>>

(* Enums of proto3 are open: "OTHER" is a number that is neither side.     *)
Sides == {"BUY", "SELL", "OTHER"}

ASSUME SignalCapAssumption == SignalCap \in Nat \ {0}
ASSUME OrderReqsAssumption ==
  \A r \in OrderReqs : r.id \in Ids /\ r.side \in Sides /\ r.valid \in BOOLEAN

OrderTypeOK ==
  /\ orderSequence \in Nat
  /\ DOMAIN orders \subseteq 1 .. orderSequence
  /\ orders \in [DOMAIN orders -> OrderReqs]
  /\ status \in [DOMAIN orders -> {"NEW", "FILLED", "CANCELED"}]
  /\ active \subseteq DOMAIN orders
  /\ byId \in [Ids -> {0} \cup DOMAIN orders]
  /\ signals \in 0 .. SignalCap
  /\ sending \in BOOLEAN

OrderInit ==
  /\ orders = [h \in {} |-> 0]
  /\ status = [h \in {} |-> "NEW"]
  /\ active = {}
  /\ byId = [i \in Ids |-> 0]
  /\ orderSequence = 0
  /\ signals = 0
  /\ sending = FALSE

-----------------------------------------------------------------------------
(* The active orders under an id, and the first of a set in slice order.   *)
Matches(id) == {h \in active : orders[h].id = id}
IsFirst(h, S) == h \in S /\ \A k \in S : h <= k

NextHandle == orderSequence + 1

(* Mutant: `len(t.active) == 2' instead of 1 after the append. *)
TrackerAddLateSignal(r) ==
  /\ ~sending
  /\ orderSequence' = NextHandle
  /\ orders' = [h \in DOMAIN orders \cup {NextHandle} |-> IF h = NextHandle THEN r ELSE orders[h]]
  /\ status' = [h \in DOMAIN orders \cup {NextHandle} |-> IF h = NextHandle THEN "NEW" ELSE status[h]]
  /\ byId' = [byId EXCEPT ![r.id] = NextHandle]
  /\ active' = active \cup {NextHandle}
  /\ sending' = (\E h \in active : active = {h})
  /\ UNCHANGED signals

(* Mutant: `data' keeps the first order of an id. *)
TrackerAddFirstWins(r) ==
  /\ ~sending
  /\ orderSequence' = NextHandle
  /\ IF r.valid
       THEN /\ orders' = [h \in DOMAIN orders \cup {NextHandle} |->
                            IF h = NextHandle THEN r ELSE orders[h]]
            /\ status' = [h \in DOMAIN orders \cup {NextHandle} |->
                            IF h = NextHandle THEN "NEW" ELSE status[h]]
            /\ byId' = [byId EXCEPT ![r.id] = IF @ = 0 THEN NextHandle ELSE @]
            /\ active' = active \cup {NextHandle}
            /\ sending' = (active = {})
       ELSE UNCHANGED <<orders, status, byId, active, sending>>
  /\ UNCHANGED signals

(* typeAdd.  The transaction fails when the price or the quantity does not *)
(* parse; the sequence number is spent either way.  An id already in use   *)
(* is not refused: `data' forgets the older order, the book keeps both.    *)
TrackerAdd(r) ==
  /\ ~sending
  /\ orderSequence' = NextHandle
  /\ IF r.valid
       THEN /\ orders' = [h \in DOMAIN orders \cup {NextHandle} |->
                            IF h = NextHandle THEN r ELSE orders[h]]
            /\ status' = [h \in DOMAIN orders \cup {NextHandle} |->
                            IF h = NextHandle THEN "NEW" ELSE status[h]]
            /\ byId' = [byId EXCEPT ![r.id] = NextHandle]
            /\ active' = active \cup {NextHandle}
            /\ sending' = (active = {})
       ELSE UNCHANGED <<orders, status, byId, active, sending>>
  /\ UNCHANGED signals

(* Mutant: the order leaves the book without being marked CANCELED. *)
TrackerCancelUnmarked(id, h) ==
  /\ ~sending
  /\ IsFirst(h, Matches(id))
  /\ active' = active \ {h}
  /\ sending' = (active' = {})
  /\ UNCHANGED <<orders, status, byId, orderSequence, signals>>

(* typeCancel: the first active order with the id leaves the book and is   *)
(* marked CANCELED, whatever its status was.                               *)
TrackerCancel(id, h) ==
  /\ ~sending
  /\ IsFirst(h, Matches(id))
  /\ active' = active \ {h}
  /\ status' = [status EXCEPT ![h] = "CANCELED"]
  /\ sending' = (active' = {})
  /\ UNCHANGED <<orders, byId, orderSequence, signals>>

(* Mutant: a cancel on an empty book is never answered. *)
TrackerCancelUnknownLost(id) ==
  /\ ~sending
  /\ Matches(id) = {}
  /\ active # {}
  /\ UNCHANGED orderVars

(* typeCancel of an id that no active order has.  The signal follows even  *)
(* so if the book is empty, as it was before.                              *)
TrackerCancelUnknown(id) ==
  /\ ~sending
  /\ Matches(id) = {}
  /\ sending' = (active = {})
  /\ UNCHANGED <<bookVars, signals>>

(* Mutant: no signal when the last orders are removed. *)
TrackerRemoveRangeSilent(ids) ==
  /\ ~sending
  /\ active' = {h \in active : orders[h].id \notin ids}
  /\ UNCHANGED <<orders, status, byId, orderSequence, signals, sending>>

(* typeRemoveRange: every active order with one of the ids leaves the book *)
(* with the status it has.                                                 *)
TrackerRemoveRange(ids) ==
  /\ ~sending
  /\ active' = {h \in active : orders[h].id \notin ids}
  /\ sending' = (active' = {})
  /\ UNCHANGED <<orders, status, byId, orderSequence, signals>>

(* typeGet and typeRange change nothing, but wait for the tracker.         *)
TrackerRead ==
  /\ ~sending
  /\ UNCHANGED orderVars

(* The tracker's send completes. *)
SendSignal ==
  /\ sending
  /\ signals < SignalCap
  /\ signals' = signals + 1
  /\ sending' = FALSE
  /\ UNCHANGED bookVars
=============================================================================
