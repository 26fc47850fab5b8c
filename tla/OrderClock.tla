----------------------------- MODULE OrderClock -----------------------------
(***************************************************************************)
(* TransactTime, the time stamped on orders (milliseconds).  There is no   *)
(* clock: the exchange goroutine stamps with the time of the last kline it *)
(* read, plus one for every action since (internal/exchange/exchange.go,   *)
(* Start), and CreateOrders counts on from there in a variable of its own  *)
(* (internal/app/client.go).  Which orders are stamped, and when the feed  *)
(* runs, is the subject of Exchange; here either may happen at any time.   *)
(***************************************************************************)
EXTENDS Integers, Sequences

CONSTANTS
  Rows,       \* the times of the klines of the price history
  MaxBatch,   \* bound: orders in a CreateOrders
  MaxTicks,   \* bound: actions between two klines
  MaxStamps   \* bound: orders in a behaviour

ASSUME RowsAssumption == Rows \in Seq(Nat) /\ Rows # <<>>
ASSUME BoundsAssumption == MaxBatch \in Nat /\ MaxTicks \in Nat /\ MaxStamps \in Nat

VARIABLES
  row,     \* klines read so far
  unix,    \* state.Unix
  local,   \* unix of the CreateOrders being run
  left,    \* orders it has yet to add
  stamps   \* history: for each order its TransactTime, the time its action
           \* was given and the kline before it

clockVars == <<row, unix, local, left, stamps>>

Stamp == [time : Nat, at : Nat, row : Nat]

(* Mutant: the action gets the millisecond of the one before it. *)
NextActionStill ==
  /\ left = 0
  /\ unix' = unix
  /\ row' = row

(* An action of the queue is given the next millisecond. *)
NextAction ==
  /\ left = 0
  /\ unix < Rows[row] + MaxTicks
  /\ unix' = unix + 1
  /\ row' = row

AddAt(time, at) ==
  /\ Len(stamps) < MaxStamps
  /\ stamps' = Append(stamps, [time |-> time, at |-> at, row |-> row])

(* CreateOrder, and ReplaceOrder once the old order is cancelled. *)
StampOrder == NextAction /\ AddAt(unix + 1, unix + 1) /\ UNCHANGED <<local, left>>

(* Any action that adds no order. *)
OtherAction == NextAction /\ UNCHANGED <<local, left, stamps>>

(* CreateOrders. *)
StartBatch(n) ==
  /\ NextAction
  /\ local' = unix + 1
  /\ left' = n
  /\ UNCHANGED stamps

(* One round of its loop. *)
StampBatchOrder ==
  /\ left > 0
  /\ local' = local + 1
  /\ AddAt(local + 1, unix)
  /\ left' = left - 1
  /\ UNCHANGED <<row, unix>>

(* An order of the batch does not parse: the loop ends. *)
EndBatch ==
  /\ left > 0
  /\ left' = 0
  /\ local' = local + 1
  /\ UNCHANGED <<row, unix, stamps>>

(* The next kline sets the time. *)
ReadKline ==
  /\ left = 0
  /\ row < Len(Rows)
  /\ row' = row + 1
  /\ unix' = Rows[row + 1]
  /\ UNCHANGED <<local, left, stamps>>

(* The goroutine reads one kline before it serves anybody. *)
ClockInit ==
  /\ row = 1
  /\ unix = Rows[1]
  /\ local = 0
  /\ left = 0
  /\ stamps = <<>>

ClockNext ==
  \/ StampOrder
  \/ OtherAction
  \/ \E n \in 0 .. MaxBatch : StartBatch(n)
  \/ StampBatchOrder
  \/ EndBatch
  \/ ReadKline

ClockSpec == ClockInit /\ [][ClockNext]_clockVars

-----------------------------------------------------------------------------
(* Type correctness of the clock. *)
ClockTypeOK ==
  /\ row \in 1 .. Len(Rows)
  /\ unix \in Nat
  /\ local \in Nat
  /\ left \in Nat
  /\ stamps \in Seq(Stamp)

(* Two orders added under one kline get the same TransactTime only if the  *)
(* earlier one came from a CreateOrders and the later one from another     *)
(* action: orders created or replaced one by one have times of their own,  *)
(* and so have the orders of one CreateOrders.                             *)
OnlyBatchesCollide ==
  \A i, j \in DOMAIN stamps :
    /\ i < j
    /\ stamps[i].row = stamps[j].row
    /\ stamps[i].time = stamps[j].time
    => stamps[i].at < stamps[i].time /\ stamps[i].at # stamps[j].at
=============================================================================
