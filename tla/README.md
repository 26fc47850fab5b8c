# exchange-emulator in TLA+

A verification development for the Go program in `src/`: a service that
replays a price history (one-minute klines) and lets trading bots place orders
against it. The modules model the program's own logic, TLC checks them on small
instances, and TLAPS proves the main properties for every value of the
constants.

## The system

One process serves many users. Each user has a *client*, made of goroutines
that talk over channels:

```
 gRPC server ---+                                +--> order tracker (internal/order)
 websockets  ---+--> App registry --> exchange --+      | signal channel (10)
 notification --+                     goroutine  <------+
                                       ^         +--> balance tracker (internal/balance)
                                       | klines
                                      listener (internal/parser)
                                       ^
 download tool --> CSV file --> parser and fastcsv: one slice, shared
```

| component | state | operations | talks to | module |
|---|---|---|---|---|
| exchange goroutine (`internal/exchange`) | the feed switch `currentStates`, the last kline, `deletedOrders`, the connections, the cancel handler | one select: toggle the feed, run an action and drain the queue, match a kline; `Close` | both trackers (waits for each transaction), the listener, the websockets | `Exchange`, `OrderClock` |
| order tracker (`internal/order`) | the book `t.active`, the index `data`, `orderSequence` | add, get, cancel, range, removeRange, one at a time; a signal when the book stops or starts being empty | its callers, who wait; the exchange through a channel of 10 | `OrderTracker` |
| balance tracker (`internal/balance`) | a map of asset names to `*Asset` | update one asset, list, set | its callers, who wait, except those of `Set` | `BalanceTracker` |
| client operations (`internal/app/client.go`) | none | CreateOrder(s), ReplaceOrder, GetOrder, CancelOrder(s), Get/SetBalances, GetPrice | queue one action each and wait | `Exchange` |
| lifecycle (`exchange.go` 36-84, 200-249, 368-380; `server/notification`) | `closed`, `shutdown`, the connections, the cancel handler | Close, NewAction, SetOrdersConnection, SetPricesConnection, SetCancelHandler, Subscribe | everything | `Lifecycle`, `ClientLife` |
| registry (`internal/app/app.go`, `internal/server`) | the map of users to clients, the list of shutdown channels | GetClient, GetOrCreateClient, the shutdown handler | clients, websockets, gRPC streams | `Registry` |
| websocket servers and process (`internal/ws`, `cmd`) | per server a map of users to connections and a channel of new ones; per connection the values `init` and `user` | OpenConn, OnData, CloseConn, Stop; the steps of `serve`, signals | the App's loop | `Sockets` |
| price history (`internal/parser`, `pkg/fastcsv`) | a slice that is filled once; per listener the index of the next row | parse the file; a row per tick, until the history or the context ends | the exchange | `History`, `FastCSV`, `TextLines` |
| text (`pkg/utils`, `parser/state.go`) | none | parse integers and prices, print prices | parser, websockets | `DecimalText` |
| download tool (`tools/binance`) | a pipe | download the days, format the rows | - | `Download`, `TextLines` |
| configuration, logging, health, generated code | - | - | - | not modelled |

### What is hard about it

* **The feed switch is a toggle.** The exchange flips its feed on every value
  of the signal channel. It is right only if every change of "the book is
  empty" is matched by exactly one signal, although the signals are sent after
  the caller was released and are read at some later time.
* **Everyone may wait for everyone.** The tracker blocks on a full signal
  channel, the exchange waits for the tracker; the download tool's two ends of
  a pipe wait for each other, the App waits for a client's queue. An exchange
  goroutine that waits for ever takes its whole client with it.
* **One order, several transactions.** Placing, filling, paying and deleting an
  order are transactions of two trackers; updates fail half-way and nothing is
  rolled back.
* **Ids belong to the clients.** Nothing stops a client from reusing one, nor
  from sending a side that is neither, a symbol that is too short or no order
  at all; the last two are panics.
* **Time is counted, not measured.** `TransactTime` is the kline's time plus a
  counter.
* **Lifetime.** A client is closed by whoever comes first, step by step, while
  others use it: channels are closed under senders and readers, the trackers
  stop under the exchange goroutine, and waits are not bound to contexts. The
  process ends the same way, with the channels of its servers.
* **Check, then act.** The registry looks a user up and stores a client in two
  steps, and deletes by user, not by client; a websocket connection is stored
  in one step and sent in another.
* **Boundaries of the history.** The first row arrives outside of the select,
  the last is tested before it is sent, a malformed line ends the parsing.

### What makes each component correct

* order tracker: the book, the index and the statuses agree; no open order is
  lost and no finished one stays.
* balance tracker and `UpdateBalance`: locked amounts are what open orders
  hold; only fills and SetBalances change what a client owns; fills find the
  amount that was locked.
* exchange: the feed runs iff the book has orders, up to signals under way;
  every action ends; an order within reach is filled.
* clock: orders are told apart by their times.
* history: the file's rows, each matched at most once and in order; the end is
  reached and told with the right price.
* lifecycle and registry: a caller always gets an answer; one live client per
  user; a closed client is replaced.
* websockets: a connection gets to its user's client, once, and nobody but the
  client closes the one that it uses; the handing over panics for a known cause
  only.
* text: what is parsed is what is written, and what is printed is what was
  parsed; what does not fit is reported.
* download: lines arrive whole and in order, and the tool ends.

Where the code falls short of one of these, the property says exactly when: it
names the cause (a reused id, a replaced connection, two registrations at once)
and promises the rest.

## The modules

**`BalanceTracker`** - `bal` and `aliases`. The map holds pointers; `Set` stores
the address of its loop variable, which under the language version of `go.mod`
(1.19) is one variable, so the names of one list end up with one record.
`aliases[a]` is the set of names whose entry is the same record. `Adjusted` is a
transaction, `Negative` the test a closure makes *after* it wrote.

**`OrderTracker`** - `orders`, `status`, `active` (the book), `byId` (the index),
`orderSequence`, `signals` (unread values of the channel) and `sending` (the
tracker is at its channel send). An order is a handle, its sequence number. The
book is appended to and removed from, so it is the set of its handles in
ascending order. A transaction is one step of the caller, who waits for it; the
send that may follow is the step `SendSignal`, and while it is pending the
tracker serves nobody. When the tracker releases the caller of Add, the book is
written a moment later; nothing can see the difference, because every reader of
the book queues behind.

**`Exchange`** - the exchange goroutine over the two trackers. `pc` is where it
is: in its select, in an action or matching a kline. An action is the list of
the calls it has left (`todo`), and each call - an order added or cancelled with
the balance update that follows - is one step. `Accept` takes an action both
from the select and in the draining loop; `Drained` is the loop's default case.
`Control` toggles. `Kline` starts a Range, `MatchOrder` is one round of its
callback, `EndMatch` the deletion by id that follows it. A kline whose send to
the price subscriber fails changes nothing, a stuttering step here; `History`
has it. Once the price connection has ended (`mute`) all of them fail:
`CloseConn` closes nothing, so the field keeps the dead connection. Two panics
end the process (`pc` is `panicked`): `CallAddPanics`, because UpdateBalance
cuts a symbol that is too short after its order went into the book, and
`ReplaceNothing`, a ReplaceOrder without an order. `cancelled` says that the
client's context is done, after which nothing is sure to go on. An order whose
side is neither BUY nor SELL holds and gains nothing, and every kline crosses
it.

Two history variables say what went out of the ordinary, and the properties name
them where they promise less: `mishaps` (a balance update failed, an active id
was reused, an amount of an order was negative, balances were set for two names
at once, under active orders, or to locked or negative amounts, the process
panicked) and
`drift` (the parity of the signals sent for no change: a cancel of an unknown id
on an empty book sends one).

**`OrderClock`** - `state.Unix` and the times it stamps: every action gets the
next millisecond, CreateOrders counts on in a variable of its own, the next
kline sets the time. It is a module of its own because it does not depend on the
book; which orders are added when is free in it.

**`ClientLife`** - the abstract specification of a client: `open`, `cancelled`
(its context ended), `closed`, `shut` (the shutdown channel is closed),
`finished` (its actions are closed), and `dead` for a process that panicked. It
is closed once, and the steps of Close come in order and once: a second `close`
of a Go channel would panic.

**`Lifecycle`** - one client from `New` to the last step of `Close`. The
exchange goroutine (`loop`) runs one job at a time (`current`); a job is the
trackers it still has to wait for (`left`). A tracker that stopped with the
context never answers; neither does an order tracker that waits for room in the
signal channel (`blocked`), which does not see its context either, until
`Control` reads a signal. `Stuck` and `Wedged` are the exchange goroutine
waiting for such a tracker, and the liveness properties that depend on it name
them. `closing` is the next step of Close after the compare-and-swap; the
predicates `Cancelled`, `ShutdownClosed` and `ActionsClosed` say what is closed
at each step. Streams (`callers`, with the creator `Owner`), new connections and
subscribers send on `actions`; `watching` are the `listenWSClose` goroutines. A
panic - a send on the closed channel, the nil action that the select takes from
it, a request that panics as in `Exchange` (`RequestPanics`) - ends the process
(`crashed`), and no step follows it. What the actions compute is in `Exchange`,
which in turn leaves out everything here: the client is open in all its
behaviours. A connection never closes by itself, because `ws.go` 54 looks a
closed connection up under a key that nothing sets (`Sockets` has that code).
`Lifecycle` implements `ClientLife` under the mapping `Life`, which does not
tell the steps of Close before the announcement apart.

**`Registry`** - the map of clients, the creators (`pc`: looked up in vain,
created, stored, announced), and the shutdown handler: the announcements in the
channel, its list, and the index of its sweep. Of a client only the states of
`ClientLife` are left (`life`), with the user it was created for and the creator
whose context it lives under: that a client's steps come in this order is what
`Lifecycle` is proved to provide, and the registry takes it from there. The
history variable `raced` collects the users whom two creators looked up in vain
at once.

**`TextLines`** - the next line of a text and what is left of it (`Line`,
`AfterLine`), as readers take them, and the reference, `Lines` and `Parts`, by
the positions of what separates them. `FastCSV` and `Download` extend it.

**`FastCSV`** - a text is a sequence of bytes. `Line`, `AfterLine`, `Cells` and
`Destination` are the byte loops of the reader, `Stored` the assignment of the
cells to the caller's struct, `Scans` and `Overruns` the outcomes of `Scan`.

**`DecimalText`** - integers of `2 * Half` values, computed modulo that width as
in the code (`Signed`, `Unsigned`); `Overflows` is the test of the code, which is made
after the multiplication. `ParseUint`, `ParseDecimal`, `AppendUint`,
`AppendDecimal` and `PriceText` (a kline's price as it is sent).

**`History`** - the file from its text to the klines of a client. `Parse` is the
parser's loop over `FastCSV` and `DecimalText`: the struct `row` is reused for
every line, prices are cut, rows before the offset are skipped, the first short
line ends it. `Listen` is the listener (`idx`, and `listener` for where it is),
`Exchange` what the exchange goroutine does with a kline and at the end of the
rows; the feed switch toggles freely, as `Control`, and the goroutine may never
come back from a match or an action (`StaysAway`, for what `Lifecycle` shows).

**`Sockets`** - the steps of `serve` and the ways they fail, the two websocket
servers, and the App's loop, which hands connections to clients. A handler's
OnData is three steps (`pc`): the user is stored in the connection, then the
connection in the server's map (`conns`), then it is sent on the channel
`users`. The App finds the client of a connection in one step (`hand`) and sends
to it in another; when the client closed before or in between (`stale`), the
send panics. `taken` and `field` are what the clients got and use; a client
closes whenever it likes. A server whose Serve returns is stopped by a deferred
call that closes `users`. Two history variables: `failed` (what stopped to
serve) and `mixed` (users who registered two connections at once).

**`Download`** - main, the pipe and the goroutine that reads it. A text is a
sequence of rows and newlines. A write of `io.Copy` is any part of what is left
and returns when all of it was read (`chunk`); the scanner's buffer is `buf`; a
row has a time or not, and a number of fields. A write that fails may leave a
piece of its row (`torn`).

**`MC...`** - the instances. **`...Proofs`** - the theorems. **`DataLemmas`** -
the lemmas about data that several of them use.

Definitions marked *Mutant* in the comments are plausible bugs (a missing
signal, an off-by-one, a forgotten refund). Each stands for one definition of
the model, no specification uses them, and each breaks the property that
`PROJECT.json` lists with it.

## The runs

| run | configuration | checks |
|---|---|---|
| `core_safety` | `MCExchange.cfg` | `SignalParity`: the switch is the book's being non-empty, corrected for unread signals, the one being sent and drift; `ActiveIsFound`: the book and the index agree; `OnlyFillsMoveFunds`: free + locked changes in fills and SetBalances only, also when names share a record (that they do is not its concern); `LockedBacksBook`: locked amounts are exactly what open orders hold, with negative amounts, too; `OpenIsActive`: no open order is lost; `DoneLeavesBook`: no order is matched twice; `FillsNeverFailFirst`: the first update that fails is a placement, unless something irregular came before |
| `core_live` | `MCExchangeLive.cfg` | `ActionsEnd`: every action ends, or the exchange and the tracker wedge, or the process panics, or the context is cancelled; `FeedStarts`: a book with orders gets its feed; `CrossedOrderEnds`: an order every kline crosses does not stay open, unless the price connection is dead; both with the exceptions of `ActionsEnd` and a drifted switch |
| `order_clock` | `MCOrderClock.cfg` | `OnlyBatchesCollide`: two orders of one kline share a time only when a CreateOrders came before another action |
| `life_safety` | `MCLifecycle.cfg` | `ClosedForCause`: a client closes when its creating stream ends, the history is over or a connection is replaced, never otherwise; `NilActionNeedsReplacement`: the nil action, which ends the process, is run only after a replaced connection; `LoopClosesAllConns`: no installed connection stays open when the exchange goroutine closes the client; `CallHeldOnce`: a waiting NewAction has its action exactly once in the queue or under way |
| `life_live` | `MCLifecycleLive.cfg` | `CallsReturn`: NewAction returns unless the client was closed under it, the history is over or the exchange and the order tracker wait for each other; `ContextCloses`: the end of the creating stream closes the client to the end, unless the exchange goroutine waits for a tracker that the same context stopped or that is blocked; `EndNotifies`: with the feed on, the last subscriber is told of the end of the history, but for the wedge and callers that keep the draining loop going; `ImplementsEndedLife`: the client implements `ClientLife`, and ends a Close that began |
| `registry` | `MCRegistry.cfg` | `RegisteredIsTracked`: whatever is in the map has its shutdown tracked; `OneLiveClient`, `LiveIsRegistered`: one live client per user, and it stays in the map, unless two lookups raced; `ClosedLeaves`: a closed client leaves the map; `CreatorsGoOn`: a creator that found nothing gets its client |
| `text` | `MCDecimalText.cfg` | `UintParsed`: an integer that fits is parsed to its value, and one that does not is an error or, when the wrapped value grew, its value modulo the width; `PriceParsed`: the value of a price, with any zeros; `PricePrinted`: the subscriber gets the text of the file, except that prices below ten lose their dot |
| `history` | `MCHistory.cfg` | `ReadsTheFile`: the slice is the rows of the file up to the first short line; `PanicsForCause`: a long line, a short price, fewer than two rows; `MatchedInOrder`: each row at most once, never the first and the last; `ToldLastPrice`: what the subscriber is told at the end; `PlaysToEnd`: the end is noticed, unless the feed stays off or the exchange goroutine never comes back to its select |
| `sockets` | `MCSockets.cfg` | `OnePlace`: a connection is in one place between its handler and its client; `ClosedByItsClient`: a connection in use is closed by its client only, as part of closing itself, not by the end of another connection at the server; `MapAgrees`: map and client agree, unless two registrations overlapped; `SocketsPanicForCause`: on the way of a connection a panic needs a server that stopped or a client that closed before the App's send; `GetsToClient`: a registered connection gets to its client, unless some client never takes what the App sends |
| `download` | `MCDownload.cfg` | `LosesOnlyRead`: the history is the first lines of the download, and lacks no more than what the goroutine had read when main returns; `MainEnds`: the tool ends, unless the goroutine returned because of a row without a time |
| `bought_stays_bought` | `MCExchangeBought.cfg` | violated: an order filled alone by its kline ends CANCELED |
| `new_order_one_asset` | `MCExchangeOneAsset.cfg` | violated: after a SetBalances of two assets a new order changes both |

The two violated properties state comments of the code (`exchange.go` 143 and
255-257). TLC's traces are short and are described in `PROJECT.json` under
`findings`.

Behaviours that a reader may not expect, and that the passing properties
describe rather than forbid:

* An update that fails is not undone. An order whose fill fails stays in the
  book as FILLED, its gain is not credited, and every kline that crosses it
  debits it again (`DoneLeavesBook` and `FillsNeverFailFirst` name it).
* CreateOrders throws its own count of the time away: the next action stamps
  times again (`OnlyBatchesCollide`).
* Ten unread signals, an eleventh send, and an exchange goroutine that waits for
  the tracker inside the draining loop: a wedge, for ever. `ActionsEnd` says that
  besides it only a panic and the end of the client's context keep an action from
  ending; `CallsReturn` says what the caller sees. For the same reason the runs
  do not check for deadlock, which the clients' silence would be as well.
* A panic in any goroutine ends the process for every user: `panicked` in
  `Exchange`, `closedChannel`, `nilAction` and `request` in `Lifecycle`,
  `crashed` in `Registry`, `History` and `Sockets`. Each module has the panics of
  the code it models; no property speaks of all of them.
* A price connection that ended drops every kline from then on, without a word
  to the orders (`CrossedOrderEnds`).
* A connection that replaces another one is closed soon after: the old one's
  watcher closes the client (`ClosedForCause`).
* The client of a stream that ended may never close (`ContextCloses`).
* The end of a websocket connection closes nothing (`Sockets`, `UserKey`).

### Bounds

* `Exchange`: one market (ETH against USDT), two ids, so that ids are reused,
  both after and during an order's life; a buy, a sell, an order that does
  not parse and one with a negative quantity, which the code accepts; what else
  goes wrong after that one is left out (the constraint `NegativeAlone`), as no
  property promises anything there. An order of neither side comes first and at
  most one other follows it (`OtherFirst`); for safety the steps after a
  cancelled context, the end of the price connection or a panic are not followed
  (`InService`): they leave a subset of the steps that are followed anyway. For
  liveness they are. `MaxOrders` (guard of the requests that add): three orders for
  safety, so that two filled ones tell RemoveRange from Cancel while a third
  stays; two for liveness. `SignalCap` 2 instead of 10: the channel fills, and
  the wedge happens, within three changes of the book. `MaxDebt`: an order whose
  fill fails is debited by every kline; no kline is read any more once a locked
  amount is below `-MaxDebt`; the value lets it happen more than once. Two
  klines, one that crosses both orders and one that misses the buy; prices and
  amounts of one or two units; half of a gain is kept as commission, so that
  amounts stay integers in units of `1/Scale`.
* `OrderClock`: klines two and eight apart, at most four actions between klines
  and four orders, so that the clock runs past a kline.
* `Lifecycle`: for safety the stream that created the client and another, three
  connections, two of them for one slot, so that one is replaced (they can be
  swapped: a symmetry), and a subscriber; a request that waits for both trackers
  and one that waits for none. For liveness one stream, the two connections of
  one slot and a subscriber. The queue, 1024 in the code, has no bound: every
  user has at most one entry.
* `Registry`: a stream and the App's loop, two users, so that the handler's list
  mixes users, or one user they race for; two clients, which follow one another
  or live side by side; the announcement channel holds one instead of 128, so
  that creators block. `CanMake` keeps a creator from looking up in vain when no
  client is left to create.
* `DecimalText`: every text of up to `MaxLen` = 6 bytes over the digits 0, 1 and
  9, the dot and a sign, with integers of 9 bits (`Half` = 256): six digits
  overflow them by far, so every way of wrapping occurs, and leading and
  trailing zeros do.
* `History`: every file of up to `MaxLines` = 4 of six typical lines, with and
  without a last newline, and every text of up to `MaxBytes` = 5 bytes over a
  digit, the separator and the newline, under four headers and two offsets: four
  rows are a first, a last and two to be ordered in between.
* `Sockets`: one user with two connections for orders, which follow, replace and
  overtake one another, and one for prices; what follows an exit or a panic is
  left out of the graph (`Running`): nothing does; `UsersCap` 1 instead of 1024, so
  that handlers wait. Users share nothing but the channel, which the connections
  of one user fill as well.
* `Download`: up to `MaxDays` = 2 files of up to `MaxText` = 3 rows and newlines
  (so a line can cross a file), every way to cut them.

The proofs put no bound on any of these, except that they keep the guards
(`MaxOrders`, `MaxDebt`, ...) as constants of any value.

### Fairness

Goroutines run when they can, until their context is cancelled: weak fairness of
the calls of an action, of the steps of a Range and of the tracker's send. Go's
select picks at random among ready cases, so a case that is ready again and
again is taken in the end: strong fairness of `Control` and of the klines, which
keep coming until the history ends, and that cancels the context; a kline whose
send fails counts for nothing, and with `mute` none counts. Strong fairness of
`Drained` is an assumption about the clients: the action queue is found empty
again and again. Without it the draining loop, which polls nothing else, starves
signals and klines for as long as clients keep it busy. Clients are under no
fairness.

In `Lifecycle` the steps of Close, of watchers, of the listener's stop and of a
busy exchange goroutine are weakly fair, the cases of its select (an action, the
context, the end of the rows) strongly. Whether a tracker stops or blocks before
it answers is open, and a blocked one goes on only when the exchange goroutine
reads a signal, which nothing makes sure of. In `Registry` the handler's select
is strongly fair for announcements and ticks, and a blocked announcement for its
place in the channel (Go serves blocked senders in order); Close itself, and the
streams, are under none: `Lifecycle` shows that a client may never close.

In `History` the parser, the listener and a kline under way are weakly fair
(until the goroutine stays away), the receive of a row, of the closed channel
and of the context strongly; the feed switch is under none. In `Sockets` a
handler that runs goes on, and the blocked send and the App's select are
strongly fair for the same reasons as above; connections, signals, failures and
the ends of clients come as they like, and a client takes what the App sends it
when it likes. In `Download` both goroutines are weakly fair.

## What is proved

`ExchangeProofs` (for any assets, orders, lists, klines, commission and signal
capacity, and for any price history; the assumptions are the types of the constants):

* `TypeCorrect`: `Spec => []TypeOK`. Inductive with `MatchIdle` (outside of a
  Range there is nothing to visit or to delete), without which an action could
  remove an order that a Range still has to visit.
* `SwitchFollowsBook`: `Spec => []SignalParity`. Inductive over the type
  invariant. Lemma `ParityTracker` has the argument: a transaction that changes
  "the book is empty" starts a send, and one that does not starts none, except
  for the cancel that `drift` records; reading and sending a signal each move
  one unit of parity. `filled \subseteq active` is needed for the deletions:
  what a kline deletes is in the book, so they never signal for no change.
* `NoOpenOrderLost`, `IndexAgrees`, `NoOrderMatchedTwice`: the invariants
  `OpenIsActive`, `ActiveIsFound` and `DoneLeavesBook`. None is inductive alone:
  deletion is by id, so that the right order leaves the book rests on the index
  being injective on the book, and that no open order leaves with it rests on
  `FilledMarked` (orders to delete were filled).
* `FundsKept`: `Spec => OnlyFillsMoveFunds`, an action property. It needs
  `AliasInv`: sharing a record is an equivalence, and names that share one read
  the same amounts.
* `LockedIsBacked`: the invariant `LockedBacksBook`, from `FundsInv`: as long as
  nothing irregular but a negative amount has happened, no two names share a
  record (`Unaliased`), the orders that a Range has still to visit are unfilled
  (`VisitUnfilled`: an order must not be paid twice), and locked amounts are the
  sums over the open orders of the book. The lemmas `CommittedMore`,
  `CommittedLess` and `CommittedSame` say what one order more, or one less, does
  to such a sum.
* `FillsFindTheirFunds`: `Spec => FillsNeverFailFirst`, an action property. With
  `NothingNegative` - no amount is, as long as nothing irregular has happened -
  a locked amount is a sum of amounts that are not negative, so it is at least
  what the order at hand holds, and its release cannot fail.
* `ClockTypeCorrect`, `CollisionsNeedBatch`: `ClockTypeOK` and
  `OnlyBatchesCollide` of `OrderClock`, from an invariant (`ClockInv`) that
  orders the stamps of one kline by action and, within an action, by time.

`LifecycleProofs` (for any streams, connections, slots, subscribers and needs):

* `LifeTypeCorrect`: `Spec => []LifeTypeOK`.
* `ClosesForCause`, `NoNilActionOtherwise`, `NoConnectionLeftOpen`: the
  invariants `ClosedForCause`, `NilActionNeedsReplacement` and
  `LoopClosesAllConns`. Strengthened by where the exchange goroutine can be when
  it closes the client, which connections are closed at each step of Close, and
  what the watchers' and the connections' states say about each other.
* `CallsHeldOnce`: the invariant `CallHeldOnce`, from `CallInv`: the exchange
  goroutine has a job at hand only while it is busy, so that taking the next one
  never overwrites a call, and of each caller's action there is one at most.
* `LifecycleImplementsLife`: `Spec => ImplementsLife`, the refinement of
  `ClientLife` without its fairness. Every step of Close maps to a step of
  `ClientLife` or to a stutter, and the compare-and-swap is what keeps a second
  caller from a second one.

`RegistryProofs` (for any users, streams and clients and any capacity):

* `RegTypeCorrect`, `NoUnwatchedClient`, `NoSecondClient`, `LiveClientStays`:
  `RegTypeOK` and three invariants of the run `registry`. The invariant `RegInv`
  says that a creator between lookup and announcement holds the only reference
  to its client (`UseInv`), that a client has at most one place among the
  announcements, the list and the creators (`TrackInv`: it is what makes the
  sweep's deletion by index and by user harmless), that for a user who was never
  raced the tracked client is the one in the map (`RaceInv`), and that a live
  client is tracked or about to be stored (`LiveInv`). The lemmas `AppendFacts`,
  `TailFacts` and `RemoveFacts` say what the list operations do to sequences
  without repetition.

`HistoryProofs` (for any files, offsets and width of integers; a file is a
sequence of bytes under a header of names, `FilesAssumption`, and the struct has
the fields that the parser reads, `FieldsAssumption`):

* `HistoryTypeCorrect`, `RowsMatchedInOrder`, `EndPriceIsLast`, from
  `HistoryInv`: where the listener's index can be at each of its steps
  (`IndexInv`: it offers a row only when another one follows), that the last
  state is the row delivered last, but for the first (`StateInv`), that the
  matched rows come before it, strictly while a kline is under way (`MatchInv`),
  and what the handler was told (`ToldInv`).
* `FileIsRead`, `CrashesForCause`: the invariants `ReadsTheFile` and
  `PanicsForCause`, from `ParsingInv`: what is left of the file are its lines
  after some number `n`, the lines up to `n` have as many cells as the header,
  and the slice has those of their rows that are at or after the offset, in
  order. The struct that is reused for every line does not show, because a full
  line stores every named field.
* `CellsAreParts`: the reader's loop over the bytes of a line computes the parts
  between the separators, for every line; by the lemma `PartsAppend`, what one
  byte more does to the parts.

`DecimalProofs` (for texts of any bytes and any length, and integers of any
width; the machine's is `Half` = 2^63):

* `UintsAreParsed`, `PricesAreParsed`, `PricesArePrinted`: the invariants
  `UintParsed`, `PriceParsed` and `PricePrinted`. The state is a text and nothing
  else (`TextIsBytes`), so the argument is about the functions. What a parser has
  counted after each byte is the weight of the digits so far, wrapped
  (`ParseUintValue`, `DecimalValue`), because wrapping at every step and wrapping
  once give the same (`Wraps`); a weight that fits is not wrapped on the way
  (`PrefixWeighsLess`), and a value that never fell is not negative
  (`NeverFell`). `UintPrinted` is the way back: digits that do not begin with a
  zero are printed as they were. `UintPrintedLength` says that no more digits are
  printed than were parsed, which is why a price below ten never has the two
  digits before its dot that `DotFits` asks for.

`DownloadProofs` (for any downloaded files, of rows and newlines):

* `HistoryIsAPrefix`: the invariant `LosesOnlyRead`. That the lines of what was
  written are those of the history, the buffer and the pipe together
  (`Accounted`) is not inductive: a write that starts in the middle of a line
  changes the last line. `Continued` says it of every continuation, which is,
  as long as main can write; `Drained` that nothing is left between two files.

`SocketsProofs` (for any users, connections and capacity):

* `SocketTypeCorrect`, `ConnectionInOnePlace`, `OnlyItsClientCloses`,
  `MapAndClientAgree`, `HandoverPanicHasCause`, from `SocketInv`. `Owned` says that a
  client has its own connections only, of the user and of the server, and that
  none is closed that no client had, so that a client that closes its connection
  closes nobody else's.
  `MapIsLatest` follows one connection on its way: for a user without
  overlapping registrations, the connection in the map is with its handler, the
  last of the channel, in the App's hand, or with the client. `Causes` says that a stopped server is
  recorded.

`DataLemmas`: the induction theorems of the library take an operator as a
parameter, which no prover here can instantiate. The module states induction
over numbers and finite sets for a *set* instead of a predicate, and recursion
for a *function* instead of an operator (`NatSetInduction`, `SubsetInduction`,
`Iteration`, `SetRecursion`); all rest on the least element of a set of numbers.
From these come the sums over finite sets (`SumByChoice` and the lemmas after
it), the members of a set by rank (`RankFacts`, `NthIs`, `RankShifted`), and the
lines and parts of a text (`PartsFirst`, `LinesStep`, `PartsAppend`).

`Tens`, the weights of the digits, is a recursive function for the same reason:
the provers know nothing of powers.

Only model-checked: the liveness properties, since liveness under fairness is
out of TLAPS' reach, with the refinement `ImplementsEndedLife`, which
`LifecycleImplementsLife` proves but for its fairness. Every invariant and every
other action property of the passing runs is a theorem. No module that is proved
about reaches a RECURSIVE operator. The type invariants of the state machines
are theorems and are not repeated in the runs.

## The plan

1. Done: `BalanceTracker`, `OrderTracker`, `Exchange`, `OrderClock` and their
   proofs.
2. Done: `Lifecycle` with the abstract `ClientLife` that it implements,
   `Registry`, and their proofs.
3. Done: `FastCSV`, `DecimalText`, `History` and its proofs.
4. Done: `Sockets`, with the process, and its proofs; `Download`.
5. Done: the funds behind the book, the parser, the conversions of text and the
   download tool, proved over the lemmas of `DataLemmas`.
6. Left: an abstract specification of an order's life with the funds it holds.

## Not modelled

* Configuration, logging, the health service, `pkg/utils/bytes.go`: values and
  output, no state that changes. `gen/proto`: generated bindings.
* Formatting of responses (`AppendMarshalJSON`, the JSON of orders); `ToLower`
  and `ToLowerTrim`, `typeUpdate` of the order tracker and partial fills, which
  nothing calls or which do not exist in the code.
* gRPC, websocket, HTTP and zip transport: outcomes (a send fails, a connection
  ends) instead of bytes. The upgrader, an external library, never asks for an
  upgrade.
* Decimal arithmetic is exact in the code (arbitrary precision) and integers
  here.
* In `Sockets` a client installs a connection when it is sent to it; that this is
  an action of its queue, which may wait or never run, is in `Lifecycle`.
* What a commission of 100 percent should do (`exchange.go` 333 reads the
  factor zero as no commission): the repository does not say.
