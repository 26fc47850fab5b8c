----------------------------- MODULE Lifecycle -----------------------------
(***************************************************************************)
(* The lifetime of one client (internal/exchange/exchange.go): who may     *)
(* still use it, and when, while it closes.                                *)
(*                                                                         *)
(* The exchange goroutine runs actions one at a time; an action waits for  *)
(* the order and the balance tracker.  Both trackers and the listener stop *)
(* with the client's context, which ends with the gRPC stream that created *)
(* the client (Owner) or with the client's Close.  Close is called by the  *)
(* exchange goroutine when it returns and by the goroutines that watch the *)
(* client's websocket connections; the first caller (a compare-and-swap)   *)
(* goes on alone, step by step, while everybody else keeps running: gRPC   *)
(* calls, Subscribe and new connections send on a channel that Close       *)
(* closes.  A panic of any goroutine ends the process (crashed).           *)
(*                                                                         *)
(* What the actions compute is in Exchange; here an action is the trackers *)
(* it has to wait for, any of which may be blocked: the order tracker      *)
(* sends its signals on a channel that holds ten and that only the select  *)
(* of the exchange goroutine reads, and while its send waits it neither    *)
(* answers nor sees its context.  The channel of actions holds 1024; a     *)
(* client has far fewer callers, and the model gives the channel no bound. *)
(***************************************************************************)
EXTENDS Sequences

CONSTANTS
  Callers,   \* gRPC streams that use the client
  Owner,     \* the caller whose stream created the client
  Conns,     \* websocket connections of the user
  SlotOf,    \* the slot a connection is for: "orders" or "prices"
  Subs,      \* Subscribe calls of the notification server
  Needs,     \* the trackers a caller's requests wait for
  None       \* no connection, no handler, nothing

Trackers == {"order", "balance"}
Slots == {"orders", "prices"}

ASSUME OwnerAssumption == Owner \in Callers
ASSUME SlotAssumption == SlotOf \in [Conns -> Slots]
ASSUME NeedsAssumption == Needs \in [Callers -> SUBSET Trackers]
ASSUME NoneAssumption == None \notin Conns \cup Subs \cup {"loop", "watcher"}

VARIABLES
  loop,      \* where the exchange goroutine is
  current,   \* what it is busy with
  left,      \* the trackers it still has to wait for
  actions,   \* Client.actions
  closing,   \* the next step of Close; "no" before, "done" after
  closer,    \* who closes the client: "loop" or "watcher"
  feed,      \* currentStates # nil
  listener,  \* what the listener does; "over": end of the history
  up,        \* the trackers that run
  blocked,   \* the order tracker waits for room in the channel of signals
  callers,   \* where each caller's NewAction is
  ended,     \* the callers whose stream's context is done
  connState, \* "new", "queued" or "installed"
  conn,      \* Client.orderConn and Client.priceConn
  connClosed,\* connections whose UserConn was closed
  watching,  \* connections with a listenWSClose goroutine
  handler,   \* Client.cancelHandler
  subs,      \* where each Subscribe is
  crashed    \* the panic that ended the process

loopVars == <<loop, current, left, feed>>
closeVars == <<closing, closer>>
connVars == <<connState, conn, connClosed, watching>>
subVars == <<handler, subs>>
callVars == <<callers, ended>>
sideVars == <<listener, up, blocked>>
vars == <<loopVars, closeVars, connVars, subVars, callVars, sideVars,
          actions, crashed>>

Jobs == [kind : {"call"}, who : Callers] \cup [kind : {"connect"}, who : Conns]
          \cup [kind : {"subscribe"}, who : Subs]
Kline == [kind |-> "kline", who |-> None]
Notify == [kind |-> "notify", who |-> None]
Idle == [kind |-> "none", who |-> None]

IsClosed == closing # "no"
Cancelled == closing \notin {"no", "cancel"}
ShutdownClosed == closing \in {"actions", "done"}
ActionsClosed == closing = "done"
CtxDone == Cancelled \/ Owner \in ended
StatesClosed == listener \in {"over", "stopped"}

Init ==
  /\ loop = "first" /\ current = Idle /\ left = {} /\ feed = FALSE
  /\ closing = "no" /\ closer = None
  /\ listener = "first" /\ up = Trackers /\ blocked = FALSE
  /\ actions = <<>> /\ crashed = "no"
  /\ callers = [c \in Callers |-> "idle"] /\ ended = {}
  /\ connState = [k \in Conns |-> "new"]
  /\ conn = [s \in Slots |-> None] /\ connClosed = {} /\ watching = {}
  /\ handler = None /\ subs = [s \in Subs |-> "idle"]

------------------------------------------------------------------------------
(* The listener and the trackers. *)

(* The context ends the listener; so does the history, after the first row *)
(* (histories have two rows or more; their rows are not told apart).       *)
ListenerStops ==
  /\ ~StatesClosed /\ CtxDone
  /\ listener' = "stopped"
  /\ UNCHANGED <<loopVars, closeVars, connVars, subVars, callVars, up, blocked, actions, crashed>>

HistoryEnds ==
  /\ listener = "rows"
  /\ listener' = "over"
  /\ UNCHANGED <<loopVars, closeVars, connVars, subVars, callVars, up, blocked, actions, crashed>>

(* The trackers that are in their selects: they run and wait for nothing. *)
Listening == up \ {t \in {"order"} : blocked}

TrackerStops(t) ==
  /\ t \in Listening /\ CtxDone
  /\ up' = up \ {t}
  /\ UNCHANGED <<loopVars, closeVars, connVars, subVars, callVars, listener, blocked, actions, crashed>>

------------------------------------------------------------------------------
(* The exchange goroutine. *)

LoopOnly ==
  UNCHANGED <<closeVars, connVars, subVars, callVars, sideVars, actions, crashed>>

(* Before its select it waits for the first row, whatever its context does. *)
FirstState ==
  /\ loop = "first" /\ listener = "first"
  /\ loop' = "select" /\ listener' = "rows"
  /\ UNCHANGED <<current, left, feed, closeVars, connVars, subVars, callVars, up, blocked, actions, crashed>>

FirstClosed ==
  /\ loop = "first" /\ StatesClosed
  /\ loop' = "return"
  /\ LoopOnly /\ UNCHANGED <<current, left, feed>>

ContextDone ==
  /\ loop \in {"select", "drain"} /\ CtxDone
  /\ loop' = "return"
  /\ LoopOnly /\ UNCHANGED <<current, left, feed>>

(* The order tracker's signal, which may come at any time.  It makes room  *)
(* in the channel.                                                         *)
Control ==
  /\ loop = "select"
  /\ feed' = ~feed
  /\ blocked' = FALSE
  /\ UNCHANGED <<loop, current, left, closeVars, connVars, subVars, callVars, listener, up,
                 actions, crashed>>

Busy(job, wait) == loop' = "busy" /\ current' = job /\ left' = wait

(* The next action, in the select or in the loop that drains the queue. *)
TakeAction ==
  /\ loop \in {"select", "drain"} /\ actions # <<>>
  /\ LET job == Head(actions)
     IN  Busy(job, IF job.kind = "call" THEN Needs[job.who] ELSE {})
  /\ actions' = Tail(actions)
  /\ UNCHANGED <<feed, closeVars, connVars, subVars, callVars, sideVars, crashed>>

(* The default case, or the closed queue, ends the draining. *)
DrainEnds ==
  /\ loop = "drain" /\ actions = <<>>
  /\ ActionsClosed \/ ~CtxDone
  /\ loop' = "select"
  /\ LoopOnly /\ UNCHANGED <<current, left, feed>>

(* The select does not test for the closed queue: it calls a nil function. *)
TakeNil ==
  /\ loop = "select" /\ actions = <<>> /\ ActionsClosed
  /\ crashed' = "nilAction"
  /\ UNCHANGED <<loopVars, closeVars, connVars, subVars, callVars, sideVars, actions>>

(* A kline is dropped, matched with no order in reach, or fills orders. *)
ReadKline ==
  /\ loop = "select" /\ feed /\ listener = "rows"
  /\ \E wait \in {{}, {"order"}, Trackers} : Busy(Kline, wait)
  /\ LoopOnly /\ UNCHANGED feed

(* Mutant of EndOfStates: the return before the handler is called. *)
EndOfStatesSilent ==
  /\ loop = "select" /\ feed /\ StatesClosed
  /\ feed' = FALSE
  /\ loop' = "return"
  /\ LoopOnly /\ UNCHANGED <<current, left>>

(* The closed channel of rows: the handler reads both trackers. *)
EndOfStates ==
  /\ loop = "select" /\ feed /\ StatesClosed
  /\ feed' = FALSE
  /\ IF handler = None
       THEN loop' = "return" /\ UNCHANGED <<current, left>>
       ELSE Busy(Notify, Trackers)
  /\ LoopOnly

(* One of the trackers answers.  A transaction that changes the book can   *)
(* leave the order tracker with a signal and no room for it, before the    *)
(* last transaction of an action or after it; the handler's only reads.    *)
Serve(t) ==
  /\ loop = "busy" /\ t \in left \cap Listening
  /\ \/ left' = left \ {t} /\ UNCHANGED blocked
     \/ /\ t = "order" /\ current # Notify
        /\ left' \in {left, left \ {t}}
        /\ blocked' = TRUE
  /\ UNCHANGED <<loop, current, feed, closeVars, connVars, subVars, callVars, listener, up,
                 actions, crashed>>

Ready(kind) == loop = "busy" /\ left = {} /\ current.kind = kind

FinishKline ==
  /\ Ready("kline")
  /\ loop' = "select" /\ current' = Idle
  /\ LoopOnly /\ UNCHANGED <<left, feed>>

(* Mutant of FinishCall: a call that fails does not close its channel. *)
FinishCallSilent ==
  /\ Ready("call")
  /\ loop' = "drain" /\ current' = Idle
  /\ LoopOnly /\ UNCHANGED <<left, feed>>

FinishCall ==
  /\ Ready("call")
  /\ callers' = [callers EXCEPT ![current.who] = "idle"]
  /\ loop' = "drain" /\ current' = Idle
  /\ UNCHANGED <<left, feed, closeVars, connVars, subVars, ended, sideVars, actions, crashed>>

Slot == SlotOf[current.who]

(* Mutant of InstallConn: assigned first, so that the new one is closed. *)
InstallConnClosesNew ==
  /\ Ready("connect")
  /\ connClosed' = connClosed \cup {current.who}
  /\ conn' = [conn EXCEPT ![Slot] = current.who]
  /\ connState' = [connState EXCEPT ![current.who] = "installed"]
  /\ watching' = watching \cup {current.who}
  /\ loop' = "drain" /\ current' = Idle
  /\ UNCHANGED <<left, feed, closeVars, subVars, callVars, sideVars, actions, crashed>>

(* SetOrdersConnection, SetPricesConnection: the old connection is closed. *)
InstallConn ==
  /\ Ready("connect")
  /\ connClosed' = connClosed \cup ({conn[Slot]} \ {None})
  /\ conn' = [conn EXCEPT ![Slot] = current.who]
  /\ connState' = [connState EXCEPT ![current.who] = "installed"]
  /\ watching' = watching \cup {current.who}
  /\ loop' = "drain" /\ current' = Idle
  /\ UNCHANGED <<left, feed, closeVars, subVars, callVars, sideVars, actions, crashed>>

(* A request makes the process panic: in its handler, before the action is *)
(* queued, or as the action (see Exchange: ReplaceNothing, CallAddPanics). *)
RequestPanics ==
  /\ \/ \E c \in Callers : callers[c] = "checked"
     \/ loop = "busy" /\ current.kind = "call"
  /\ crashed' = "request"
  /\ UNCHANGED <<loopVars, closeVars, connVars, subVars, callVars, sideVars, actions>>

SetHandler ==
  /\ Ready("subscribe")
  /\ handler' = current.who
  /\ loop' = "drain" /\ current' = Idle
  /\ UNCHANGED <<left, feed, closeVars, connVars, subs, callVars, sideVars, actions, crashed>>

FinishNotify ==
  /\ Ready("notify")
  /\ subs' = [subs EXCEPT ![handler] = "notified"]
  /\ loop' = "return" /\ current' = Idle
  /\ UNCHANGED <<left, feed, closeVars, connVars, handler, callVars, sideVars, actions, crashed>>

------------------------------------------------------------------------------
(* Close. *)

(* The compare-and-swap: only the first caller of Close goes on. *)
Close(who) ==
  IF IsClosed
    THEN UNCHANGED closeVars
    ELSE closing' = "cancel" /\ closer' = who

(* Mutant of LoopCloses: the deferred Close is missing. *)
LoopReturns ==
  /\ loop = "return"
  /\ loop' = "gone"
  /\ LoopOnly /\ UNCHANGED <<current, left, feed>>

LoopCloses ==
  /\ loop = "return"
  /\ loop' = "gone"
  /\ Close("loop")
  /\ UNCHANGED <<current, left, feed, connVars, subVars, callVars, sideVars, actions, crashed>>

(* Mutant of WatchClose: it watches the client's context too. *)
WatchCloseOnContext(k) ==
  /\ k \in watching
  /\ ShutdownClosed \/ CtxDone \/ k \in connClosed
  /\ watching' = watching \ {k}
  /\ Close("watcher")
  /\ UNCHANGED <<loopVars, connState, conn, connClosed, subVars, callVars, sideVars, actions, crashed>>

(* listenWSClose of a connection. *)
WatchClose(k) ==
  /\ k \in watching
  /\ ShutdownClosed \/ k \in connClosed
  /\ watching' = watching \ {k}
  /\ Close("watcher")
  /\ UNCHANGED <<loopVars, connState, conn, connClosed, subVars, callVars, sideVars, actions, crashed>>

CloseStep(from, to) ==
  /\ closing = from
  /\ closing' = to
  /\ UNCHANGED <<closer, loopVars, connState, conn, watching, subVars, callVars, sideVars, actions, crashed>>

CloseConn(s) == connClosed' = connClosed \cup ({conn[s]} \ {None})

CloseCancels == CloseStep("cancel", "orders") /\ UNCHANGED connClosed
CloseOrders == CloseStep("orders", "prices") /\ CloseConn("orders")
(* Mutant of ClosePrices: the orders connection is closed twice. *)
ClosePricesTwice == CloseStep("prices", "shutdown") /\ CloseConn("orders")

ClosePrices == CloseStep("prices", "shutdown") /\ CloseConn("prices")
CloseShutdown == CloseStep("shutdown", "actions") /\ UNCHANGED connClosed

(* Mutant of CloseActions: it waits for the loop to return. *)
CloseActionsAfterLoop == loop = "gone" /\ CloseStep("actions", "done") /\ UNCHANGED connClosed

CloseActions == CloseStep("actions", "done") /\ UNCHANGED connClosed

------------------------------------------------------------------------------
(* The users of the client. *)

(* A stream's next request: the handler looks at IsClosed, and returns     *)
(* Aborted - which ends the stream - or calls NewAction.                   *)
Request(c) ==
  /\ callers[c] = "idle" /\ c \notin ended
  /\ IF IsClosed
       THEN ended' = ended \cup {c} /\ UNCHANGED callers
       ELSE callers' = [callers EXCEPT ![c] = "checked"] /\ UNCHANGED ended
  /\ UNCHANGED <<loopVars, closeVars, connVars, subVars, sideVars, actions, crashed>>

(* A send on the actions, which panics once they are closed. *)
Send(job) ==
  IF ActionsClosed
    THEN crashed' = "closedChannel" /\ UNCHANGED actions
    ELSE actions' = Append(actions, job) /\ UNCHANGED crashed

NewAction(c) ==
  /\ callers[c] = "checked"
  /\ Send([kind |-> "call", who |-> c])
  /\ callers' = [callers EXCEPT ![c] = "waiting"]
  /\ UNCHANGED <<loopVars, closeVars, connVars, subVars, ended, sideVars>>

(* Mutant of Withdraw: NewAction stops waiting when its stream ends. *)
WithdrawQueued(c) ==
  /\ callers[c] # "idle" /\ c \in ended
  /\ callers' = [callers EXCEPT ![c] = "idle"]
  /\ UNCHANGED <<loopVars, closeVars, connVars, subVars, ended, sideVars, actions, crashed>>

(* Its stream ended before the action was sent: NewAction returns. *)
Withdraw(c) ==
  /\ callers[c] = "checked" /\ c \in ended
  /\ callers' = [callers EXCEPT ![c] = "idle"]
  /\ UNCHANGED <<loopVars, closeVars, connVars, subVars, ended, sideVars, actions, crashed>>

StreamEnds(c) ==
  /\ c \notin ended
  /\ ended' = ended \cup {c}
  /\ UNCHANGED <<loopVars, closeVars, connVars, subVars, callers, sideVars, actions, crashed>>

(* The registry hands a new connection to the client, open or not. *)
SetConnection(k) ==
  /\ connState[k] = "new"
  /\ Send([kind |-> "connect", who |-> k])
  /\ connState' = [connState EXCEPT ![k] = "queued"]
  /\ UNCHANGED <<loopVars, closeVars, conn, connClosed, watching, subVars, callVars, sideVars>>

Subscribe(s) ==
  /\ subs[s] = "idle"
  /\ Send([kind |-> "subscribe", who |-> s])
  /\ subs' = [subs EXCEPT ![s] = "waiting"]
  /\ UNCHANGED <<loopVars, closeVars, connVars, handler, callVars, sideVars>>

------------------------------------------------------------------------------
Loop ==
  \/ FirstState \/ FirstClosed \/ ContextDone \/ Control
  \/ TakeAction \/ DrainEnds \/ TakeNil
  \/ ReadKline \/ EndOfStates \/ LoopCloses
  \/ \E t \in Trackers : Serve(t)
  \/ FinishKline \/ FinishCall \/ InstallConn \/ SetHandler \/ FinishNotify

Closing == CloseCancels \/ CloseOrders \/ ClosePrices \/ CloseShutdown \/ CloseActions

Users ==
  \/ RequestPanics
  \/ \E c \in Callers : Request(c) \/ NewAction(c) \/ Withdraw(c) \/ StreamEnds(c)
  \/ \E k \in Conns : SetConnection(k)
  \/ \E s \in Subs : Subscribe(s)

Next ==
  /\ crashed = "no"
  /\ \/ Loop \/ Closing \/ Users
     \/ ListenerStops \/ HistoryEnds
     \/ \E t \in Trackers : TrackerStops(t)
     \/ \E k \in Conns : WatchClose(k)

Spec == Init /\ [][Next]_vars

(* Fairness.  A goroutine that can go on does: the steps of Close, of a    *)
(* watcher, of the listener and of a busy loop.  A select chooses at       *)
(* random among the ready cases, so a case that stays ready or becomes     *)
(* ready again and again is taken: the queue, the context, the rows.       *)
(* Users, the history and the order tracker's signals are under none.      *)
Runs(A) == (crashed = "no") /\ A

Fairness ==
  /\ WF_vars(Runs(Closing))
  /\ WF_vars(Runs(\E k \in Conns : WatchClose(k)))
  /\ WF_vars(Runs(ListenerStops))
  /\ WF_vars(Runs(\E t \in Trackers : Serve(t)))
  /\ WF_vars(Runs(FirstState \/ FirstClosed \/ DrainEnds \/ LoopCloses
                    \/ FinishKline \/ FinishCall \/ InstallConn \/ SetHandler \/ FinishNotify))
  /\ SF_vars(Runs(TakeAction))
  /\ SF_vars(Runs(ContextDone))
  /\ SF_vars(Runs(EndOfStates))

FairSpec == Spec /\ Fairness

------------------------------------------------------------------------------
(* Types of the client's state. *)
LifeTypeOK ==
  /\ loop \in {"first", "select", "drain", "busy", "return", "gone"}
  /\ current \in Jobs \cup {Kline, Notify, Idle}
  /\ left \subseteq Trackers /\ up \subseteq Trackers
  /\ feed \in BOOLEAN /\ blocked \in BOOLEAN
  /\ actions \in Seq(Jobs)
  /\ closing \in {"no", "cancel", "orders", "prices", "shutdown", "actions", "done"}
  /\ closer \in {None, "loop", "watcher"}
  /\ listener \in {"first", "rows", "over", "stopped"}
  /\ callers \in [Callers -> {"idle", "checked", "waiting"}]
  /\ ended \subseteq Callers
  /\ connState \in [Conns -> {"new", "queued", "installed"}]
  /\ conn \in [Slots -> Conns \cup {None}]
  /\ connClosed \subseteq Conns /\ watching \subseteq Conns
  /\ handler \in Subs \cup {None}
  /\ subs \in [Subs -> {"idle", "waiting", "notified"}]
  /\ crashed \in {"no", "nilAction", "closedChannel", "request"}

(* Some connection of the client was closed because a newer one took its   *)
(* slot.                                                                   *)
Replaced == \E k \in connClosed : k # conn[SlotOf[k]]

(* A client closes for three reasons only: the stream that created it      *)
(* ended, the price history is over, or the user opened a second           *)
(* connection of one kind - which closes the first, whose watcher then     *)
(* closes the client and with it the second.                               *)
ClosedForCause ==
  IsClosed => Owner \in ended \/ listener = "over" \/ Replaced

(* The nil action, which ends the process for every user, is run only when *)
(* a connection was replaced: in all other cases the exchange goroutine    *)
(* closes the queue itself, after its last read of it.                     *)
NilActionNeedsReplacement == crashed = "nilAction" => Replaced

(* When the exchange goroutine closes the client, every connection it was  *)
(* ever given and installed is closed before the registry learns of it.    *)
LoopClosesAllConns ==
  ShutdownClosed /\ closer = "loop" =>
    \A k \in Conns : connState[k] = "installed" => k \in connClosed

(* A NewAction that waits has its action exactly once in the queue or in   *)
(* the hands of the exchange goroutine, and nothing else does: no action   *)
(* is dropped or run twice (which would close its done channel twice).     *)
(* That the exchange ever gets to it is another matter: after a return of  *)
(* the goroutine what is queued stays queued (see CallsReturn).            *)
CallPlaces(c) ==
  {i \in DOMAIN actions : actions[i] = [kind |-> "call", who |-> c]}
    \cup {0 : x \in {y \in {current} : y = [kind |-> "call", who |-> c]}}

CallHeldOnce ==
  crashed # "closedChannel" =>
    \A c \in Callers :
      IF callers[c] = "waiting" THEN \E i \in CallPlaces(c) : CallPlaces(c) = {i}
                                ELSE CallPlaces(c) = {}

(* The client's life as others see it: the steps of Close up to the one    *)
(* that closes the shutdown channel are not told apart.                    *)
Life ==
  IF crashed # "no" THEN "dead"
  ELSE CASE closing = "done" -> "finished"
         [] closing = "actions" -> "shut"
         [] closing \in {"cancel", "orders", "prices", "shutdown"} -> "closed"
         [] closing = "no" -> IF Owner \in ended THEN "cancelled" ELSE "open"

CL == INSTANCE ClientLife WITH life <- Life

(* The client implements ClientLife: however many goroutines call Close,   *)
(* it is closed once, and its channels are closed in order and once (a     *)
(* second close of a channel would panic).                                 *)
ImplementsLife == CL!LifeSpec

(* And what Close began it ends, unless the process does. *)
ImplementsEndedLife == CL!EndedLife

(* A busy exchange goroutine waits for an order tracker that waits for it, *)
(* or for a tracker that has stopped: it does so for ever.                 *)
Wedged == loop = "busy" /\ blocked /\ "order" \in left

Stuck == loop = "busy" /\ ~(left \subseteq Listening)

(* Reasons outside of the client for work to be left undone. *)
Excused == Owner \in ended \/ closer = "watcher" \/ crashed # "no"

(* NewAction returns, unless the client was closed under it or the         *)
(* exchange goroutine and the order tracker wait for each other.           *)
CallsReturn ==
  \A c \in Callers :
    callers[c] = "waiting" ~>
      callers[c] # "waiting" \/ Excused \/ listener = "over" \/ Wedged

(* When the creating stream ends, the client is closed to the end, unless  *)
(* the exchange goroutine is caught waiting for a tracker that the same    *)
(* context stopped, or that waits for it: then nothing ever closes it.     *)
ContextCloses ==
  Owner \in ended ~> closing = "done" \/ Stuck \/ crashed # "no"

(* Callers that take turns can keep the loop that drains the queue going   *)
(* for ever.                                                               *)
DrainsForever == <>[](loop \in {"drain", "busy"}) /\ []<>(loop = "drain")

(* At the end of the history, with the feed on, the last subscriber is     *)
(* told, unless a signal turns the feed off, another subscriber takes its  *)
(* place - which leaves it waiting for ever -, the exchange and the order  *)
(* tracker wait for each other, or the draining never ends.                *)
EndNotifies ==
  \A s \in Subs :
    []((listener = "over" /\ handler = s /\ feed /\ loop \notin {"return", "gone"})
         => \/ <>(\/ subs[s] = "notified" \/ Excused \/ Wedged
                 \/ handler # s \/ (loop = "select" /\ ~feed))
            \/ DrainsForever)
=============================================================================
