-------------------------- MODULE LifecycleProofs --------------------------
(***************************************************************************)
(* Proofs about Lifecycle, for any callers, connections and subscribers.   *)
(*                                                                         *)
(* The inductive invariant has three parts besides the types.  ConnInv:    *)
(* the fields hold installed connections of their own slot, and every      *)
(* other installed connection was closed.  QueueInv: a connection is       *)
(* queued once and installed once.  CauseInv: whatever leads towards a     *)
(* Close - the context, the closed rows, a closed connection - has one of  *)
(* the three causes, and a cause never goes away.                          *)
(***************************************************************************)
EXTENDS Lifecycle, Naturals, TLAPS

Cause == Owner \in ended \/ listener = "over" \/ Replaced

ConnInv ==
  /\ \A k \in Conns : connState[k] = "installed" => k \in connClosed \/ conn[SlotOf[k]] = k
  /\ \A s \in Slots : conn[s] # None => connState[conn[s]] = "installed" /\ SlotOf[conn[s]] = s
  /\ \A k \in connClosed \cup watching : connState[k] = "installed"

QueueInv ==
  /\ \A i \in DOMAIN actions :
       actions[i].kind = "connect" => connState[actions[i].who] = "queued" /\ actions[i] # current
  /\ \A i, j \in DOMAIN actions :
       actions[i].kind = "connect" /\ actions[i] = actions[j] => i = j
  /\ current.kind = "connect" => connState[current.who] = "queued"

CauseInv ==
  /\ IsClosed => Cause
  /\ loop \in {"return", "gone"} => Cause
  /\ listener = "stopped" => Cause
  /\ current.kind = "notify" => Cause
  /\ ~IsClosed => \A k \in connClosed : k # conn[SlotOf[k]]

CloserInv ==
  /\ ~IsClosed => closer = None
  /\ IsClosed => closer \in {"loop", "watcher"}
  /\ closer = "watcher" => Replaced
  /\ closer = "loop" => loop = "gone"
  /\ crashed = "nilAction" => closer = "watcher"

ShutInv ==
  closer = "loop" =>
    /\ closing \notin {"no", "cancel", "orders"} => conn["orders"] \in connClosed \cup {None}
    /\ closing \notin {"no", "cancel", "orders", "prices"} => conn["prices"] \in connClosed \cup {None}

LifeInv == LifeTypeOK /\ ConnInv /\ QueueInv /\ CauseInv /\ CloserInv /\ ShutInv

------------------------------------------------------------------------------
(* What the jobs of the exchange goroutine are made of. *)
LEMMA Kinds ==
  /\ \A j \in Jobs : /\ j.kind \in {"call", "connect", "subscribe"}
                     /\ j.kind = "call" => j.who \in Callers
                     /\ j.kind = "connect" => j.who \in Conns
                     /\ j.kind = "subscribe" => j.who \in Subs
                     /\ j.kind = "connect" => j = [kind |-> "connect", who |-> j.who]
  /\ \A c \in Callers : [kind |-> "call", who |-> c] \in Jobs
  /\ \A k \in Conns : [kind |-> "connect", who |-> k] \in Jobs
  /\ \A t \in Subs : [kind |-> "subscribe", who |-> t] \in Jobs
  /\ Kline.kind = "kline" /\ Notify.kind = "notify" /\ Idle.kind = "none"
  /\ {"orders", "prices"} \subseteq Slots
  /\ {"order"} \subseteq Trackers
  BY DEF Jobs, Kline, Notify, Idle, Slots, Trackers

LEMMA SendTyped ==
  ASSUME NEW job \in Jobs, LifeTypeOK, Send(job)
  PROVE  actions' \in Seq(Jobs) /\ crashed' \in {"no", "nilAction", "closedChannel", "request"}
  BY DEF Send, LifeTypeOK

LEMMA InitLife == Init => LifeInv
<1> SUFFICES ASSUME Init PROVE LifeInv
  OBVIOUS
<1>1. LifeTypeOK
  <2>1. actions \in Seq(Jobs) /\ current \in {Kline, Notify, Idle}
    BY DEF Init
  <2>2. conn \in [Slots -> Conns \cup {None}]
    BY DEF Init
  <2> QED
    BY <2>1, <2>2 DEF Init, LifeTypeOK
<1>2. ConnInv
  BY DEF Init, ConnInv
<1>3. QueueInv
  BY Kinds DEF Init, QueueInv
<1>4. CauseInv /\ CloserInv /\ ShutInv
  BY Kinds, NoneAssumption DEF Init, CauseInv, CloserInv, ShutInv, IsClosed
<1> QED
  BY <1>1, <1>2, <1>3, <1>4 DEF LifeInv

LEMMA TypeStep == LifeTypeOK /\ [Next]_vars => LifeTypeOK'
<1> SUFFICES ASSUME LifeTypeOK, [Next]_vars PROVE LifeTypeOK'
  OBVIOUS
<1> USE DEF LifeTypeOK, LoopOnly, vars,
        loopVars, closeVars, connVars, subVars, callVars, sideVars
<1>1. CASE ListenerStops
  BY <1>1 DEF ListenerStops
<1>2. CASE HistoryEnds
  BY <1>2 DEF HistoryEnds
<1>3. CASE FirstState
  BY <1>3 DEF FirstState
<1>4. CASE FirstClosed
  BY <1>4 DEF FirstClosed
<1>5. CASE ContextDone
  BY <1>5 DEF ContextDone
<1>6. CASE Control
  BY <1>6 DEF Control
<1>7. CASE TakeAction
  BY <1>7, Kinds, NeedsAssumption DEF TakeAction, Busy
<1>8. CASE DrainEnds
  BY <1>8 DEF DrainEnds
<1>9. CASE TakeNil
  BY <1>9 DEF TakeNil
<1>10. CASE ReadKline
  BY <1>10, Kinds DEF ReadKline, Busy
<1>11. CASE EndOfStates
  BY <1>11, Kinds DEF EndOfStates, Busy
<1>12. CASE FinishKline
  BY <1>12 DEF FinishKline
<1>13. CASE FinishCall
  BY <1>13 DEF FinishCall, Ready
<1>14. CASE InstallConn
  BY <1>14, Kinds, SlotAssumption DEF InstallConn, Ready, Slot
<1>15. CASE SetHandler
  BY <1>15, Kinds DEF SetHandler, Ready
<1>16. CASE FinishNotify
  BY <1>16, Kinds DEF FinishNotify, Ready
<1>17. CASE LoopCloses
  BY <1>17 DEF LoopCloses, Close
<1>18. CASE CloseCancels
  BY <1>18 DEF CloseCancels, CloseStep
<1>19. CASE CloseOrders
  BY <1>19, Kinds DEF CloseOrders, CloseStep, CloseConn
<1>20. CASE ClosePrices
  BY <1>20, Kinds DEF ClosePrices, CloseStep, CloseConn
<1>21. CASE CloseShutdown
  BY <1>21 DEF CloseShutdown, CloseStep
<1>22. CASE CloseActions
  BY <1>22 DEF CloseActions, CloseStep
<1>23. ASSUME NEW t \in Trackers, TrackerStops(t) PROVE LifeTypeOK'
  BY <1>23 DEF TrackerStops
<1>24. ASSUME NEW t \in Trackers, Serve(t) PROVE LifeTypeOK'
  <2>1. left' \subseteq left /\ blocked' \in BOOLEAN
    BY <1>24 DEF Serve
  <2> QED
    BY <1>24, <2>1 DEF Serve
<1>25. ASSUME NEW k \in Conns, WatchClose(k) PROVE LifeTypeOK'
  BY <1>25 DEF WatchClose, Close
<1>26. ASSUME NEW c \in Callers, Request(c) PROVE LifeTypeOK'
  BY <1>26 DEF Request
<1>27. ASSUME NEW c \in Callers, NewAction(c) PROVE LifeTypeOK'
  <2>1. [kind |-> "call", who |-> c] \in Jobs
    BY Kinds
  <2>2. actions' \in Seq(Jobs) /\ crashed' \in {"no", "nilAction", "closedChannel", "request"}
    BY <1>27, <2>1, SendTyped DEF NewAction
  <2> QED
    BY <1>27, <2>2 DEF NewAction
<1>28. ASSUME NEW c \in Callers, Withdraw(c) PROVE LifeTypeOK'
  BY <1>28 DEF Withdraw
<1>29. ASSUME NEW c \in Callers, StreamEnds(c) PROVE LifeTypeOK'
  BY <1>29 DEF StreamEnds
<1>30. ASSUME NEW k \in Conns, SetConnection(k) PROVE LifeTypeOK'
  <2>1. [kind |-> "connect", who |-> k] \in Jobs
    BY Kinds
  <2>2. actions' \in Seq(Jobs) /\ crashed' \in {"no", "nilAction", "closedChannel", "request"}
    BY <1>30, <2>1, SendTyped DEF SetConnection
  <2> QED
    BY <1>30, <2>2 DEF SetConnection
<1>31. ASSUME NEW s \in Subs, Subscribe(s) PROVE LifeTypeOK'
  <2>1. [kind |-> "subscribe", who |-> s] \in Jobs
    BY Kinds
  <2>2. actions' \in Seq(Jobs) /\ crashed' \in {"no", "nilAction", "closedChannel", "request"}
    BY <1>31, <2>1, SendTyped DEF Subscribe
  <2> QED
    BY <1>31, <2>2 DEF Subscribe
<1>32. CASE UNCHANGED vars
  BY <1>32
<1>33. CASE RequestPanics
  BY <1>33 DEF RequestPanics
<1> HIDE DEF LifeTypeOK, LoopOnly, vars,
        loopVars, closeVars, connVars, subVars, callVars, sideVars
<1> QED
  BY <1>1, <1>2, <1>3, <1>4, <1>5, <1>6, <1>7, <1>8, <1>9, <1>10, <1>11,
     <1>12, <1>13, <1>14, <1>15, <1>16, <1>17, <1>18, <1>19, <1>20, <1>21, <1>22,
     <1>23, <1>24, <1>25, <1>26, <1>27, <1>28, <1>29, <1>30, <1>31, <1>32, <1>33
  DEF Next, Loop, Closing, Users

(* The steps that touch the connections. *)
LEMMA ConnFrame ==
  ASSUME [Next]_vars
  PROVE  \/ InstallConn \/ CloseOrders \/ ClosePrices
         \/ \E k \in Conns : SetConnection(k) \/ WatchClose(k)
         \/ UNCHANGED connVars
<1> USE DEF vars, connVars, LoopOnly
<1>1. CASE Loop
  BY <1>1 DEF Loop, FirstState, FirstClosed, ContextDone, Control, TakeAction, DrainEnds,
     TakeNil, ReadKline, EndOfStates, LoopCloses, Serve, FinishKline, FinishCall,
     SetHandler, FinishNotify
<1>2. CASE Closing
  BY <1>2 DEF Closing, CloseCancels, CloseShutdown, CloseActions, CloseStep
<1>3. CASE Users
  BY <1>3 DEF Users, RequestPanics, Request, NewAction, Withdraw, StreamEnds, Subscribe
<1>4. CASE ListenerStops \/ HistoryEnds \/ \E t \in Trackers : TrackerStops(t)
  BY <1>4 DEF ListenerStops, HistoryEnds, TrackerStops
<1> QED
  BY <1>1, <1>2, <1>3, <1>4 DEF Next

LEMMA ConnStep == LifeInv /\ [Next]_vars => ConnInv'
<1> SUFFICES ASSUME LifeInv, [Next]_vars PROVE ConnInv'
  OBVIOUS
<1>0. LifeTypeOK /\ LifeTypeOK' /\ ConnInv /\ QueueInv
  BY TypeStep DEF LifeInv
<1> USE SlotAssumption, NoneAssumption
<1>1. CASE InstallConn
  <2>1. /\ current.who \in Conns
        /\ connState[current.who] = "queued"
    BY <1>0, <1>1, Kinds DEF InstallConn, Ready, QueueInv, LifeTypeOK
  <2>2. /\ current.who \notin connClosed
        /\ \A s \in Slots : conn[s] # current.who
    BY <1>0, <2>1 DEF ConnInv
  <2>3. /\ conn \in [Slots -> Conns \cup {None}]
        /\ connState \in [Conns -> {"new", "queued", "installed"}]
        /\ connClosed \subseteq Conns /\ watching \subseteq Conns
    BY <1>0 DEF LifeTypeOK
  <2> QED
    BY <1>0, <1>1, <2>1, <2>2, <2>3 DEF InstallConn, Slot, ConnInv
<1>2. CASE CloseOrders \/ ClosePrices
  <2>1. /\ connState' = connState /\ conn' = conn /\ watching' = watching
        /\ \E s \in Slots : connClosed' = connClosed \cup ({conn[s]} \ {None})
    BY <1>2 DEF CloseOrders, ClosePrices, CloseStep, CloseConn, Slots
  <2> QED
    BY <1>0, <2>1 DEF ConnInv
<1>3. ASSUME NEW k \in Conns, SetConnection(k) PROVE ConnInv'
  <2>1. /\ connState[k] = "new" /\ connState' = [connState EXCEPT ![k] = "queued"]
        /\ UNCHANGED <<conn, connClosed, watching>>
        /\ connState \in [Conns -> {"new", "queued", "installed"}]
        /\ conn \in [Slots -> Conns \cup {None}]
        /\ connClosed \subseteq Conns /\ watching \subseteq Conns
    BY <1>0, <1>3 DEF SetConnection, LifeTypeOK
  <2> QED
    BY <1>0, <2>1 DEF ConnInv
<1>4. ASSUME NEW k \in Conns, WatchClose(k) PROVE ConnInv'
  BY <1>0, <1>4 DEF WatchClose, ConnInv
<1>5. CASE UNCHANGED connVars
  BY <1>0, <1>5 DEF connVars, ConnInv
<1> QED
  BY <1>1, <1>2, <1>3, <1>4, <1>5, ConnFrame

(* The steps that touch the queue, the current job or the connections'     *)
(* states.                                                                 *)
LEMMA QueueFrame ==
  ASSUME [Next]_vars
  PROVE  \/ TakeAction \/ InstallConn
         \/ \E k \in Conns : SetConnection(k)
         \/ \E c \in Callers : NewAction(c)
         \/ \E s \in Subs : Subscribe(s)
         \/ /\ UNCHANGED <<actions, connState>>
            /\ current' = current \/ current' \in {Idle, Kline, Notify}
<1> USE DEF vars, loopVars, connVars, LoopOnly
<1>1. CASE Loop
  BY <1>1 DEF Loop, FirstState, FirstClosed, ContextDone, Control, DrainEnds, TakeNil,
     ReadKline, EndOfStates, Busy, LoopCloses, Serve, FinishKline, FinishCall,
     SetHandler, FinishNotify
<1>2. CASE Closing
  BY <1>2 DEF Closing, CloseCancels, CloseOrders, ClosePrices, CloseShutdown, CloseActions,
     CloseStep
<1>3. CASE Users
  BY <1>3 DEF Users, RequestPanics, Request, Withdraw, StreamEnds
<1>4. CASE \/ ListenerStops \/ HistoryEnds
           \/ \E t \in Trackers : TrackerStops(t)
           \/ \E k \in Conns : WatchClose(k)
  BY <1>4 DEF ListenerStops, HistoryEnds, TrackerStops, WatchClose
<1> QED
  BY <1>1, <1>2, <1>3, <1>4 DEF Next

(* A job sent that is not in the queue yet, nor at hand, keeps QueueInv.   *)
LEMMA SendKeepsQueue ==
  ASSUME LifeTypeOK, QueueInv, NEW job \in Jobs, Send(job),
         connState' \in [Conns -> {"new", "queued", "installed"}],
         current' = current,
         \A k \in Conns : connState[k] = "queued" => connState'[k] = "queued",
         job.kind = "connect" => /\ connState[job.who] # "queued"
                                 /\ connState'[job.who] = "queued"
  PROVE  QueueInv'
<1>1. current \in Jobs \cup {Kline, Notify, Idle} /\ actions \in Seq(Jobs)
  BY DEF LifeTypeOK
<1>2. \A i \in DOMAIN actions : actions[i] \in Jobs
  BY <1>1
<1>3. \A i \in DOMAIN actions : job.kind = "connect" => actions[i] # job
  BY DEF QueueInv
<1>4. job.kind = "connect" => job # current
  BY DEF QueueInv
<1>5. \A i \in DOMAIN actions : actions[i].kind = "connect" => connState'[actions[i].who] = "queued"
  BY <1>2, Kinds DEF QueueInv
<1>6. current.kind = "connect" => connState'[current.who] = "queued"
  BY <1>1, Kinds DEF QueueInv
<1>7. CASE actions' = actions
  BY <1>5, <1>6, <1>7 DEF QueueInv
<1>8. CASE actions' = Append(actions, job)
  <2>1. /\ DOMAIN actions = 1 .. Len(actions) /\ Len(actions) \in Nat
        /\ DOMAIN actions' = 1 .. Len(actions) + 1
        /\ \A i \in 1 .. Len(actions) : actions'[i] = actions[i]
        /\ actions'[Len(actions) + 1] = job
    BY <1>1, <1>8
  <2>2. \A i \in DOMAIN actions' :
          actions'[i].kind = "connect" =>
            connState'[actions'[i].who] = "queued" /\ actions'[i] # current
    BY <1>4, <1>5, <2>1 DEF QueueInv
  <2>3. \A i, j \in DOMAIN actions' :
          actions'[i].kind = "connect" /\ actions'[i] = actions'[j] => i = j
    BY <1>3, <2>1 DEF QueueInv
  <2> QED
    BY <1>6, <2>2, <2>3 DEF QueueInv
<1> QED
  BY <1>7, <1>8 DEF Send

LEMMA QueueStep == LifeInv /\ [Next]_vars => QueueInv'
<1> SUFFICES ASSUME LifeInv, [Next]_vars PROVE QueueInv'
  OBVIOUS
<1>0. LifeTypeOK /\ LifeTypeOK' /\ ConnInv /\ QueueInv
  BY TypeStep DEF LifeInv
<1>00. /\ actions \in Seq(Jobs)
       /\ current \in Jobs \cup {Kline, Notify, Idle}
       /\ connState \in [Conns -> {"new", "queued", "installed"}]
       /\ connState' \in [Conns -> {"new", "queued", "installed"}]
       /\ \A i \in DOMAIN actions : actions[i] \in Jobs
  BY <1>0 DEF LifeTypeOK
<1>1. CASE TakeAction
  <2>1. /\ current' = actions[1] /\ actions # <<>>
        /\ actions' = Tail(actions) /\ connState' = connState
    BY <1>1, <1>00 DEF TakeAction, Busy, connVars
  <2>2. /\ 1 \in DOMAIN actions
        /\ \A i \in DOMAIN actions' : /\ i + 1 \in DOMAIN actions
                                      /\ actions'[i] = actions[i + 1]
                                      /\ i \in Nat /\ i + 1 # 1
    BY <2>1, <1>00
  <2>3. \A i \in DOMAIN actions' :
          actions'[i].kind = "connect" =>
            connState'[actions'[i].who] = "queued" /\ actions'[i] # current'
    BY <1>0, <2>1, <2>2 DEF QueueInv
  <2>4. \A i, j \in DOMAIN actions' :
          actions'[i].kind = "connect" /\ actions'[i] = actions'[j] => i = j
    <3> SUFFICES ASSUME NEW i \in DOMAIN actions', NEW j \in DOMAIN actions',
                        actions'[i].kind = "connect", actions'[i] = actions'[j]
                 PROVE  i = j
      OBVIOUS
    <3>1. i + 1 = j + 1
      BY <1>0, <2>2 DEF QueueInv
    <3> QED
      BY <3>1, <2>2
  <2> QED
    BY <1>0, <2>1, <2>2, <2>3, <2>4 DEF QueueInv
<1>2. CASE InstallConn
  <2>1. /\ current \in Jobs /\ current.kind = "connect" /\ current.who \in Conns
        /\ current = [kind |-> "connect", who |-> current.who]
    BY <1>2, <1>00, Kinds DEF InstallConn, Ready
  <2>2. /\ actions' = actions /\ current' = Idle
        /\ connState' = [connState EXCEPT ![current.who] = "installed"]
    BY <1>2 DEF InstallConn
  <2>3. \A i \in DOMAIN actions :
          actions[i].kind = "connect" =>
            actions[i].who \in Conns /\ actions[i].who # current.who
    <3> SUFFICES ASSUME NEW i \in DOMAIN actions, actions[i].kind = "connect"
                 PROVE  actions[i].who \in Conns /\ actions[i].who # current.who
      OBVIOUS
    <3>1. /\ actions[i].who \in Conns
          /\ actions[i] = [kind |-> "connect", who |-> actions[i].who]
      BY <1>00, Kinds
    <3>2. actions[i] # current
      BY <1>0 DEF QueueInv
    <3> QED
      BY <2>1, <3>1, <3>2
  <2>4. \A i \in DOMAIN actions' :
          actions'[i].kind = "connect" =>
            connState'[actions'[i].who] = "queued" /\ actions'[i] # current'
    BY <1>0, <1>00, <2>2, <2>3, Kinds DEF QueueInv
  <2>5. current'.kind # "connect"
    BY <2>2, Kinds
  <2> QED
    BY <1>0, <2>2, <2>4, <2>5 DEF QueueInv
<1>3. ASSUME NEW k \in Conns, SetConnection(k) PROVE QueueInv'
  <2> DEFINE job == [kind |-> "connect", who |-> k]
  <2>1. job \in Jobs /\ job.kind = "connect" /\ job.who = k
    BY Kinds
  <2>2. /\ Send(job) /\ current' = current /\ connState[k] = "new"
        /\ connState' = [connState EXCEPT ![k] = "queued"]
    BY <1>3 DEF SetConnection, loopVars
  <2> HIDE DEF job
  <2> QED
    BY <1>0, <1>00, <2>1, <2>2, SendKeepsQueue
<1>4. ASSUME NEW job \in Jobs, job.kind # "connect", Send(job), current' = current,
             connState' = connState
      PROVE  QueueInv'
  BY <1>0, <1>00, <1>4, SendKeepsQueue
<1>5. ASSUME NEW c \in Callers, NewAction(c) PROVE QueueInv'
  <2>1. [kind |-> "call", who |-> c] \in Jobs
    BY Kinds
  <2> QED
    BY <1>4, <1>5, <2>1 DEF NewAction, loopVars, connVars
<1>6. ASSUME NEW s \in Subs, Subscribe(s) PROVE QueueInv'
  <2>1. [kind |-> "subscribe", who |-> s] \in Jobs
    BY Kinds
  <2> QED
    BY <1>4, <1>6, <2>1 DEF Subscribe, loopVars, connVars
<1>7. CASE /\ UNCHANGED <<actions, connState>>
           /\ current' = current \/ current' \in {Idle, Kline, Notify}
  <2>1. \A i \in DOMAIN actions :
          actions[i].kind = "connect" => actions[i] # current'
    BY <1>0, <1>7, Kinds DEF QueueInv
  <2>2. current'.kind = "connect" => connState'[current'.who] = "queued"
    BY <1>0, <1>7, Kinds DEF QueueInv
  <2> QED
    BY <1>0, <1>7, <2>1, <2>2 DEF QueueInv
<1> QED
  BY <1>1, <1>2, <1>3, <1>5, <1>6, <1>7, QueueFrame

(* The three causes of a close never go away. *)
LEMMA CauseStays ==
  ASSUME LifeInv, [Next]_vars
  PROVE  (Replaced => Replaced') /\ (Cause => Cause')
<1>0. LifeTypeOK /\ ConnInv /\ QueueInv
  BY DEF LifeInv
<1>1. ASSUME Replaced PROVE Replaced'
  <2>1. PICK k \in connClosed : k # conn[SlotOf[k]]
    BY <1>1 DEF Replaced
  <2>2. k \in Conns /\ connState[k] = "installed"
    BY <1>0 DEF LifeTypeOK, ConnInv
  <2>3. k \in connClosed' /\ k # conn'[SlotOf[k]]
    <3>1. CASE InstallConn
      <4>1. current.who # k
        BY <1>0, <2>2, <3>1 DEF InstallConn, Ready, QueueInv
      <4> QED
        BY <1>0, <2>1, <2>2, <3>1, <4>1, SlotAssumption DEF InstallConn, LifeTypeOK
    <3>2. CASE CloseOrders \/ ClosePrices
      BY <2>1, <3>2 DEF CloseOrders, ClosePrices, CloseStep, CloseConn
    <3>3. CASE UNCHANGED <<conn, connClosed>>
      BY <2>1, <3>3
    <3> QED
      BY <3>1, <3>2, <3>3, ConnFrame DEF SetConnection, WatchClose, connVars
  <2> QED
    BY <2>3 DEF Replaced
<1>2. listener = "over" => listener' = "over"
  <2> USE DEF vars, sideVars, LoopOnly
  <2>1. CASE Loop
    BY <2>1 DEF Loop, FirstState, FirstClosed, ContextDone, Control, TakeAction, DrainEnds,
       TakeNil, ReadKline, EndOfStates, LoopCloses, Serve, FinishKline, FinishCall,
       InstallConn, SetHandler, FinishNotify
  <2>2. CASE Closing
    BY <2>2 DEF Closing, CloseCancels, CloseOrders, ClosePrices, CloseShutdown,
       CloseActions, CloseStep
  <2>3. CASE Users
    BY <2>3 DEF Users, RequestPanics, Request, NewAction, Withdraw, StreamEnds, SetConnection, Subscribe
  <2>4. CASE \/ ListenerStops \/ HistoryEnds
             \/ \E t \in Trackers : TrackerStops(t)
             \/ \E k \in Conns : WatchClose(k)
    BY <2>4 DEF ListenerStops, HistoryEnds, TrackerStops, WatchClose, StatesClosed
  <2> QED
    BY <2>1, <2>2, <2>3, <2>4 DEF Next
<1>3. ended \subseteq ended'
  <2> USE DEF vars, callVars, LoopOnly
  <2>1. CASE Loop
    BY <2>1 DEF Loop, FirstState, FirstClosed, ContextDone, Control, TakeAction, DrainEnds,
       TakeNil, ReadKline, EndOfStates, LoopCloses, Serve, FinishKline, FinishCall,
       InstallConn, SetHandler, FinishNotify
  <2>2. CASE Closing
    BY <2>2 DEF Closing, CloseCancels, CloseOrders, ClosePrices, CloseShutdown,
       CloseActions, CloseStep
  <2>3. CASE Users
    BY <2>3 DEF Users, RequestPanics, Request, NewAction, Withdraw, StreamEnds, SetConnection, Subscribe
  <2>4. CASE \/ ListenerStops \/ HistoryEnds
             \/ \E t \in Trackers : TrackerStops(t)
             \/ \E k \in Conns : WatchClose(k)
    BY <2>4 DEF ListenerStops, HistoryEnds, TrackerStops, WatchClose
  <2> QED
    BY <2>1, <2>2, <2>3, <2>4 DEF Next
<1> QED
  BY <1>1, <1>2, <1>3 DEF Cause

(* The steps that close, return, stop the rows, start to notify or change  *)
(* the connections' slots; the other steps do none of it.                  *)
LEMMA CloseFrame ==
  ASSUME LifeTypeOK, [Next]_vars
  PROVE  \/ LoopCloses \/ FirstClosed \/ ContextDone \/ EndOfStates \/ FinishNotify
         \/ ListenerStops \/ InstallConn \/ TakeNil \/ Closing
         \/ \E k \in Conns : WatchClose(k)
         \/ /\ UNCHANGED <<closing, closer, conn, connClosed, crashed>>
            /\ loop' = loop \/ (loop # "gone" /\ loop' \in {"select", "drain", "busy"})
            /\ listener' = listener \/ listener' \in {"rows", "over"}
            /\ current' = current \/ current'.kind # "notify"
         \/ /\ UNCHANGED <<closing, closer, conn, connClosed, loop, listener, current>>
            /\ crashed' \in {"closedChannel", "request"}
<1> USE DEF vars, loopVars, connVars, closeVars, sideVars, LoopOnly
<1>1. CASE Loop
  <2>1. CASE \/ FirstState \/ Control \/ DrainEnds \/ FinishKline \/ FinishCall \/ SetHandler
             \/ ReadKline \/ \E t \in Trackers : Serve(t)
    BY <2>1, Kinds DEF FirstState, Control, DrainEnds, ReadKline, Busy, Ready, Serve,
       FinishKline, FinishCall, SetHandler
  <2>2. CASE TakeAction
    BY <2>2, Kinds DEF TakeAction, Busy, LifeTypeOK
  <2> QED
    BY <1>1, <2>1, <2>2 DEF Loop
<1>2. CASE Users
  BY <1>2 DEF Users, RequestPanics, Request, NewAction, Withdraw, StreamEnds, SetConnection, Subscribe, Send
<1>3. CASE HistoryEnds \/ \E t \in Trackers : TrackerStops(t)
  BY <1>3 DEF HistoryEnds, TrackerStops
<1> QED
  BY <1>1, <1>2, <1>3 DEF Next

LEMMA CauseStep == LifeInv /\ [Next]_vars => CauseInv'
<1> SUFFICES ASSUME LifeInv, [Next]_vars PROVE CauseInv'
  OBVIOUS
<1>0. /\ LifeTypeOK /\ ConnInv /\ QueueInv /\ CauseInv
      /\ Cause => Cause'
  BY CauseStays DEF LifeInv
<1>1. CtxDone => Cause
  BY <1>0 DEF CtxDone, Cancelled, IsClosed, CauseInv, Cause
<1>2. StatesClosed => Cause
  BY <1>0 DEF StatesClosed, CauseInv, Cause
<1>3. CASE LoopCloses
  BY <1>0, <1>3 DEF LoopCloses, Close, CauseInv, IsClosed, closeVars, connVars, sideVars
<1>4. CASE FirstClosed \/ ContextDone
  BY <1>0, <1>1, <1>2, <1>4
  DEF FirstClosed, ContextDone, LoopOnly, CauseInv, IsClosed, connVars, sideVars, closeVars
<1>5. CASE EndOfStates
  BY <1>0, <1>2, <1>5
  DEF EndOfStates, LoopOnly, Busy, CauseInv, IsClosed, connVars, sideVars, closeVars
<1>6. CASE FinishNotify
  BY <1>0, <1>6, Kinds
  DEF FinishNotify, Ready, CauseInv, IsClosed, connVars, sideVars, closeVars
<1>7. CASE ListenerStops
  BY <1>0, <1>1, <1>7
  DEF ListenerStops, CauseInv, IsClosed, connVars, loopVars, closeVars
<1>8. CASE InstallConn
  <2>1. /\ current.kind = "connect" /\ connState[current.who] = "queued"
        /\ current.who \in Conns
    BY <1>0, <1>8, Kinds DEF InstallConn, Ready, QueueInv, LifeTypeOK
  <2>2. ~IsClosed => \A k \in connClosed' : k # conn'[SlotOf[k]]
    <3> SUFFICES ASSUME ~IsClosed, NEW k \in connClosed' PROVE k # conn'[SlotOf[k]]
      OBVIOUS
    <3>1. /\ SlotOf[current.who] \in Slots /\ conn \in [Slots -> Conns \cup {None}]
          /\ conn' = [conn EXCEPT ![SlotOf[current.who]] = current.who]
      BY <1>0, <1>8, <2>1, SlotAssumption DEF InstallConn, Slot, LifeTypeOK
    <3>2. CASE k \in connClosed
      <4>1. k \in Conns /\ k # current.who /\ k # conn[SlotOf[k]]
        BY <1>0, <2>1, <3>2 DEF ConnInv, CauseInv, LifeTypeOK
      <4> QED
        BY <3>1, <4>1, SlotAssumption
    <3>3. CASE k = conn[SlotOf[current.who]] /\ k # None
      <4>1. k \in Conns /\ SlotOf[k] = SlotOf[current.who] /\ k # current.who
        BY <1>0, <2>1, <3>1, <3>3 DEF ConnInv
      <4> QED
        BY <3>1, <4>1
    <3> QED
      BY <1>8, <3>2, <3>3 DEF InstallConn, Slot
  <2> QED
    BY <1>0, <1>8, <2>2, Kinds DEF InstallConn, CauseInv, IsClosed, sideVars, closeVars
<1>9. CASE TakeNil
  BY <1>0, <1>9 DEF TakeNil, CauseInv, IsClosed, connVars, sideVars, closeVars, loopVars
<1>10. CASE Closing
  <2>1. IsClosed /\ UNCHANGED <<loop, listener, current>> /\ IsClosed'
    BY <1>10 DEF Closing, CloseCancels, CloseOrders, ClosePrices, CloseShutdown,
       CloseActions, CloseStep, IsClosed, loopVars, sideVars
  <2> QED
    BY <1>0, <2>1 DEF CauseInv
<1>11. ASSUME NEW k \in Conns, WatchClose(k) PROVE CauseInv'
  <2>1. IsClosed \/ Replaced
    BY <1>11 , <1>0 DEF WatchClose, ShutdownClosed, IsClosed, CauseInv, Replaced
  <2>2. UNCHANGED <<loop, listener, current, conn, connClosed>>
    BY <1>11 DEF WatchClose, loopVars, sideVars
  <2>3. Cause'
    BY <1>0, <2>1 DEF CauseInv, Cause
  <2>4. IsClosed'
    BY <1>11 DEF WatchClose, Close, IsClosed, closeVars
  <2> QED
    BY <2>3, <2>4 DEF CauseInv
<1>12. CASE /\ UNCHANGED <<closing, closer, conn, connClosed, crashed>>
            /\ loop' = loop \/ (loop # "gone" /\ loop' \in {"select", "drain", "busy"})
            /\ listener' = listener \/ listener' \in {"rows", "over"}
            /\ current' = current \/ current'.kind # "notify"
  BY <1>0, <1>12 DEF CauseInv, IsClosed
<1>13. CASE UNCHANGED <<closing, closer, conn, connClosed, loop, listener, current>>
  BY <1>0, <1>13 DEF CauseInv, IsClosed
<1> QED
  BY <1>0, <1>3, <1>4, <1>5, <1>6, <1>7, <1>8, <1>9, <1>10, <1>11, <1>12, <1>13, CloseFrame

LEMMA CloserStep == LifeInv /\ [Next]_vars => CloserInv'
<1> SUFFICES ASSUME LifeInv, [Next]_vars PROVE CloserInv'
  OBVIOUS
<1>0. /\ LifeTypeOK /\ ConnInv /\ CauseInv /\ CloserInv
      /\ Replaced => Replaced'
  BY CauseStays DEF LifeInv
<1> USE NoneAssumption
<1>1. CASE LoopCloses
  BY <1>0, <1>1 DEF LoopCloses, Close, CloserInv, IsClosed, closeVars
<1>2. CASE \/ FirstClosed \/ ContextDone \/ EndOfStates \/ FinishNotify \/ ListenerStops
           \/ InstallConn
  <2>1. \/ UNCHANGED <<closing, closer, crashed>> /\ loop # "gone"
        \/ UNCHANGED <<closing, closer, crashed, loop>>
    BY <1>2 DEF FirstClosed, ContextDone, EndOfStates, FinishNotify, ListenerStops,
       InstallConn, Ready, LoopOnly, closeVars, loopVars
  <2> QED
    BY <1>0, <2>1 DEF CloserInv, IsClosed
<1>3. CASE TakeNil
  <2>1. IsClosed /\ loop # "gone" /\ UNCHANGED <<closing, closer, loop>>
    BY <1>3 DEF TakeNil, ActionsClosed, IsClosed, closeVars, loopVars
  <2> QED
    BY <1>0, <2>1 DEF CloserInv, IsClosed
<1>4. CASE Closing
  <2>1. IsClosed /\ IsClosed' /\ UNCHANGED <<closer, crashed, loop>>
    BY <1>4 DEF Closing, CloseCancels, CloseOrders, ClosePrices, CloseShutdown,
       CloseActions, CloseStep, IsClosed, loopVars
  <2> QED
    BY <1>0, <2>1 DEF CloserInv
<1>5. ASSUME NEW k \in Conns, WatchClose(k) PROVE CloserInv'
  <2>1. IsClosed \/ Replaced
    BY <1>0, <1>5 DEF WatchClose, ShutdownClosed, IsClosed, CauseInv, Replaced
  <2>2. UNCHANGED <<loop, crashed>> /\ Close("watcher")
    BY <1>5 DEF WatchClose, loopVars
  <2> QED
    BY <1>0, <2>1, <2>2 DEF CloserInv, Close, IsClosed, closeVars
<1>6. CASE /\ UNCHANGED <<closing, closer, conn, connClosed, crashed>>
           /\ loop' = loop \/ (loop # "gone" /\ loop' \in {"select", "drain", "busy"})
  BY <1>0, <1>6 DEF CloserInv, IsClosed
<1>7. CASE UNCHANGED <<closing, closer, loop>> /\ crashed' \in {"closedChannel", "request"}
  BY <1>0, <1>7 DEF CloserInv, IsClosed
<1> QED
  BY <1>0, <1>1, <1>2, <1>3, <1>4, <1>5, <1>6, <1>7, CloseFrame

LEMMA ShutStep == LifeInv /\ [Next]_vars => ShutInv'
<1> SUFFICES ASSUME LifeInv, [Next]_vars PROVE ShutInv'
  OBVIOUS
<1>0. LifeTypeOK /\ CloserInv /\ ShutInv
  BY DEF LifeInv
<1>1. CASE Closing
  BY <1>0, <1>1
  DEF Closing, CloseCancels, CloseOrders, ClosePrices, CloseShutdown, CloseActions,
      CloseStep, CloseConn, ShutInv
<1>2. CASE InstallConn
  <2>1. closer # "loop" /\ closer' = closer
    BY <1>0, <1>2 DEF InstallConn, Ready, CloserInv, closeVars
  <2> QED
    BY <2>1 DEF ShutInv
<1>3. CASE LoopCloses \/ \E k \in Conns : WatchClose(k)
  <2>1. /\ UNCHANGED <<conn, connClosed>>
        /\ UNCHANGED <<closing, closer>> \/ closing' = "cancel"
    BY <1>3 DEF LoopCloses, WatchClose, Close, closeVars, connVars
  <2> QED
    BY <1>0, <2>1 DEF ShutInv
<1>4. CASE FirstClosed \/ ContextDone \/ EndOfStates \/ FinishNotify \/ ListenerStops \/ TakeNil
  <2>1. UNCHANGED <<closing, closer, conn, connClosed>>
    BY <1>4 DEF FirstClosed, ContextDone, EndOfStates, FinishNotify, ListenerStops,
       TakeNil, LoopOnly, closeVars, connVars
  <2> QED
    BY <1>0, <2>1 DEF ShutInv
<1>5. CASE UNCHANGED <<closing, closer, conn, connClosed>>
  BY <1>0, <1>5 DEF ShutInv
<1> QED
  BY <1>0, <1>1, <1>2, <1>3, <1>4, <1>5, CloseFrame

(* The invariant of the lifetime holds in every reachable state. *)
LEMMA LifeInvariant == Spec => []LifeInv
<1>1. LifeInv /\ [Next]_vars => LifeInv'
  BY TypeStep, ConnStep, QueueStep, CauseStep, CloserStep, ShutStep DEF LifeInv
<1> QED
  BY <1>1, InitLife, PTL DEF Spec

(* The client's fields, the queue, the connections and the subscribers     *)
(* have their types in every reachable state.                              *)
THEOREM LifeTypeCorrect == Spec => []LifeTypeOK
<1>1. LifeInv => LifeTypeOK
  BY DEF LifeInv
<1> QED
  BY <1>1, LifeInvariant, PTL

(* Client.Close runs only because the creating stream or the history ended *)
(* or a connection was replaced, for any number of callers, connections    *)
(* and subscribers.                                                        *)
THEOREM ClosesForCause == Spec => []ClosedForCause
<1>1. LifeInv => ClosedForCause
  BY DEF LifeInv, CauseInv, Cause, ClosedForCause
<1> QED
  BY <1>1, LifeInvariant, PTL

(* The exchange goroutine calls a nil action only after a connection was   *)
(* replaced.                                                               *)
THEOREM NoNilActionOtherwise == Spec => []NilActionNeedsReplacement
<1>1. LifeInv => NilActionNeedsReplacement
  BY DEF LifeInv, CloserInv, NilActionNeedsReplacement
<1> QED
  BY <1>1, LifeInvariant, PTL

(* A close by the exchange goroutine leaves none of the client's           *)
(* connections open.                                                       *)
THEOREM NoConnectionLeftOpen == Spec => []LoopClosesAllConns
<1>1. LifeInv => LoopClosesAllConns
  <2> SUFFICES ASSUME LifeInv, ShutdownClosed, closer = "loop",
                      NEW k \in Conns, connState[k] = "installed"
               PROVE  k \in connClosed
    BY DEF LoopClosesAllConns
  <2>1. conn["orders"] \in connClosed \cup {None} /\ conn["prices"] \in connClosed \cup {None}
    BY DEF LifeInv, ShutInv, ShutdownClosed
  <2>2. SlotOf[k] \in {"orders", "prices"}
    BY SlotAssumption DEF Slots
  <2> QED
    BY <2>1, <2>2, NoneAssumption DEF LifeInv, ConnInv
<1> QED
  BY <1>1, LifeInvariant, PTL

------------------------------------------------------------------------------
(* Calls of NewAction: the exchange goroutine holds a job only while it is *)
(* busy, and a caller waits exactly while its action is in the queue, once *)
(* and not at hand as well, or at hand.                                    *)
CallOf(c) == [kind |-> "call", who |-> c]

AtHand == loop # "busy" => current = Idle

HeldOnce(c) ==
  /\ \A i \in DOMAIN actions : actions[i] = CallOf(c) => callers[c] = "waiting" /\ current # CallOf(c)
  /\ \A i, j \in DOMAIN actions : actions[i] = CallOf(c) /\ actions[j] = CallOf(c) => i = j
  /\ current = CallOf(c) => callers[c] = "waiting"
  /\ crashed # "closedChannel" /\ callers[c] = "waiting" =>
       current = CallOf(c) \/ \E i \in DOMAIN actions : actions[i] = CallOf(c)

CallInv == AtHand /\ \A c \in Callers : HeldOnce(c)

LEMMA CallInit == Init => CallInv
  BY DEF Init, CallInv, AtHand, HeldOnce, Idle, CallOf

LEMMA AtHandStep == AtHand /\ [Next]_vars => AtHand'
<1> SUFFICES ASSUME AtHand, [Next]_vars PROVE AtHand'
  OBVIOUS
<1> USE DEF AtHand, vars, loopVars, LoopOnly
<1>1. CASE Loop
  BY <1>1 DEF Loop, FirstState, FirstClosed, ContextDone, Control, TakeAction, DrainEnds,
     TakeNil, ReadKline, EndOfStates, Busy, Ready, LoopCloses, Serve, FinishKline, FinishCall,
     InstallConn, SetHandler, FinishNotify
<1>2. CASE Closing
  BY <1>2 DEF Closing, CloseCancels, CloseOrders, ClosePrices, CloseShutdown, CloseActions,
     CloseStep
<1>3. CASE Users
  BY <1>3 DEF Users, RequestPanics, Request, NewAction, Withdraw, StreamEnds, SetConnection, Subscribe
<1>4. CASE \/ ListenerStops \/ HistoryEnds
           \/ \E t \in Trackers : TrackerStops(t)
           \/ \E k \in Conns : WatchClose(k)
  BY <1>4 DEF ListenerStops, HistoryEnds, TrackerStops, WatchClose
<1> QED
  BY <1>1, <1>2, <1>3, <1>4 DEF Next

(* A step that moves no call and lets nobody begin or stop to wait. *)
Quiet ==
  /\ actions' = actions
  /\ crashed = "closedChannel" => crashed' = "closedChannel"
  /\ \A c \in Callers : /\ callers'[c] = "waiting" <=> callers[c] = "waiting"
                        /\ current' = CallOf(c) <=> current = CallOf(c)

LEMMA NoCall ==
  /\ \A c \in Callers : CallOf(c) \notin {Idle, Kline, Notify} /\ CallOf(c).kind = "call"
  BY DEF CallOf, Idle, Kline, Notify

LEMMA CallFrame ==
  ASSUME LifeTypeOK, AtHand, [Next]_vars
  PROVE  \/ TakeAction \/ FinishCall \/ Quiet
         \/ \E c \in Callers : NewAction(c)
         \/ \E job \in Jobs : /\ job.kind # "call" /\ Send(job)
                              /\ current' = current /\ callers' = callers /\ crashed = "no"
<1> USE NoCall DEF Quiet, vars, loopVars, callVars, LoopOnly
<1>1. CASE crashed = "no" /\ Loop
  <2>1. CASE ReadKline \/ EndOfStates
    BY <2>1, Kinds DEF ReadKline, EndOfStates, Busy, AtHand
  <2>2. CASE FinishKline \/ InstallConn \/ SetHandler \/ FinishNotify
    BY <2>2, Kinds DEF FinishKline, InstallConn, SetHandler, FinishNotify, Ready
  <2>3. CASE TakeNil
    BY <1>1, <2>3 DEF TakeNil
  <2> QED
    BY <1>1, <2>1, <2>2, <2>3 DEF Loop, FirstState, FirstClosed, ContextDone, Control, DrainEnds,
       LoopCloses, Serve
<1>2. CASE Closing
  BY <1>2 DEF Closing, CloseCancels, CloseOrders, ClosePrices, CloseShutdown, CloseActions,
     CloseStep
<1>3. CASE crashed = "no" /\ Users
  <2>1. ASSUME NEW c \in Callers, Request(c) \/ Withdraw(c) \/ StreamEnds(c) PROVE Quiet
    BY <2>1 DEF Request, Withdraw, StreamEnds, LifeTypeOK
  <2>2. ASSUME NEW k \in Conns, SetConnection(k)
        PROVE  \E job \in Jobs : /\ job.kind # "call" /\ Send(job)
                                 /\ current' = current /\ callers' = callers /\ crashed = "no"
    <3>1. [kind |-> "connect", who |-> k] \in Jobs
      BY Kinds
    <3> QED
      BY <1>3, <2>2, <3>1 DEF SetConnection
  <2>3. ASSUME NEW s \in Subs, Subscribe(s)
        PROVE  \E job \in Jobs : /\ job.kind # "call" /\ Send(job)
                                 /\ current' = current /\ callers' = callers /\ crashed = "no"
    <3>1. [kind |-> "subscribe", who |-> s] \in Jobs
      BY Kinds
    <3> QED
      BY <1>3, <2>3, <3>1 DEF Subscribe
  <2>4. CASE RequestPanics
    BY <1>3, <2>4 DEF RequestPanics
  <2> QED
    BY <1>3, <2>1, <2>2, <2>3, <2>4 DEF Users
<1>4. CASE \/ ListenerStops \/ HistoryEnds
           \/ \E t \in Trackers : TrackerStops(t)
           \/ \E k \in Conns : WatchClose(k)
  BY <1>4 DEF ListenerStops, HistoryEnds, TrackerStops, WatchClose
<1>5. CASE UNCHANGED vars
  BY <1>5
<1> QED
  BY <1>1, <1>2, <1>3, <1>4, <1>5 DEF Next

LEMMA CallStep == LifeTypeOK /\ CallInv /\ [Next]_vars => CallInv'
<1> SUFFICES ASSUME LifeTypeOK, CallInv, [Next]_vars PROVE CallInv'
  OBVIOUS
<1>0. AtHand'
  BY AtHandStep DEF CallInv
<1>00. actions \in Seq(Jobs) /\ callers \in [Callers -> {"idle", "checked", "waiting"}]
  BY DEF LifeTypeOK
<1> SUFFICES ASSUME NEW c \in Callers PROVE HeldOnce(c)'
  BY <1>0 DEF CallInv
<1>000. HeldOnce(c)
  BY DEF CallInv
<1>1. CASE TakeAction
  <2>1. /\ current = Idle /\ actions # <<>> /\ actions' = Tail(actions)
        /\ current' = actions[1] /\ callers' = callers /\ crashed' = crashed
    BY <1>1, <1>00 DEF TakeAction, Busy, CallInv, AtHand, callVars
  <2>2. /\ 1 \in DOMAIN actions /\ DOMAIN actions = 1 .. Len(actions) /\ Len(actions) \in Nat
        /\ DOMAIN actions' = 1 .. Len(actions) - 1
        /\ \A i \in DOMAIN actions' : /\ i + 1 \in DOMAIN actions
                                      /\ actions'[i] = actions[i + 1]
                                      /\ i \in Nat /\ i + 1 # 1
        /\ \A i \in DOMAIN actions : i # 1 => i - 1 \in DOMAIN actions' /\ actions'[i - 1] = actions[i]
    BY <2>1, <1>00
  <2>3. ASSUME NEW i \in DOMAIN actions', actions'[i] = CallOf(c)
        PROVE  callers'[c] = "waiting" /\ current' # CallOf(c)
    BY <1>000, <2>1, <2>2, <2>3 DEF HeldOnce
  <2>4. ASSUME NEW i \in DOMAIN actions', NEW j \in DOMAIN actions',
               actions'[i] = CallOf(c), actions'[j] = CallOf(c)
        PROVE  i = j
    <3>1. i + 1 = j + 1
      BY <1>000, <2>2, <2>4 DEF HeldOnce
    <3> QED
      BY <3>1, <2>2
  <2>5. current' = CallOf(c) => callers'[c] = "waiting"
    BY <1>000, <2>1, <2>2 DEF HeldOnce
  <2>6. ASSUME crashed' # "closedChannel", callers'[c] = "waiting"
        PROVE  current' = CallOf(c) \/ \E i \in DOMAIN actions' : actions'[i] = CallOf(c)
    <3>1. PICK i \in DOMAIN actions : actions[i] = CallOf(c)
      BY <1>000, <2>1, <2>6, NoCall DEF HeldOnce
    <3> QED
      BY <2>1, <2>2, <3>1
  <2> QED
    BY <2>3, <2>4, <2>5, <2>6 DEF HeldOnce, CallOf
<1>2. CASE FinishCall
  <2>1. PICK d \in Callers : current = CallOf(d)
    BY <1>2, Kinds DEF FinishCall, Ready, LifeTypeOK, Jobs, CallOf
  <2>2. /\ current' = Idle /\ actions' = actions /\ crashed' = crashed
        /\ callers' = [callers EXCEPT ![d] = "idle"]
    BY <1>2, <2>1 DEF FinishCall, CallOf
  <2>3. CallOf(c) = CallOf(d) => c = d
    BY DEF CallOf
  <2>4. current' # CallOf(c)
    BY <2>2, NoCall
  <2>5. CASE c = d
    <3>1. /\ \A i \in DOMAIN actions' : actions'[i] # CallOf(c)
          /\ callers'[c] # "waiting"
      BY <1>000, <1>00, <2>1, <2>2, <2>5 DEF HeldOnce
    <3> QED
      BY <2>4, <3>1 DEF HeldOnce, CallOf
  <2>6. CASE c # d
    <3>1. callers'[c] = callers[c] /\ current # CallOf(c)
      BY <1>00, <2>1, <2>2, <2>3, <2>6
    <3> QED
      BY <1>000, <2>2, <2>4, <3>1 DEF HeldOnce, CallOf
  <2> QED
    BY <2>5, <2>6
<1>3. CASE Quiet
  <2>1. /\ actions' = actions
        /\ crashed = "closedChannel" => crashed' = "closedChannel"
        /\ callers'[c] = "waiting" <=> callers[c] = "waiting"
        /\ current' = CallOf(c) <=> current = CallOf(c)
    BY <1>3 DEF Quiet
  <2>2. /\ \A i \in DOMAIN actions' :
             actions'[i] = CallOf(c) => callers'[c] = "waiting" /\ current' # CallOf(c)
        /\ current' = CallOf(c) => callers'[c] = "waiting"
    BY <1>000, <2>1 DEF HeldOnce
  <2>3. \A i, j \in DOMAIN actions' : actions'[i] = CallOf(c) /\ actions'[j] = CallOf(c) => i = j
    BY <1>000, <2>1 DEF HeldOnce
  <2>4. crashed' # "closedChannel" /\ callers'[c] = "waiting" =>
          current' = CallOf(c) \/ \E i \in DOMAIN actions' : actions'[i] = CallOf(c)
    BY <1>000, <2>1 DEF HeldOnce
  <2> QED
    BY <2>2, <2>3, <2>4 DEF HeldOnce, CallOf
<1>4. ASSUME NEW job \in Jobs, Send(job), current' = current,
             job = CallOf(c) => callers[c] # "waiting",
             callers'[c] = "waiting" <=> callers[c] = "waiting" \/ job = CallOf(c),
             crashed = "no" \/ crashed = crashed'
      PROVE  HeldOnce(c)'
  <2>1. CASE actions' = actions /\ crashed' = "closedChannel"
    BY <1>000, <1>4, <2>1 DEF HeldOnce, CallOf
  <2>2. CASE actions' = Append(actions, job) /\ crashed' = crashed
    <3>1. /\ DOMAIN actions = 1 .. Len(actions) /\ Len(actions) \in Nat
          /\ DOMAIN actions' = 1 .. Len(actions) + 1
          /\ \A i \in 1 .. Len(actions) : actions'[i] = actions[i]
          /\ actions'[Len(actions) + 1] = job
      BY <1>00, <2>2
    <3>2. /\ job = CallOf(c) => \A i \in DOMAIN actions : actions[i] # CallOf(c)
          /\ job = CallOf(c) => current # CallOf(c)
      BY <1>000, <1>4 DEF HeldOnce
    <3>3. ASSUME NEW i \in DOMAIN actions', actions'[i] = CallOf(c)
          PROVE  callers'[c] = "waiting" /\ current' # CallOf(c)
      BY <1>000, <1>4, <3>1, <3>2, <3>3 DEF HeldOnce
    <3>4. ASSUME NEW i \in DOMAIN actions', NEW j \in DOMAIN actions',
                 actions'[i] = CallOf(c), actions'[j] = CallOf(c)
          PROVE  i = j
      BY <1>000, <3>1, <3>2, <3>4 DEF HeldOnce
    <3>5. current' = CallOf(c) => callers'[c] = "waiting"
      BY <1>000, <1>4 DEF HeldOnce
    <3>6. ASSUME crashed' # "closedChannel", callers'[c] = "waiting"
          PROVE  current' = CallOf(c) \/ \E i \in DOMAIN actions' : actions'[i] = CallOf(c)
      BY <1>000, <1>4, <2>2, <3>1, <3>6 DEF HeldOnce
    <3> QED
      BY <3>3, <3>4, <3>5, <3>6 DEF HeldOnce, CallOf
  <2> QED
    BY <1>4, <2>1, <2>2 DEF Send
<1>5. ASSUME NEW d \in Callers, NewAction(d) PROVE HeldOnce(c)'
  <2>1. CallOf(d) \in Jobs /\ (CallOf(d) = CallOf(c) => c = d)
    BY Kinds DEF CallOf
  <2>2. /\ callers[d] = "checked" /\ Send(CallOf(d)) /\ current' = current
        /\ callers' = [callers EXCEPT ![d] = "waiting"]
    BY <1>5 DEF NewAction, CallOf, loopVars
  <2>3. crashed = "no" \/ crashed = crashed'
    BY DEF Next, vars
  <2>4. /\ CallOf(d) = CallOf(c) => callers[c] # "waiting"
        /\ callers'[c] = "waiting" <=> callers[c] = "waiting" \/ CallOf(d) = CallOf(c)
    BY <1>00, <2>1, <2>2
  <2> QED
    BY <1>4, <2>1, <2>2, <2>3, <2>4
<1>6. ASSUME NEW job \in Jobs, job.kind # "call", Send(job),
             current' = current, callers' = callers, crashed = "no"
      PROVE  HeldOnce(c)'
  <2>1. job # CallOf(c)
    BY <1>6, NoCall
  <2> QED
    BY <1>4, <1>6, <2>1
<1> QED
  BY <1>1, <1>2, <1>3, <1>5, <1>6, CallFrame DEF CallInv

(* A NewAction that waits has its action exactly once, in the queue or in  *)
(* the hands of the exchange goroutine, for any number of streams,         *)
(* connections and subscribers that send at the same time.                 *)
THEOREM CallsHeldOnce == Spec => []CallHeldOnce
<1>1. LifeTypeOK /\ CallInv /\ [Next]_vars => CallInv'
  BY CallStep
<1>2. LifeTypeOK /\ CallInv => CallHeldOnce
  <2> SUFFICES ASSUME LifeTypeOK, CallInv, crashed # "closedChannel", NEW c \in Callers
               PROVE  IF callers[c] = "waiting" THEN \E i \in CallPlaces(c) : CallPlaces(c) = {i}
                                                ELSE CallPlaces(c) = {}
    BY DEF CallHeldOnce
  <2>1. HeldOnce(c)
    BY DEF CallInv
  <2>2. /\ DOMAIN actions = 1 .. Len(actions)
    BY DEF LifeTypeOK
  <2>3. CallPlaces(c) = {i \in DOMAIN actions : actions[i] = CallOf(c)}
                          \cup (IF current = CallOf(c) THEN {0} ELSE {})
    BY DEF CallPlaces, CallOf
  <2>4. CASE callers[c] # "waiting"
    <3>1. current # CallOf(c) /\ \A i \in DOMAIN actions : actions[i] # CallOf(c)
      BY <2>1, <2>4 DEF HeldOnce
    <3> QED
      BY <2>3, <2>4, <3>1
  <2>5. CASE callers[c] = "waiting" /\ current = CallOf(c)
    <3>1. \A i \in DOMAIN actions : actions[i] # CallOf(c)
      BY <2>1, <2>5 DEF HeldOnce
    <3>2. CallPlaces(c) = {0}
      BY <2>3, <2>5, <3>1
    <3> QED
      BY <2>5, <3>2
  <2>6. CASE callers[c] = "waiting" /\ current # CallOf(c)
    <3>1. PICK i \in DOMAIN actions : actions[i] = CallOf(c)
      BY <2>1, <2>6 DEF HeldOnce
    <3>2. \A j \in DOMAIN actions : actions[j] = CallOf(c) => j = i
      BY <2>1, <3>1 DEF HeldOnce
    <3>3. CallPlaces(c) = {i}
      BY <2>3, <2>6, <3>1, <3>2
    <3> QED
      BY <2>6, <3>3
  <2> QED
    BY <2>4, <2>5, <2>6
<1> QED
  BY <1>1, <1>2, CallInit, LifeTypeCorrect, PTL DEF Spec
------------------------------------------------------------------------------
(* The refinement of ClientLife. *)

(* What a step can do to the three variables that make up Life. *)
Calm == crashed' = crashed /\ closing' = closing /\ ended \subseteq ended'
Panics == crashed' \in {"nilAction", "closedChannel", "request"}
Begins == crashed' = crashed /\ closing = "no" /\ closing' = "cancel" /\ ended' = ended
Goes ==
  /\ crashed' = crashed
  /\ \/ closing = "cancel" /\ closing' = "orders"
     \/ closing = "orders" /\ closing' = "prices"
     \/ closing = "prices" /\ closing' = "shutdown"
     \/ closing = "shutdown" /\ closing' = "actions"
     \/ closing = "actions" /\ closing' = "done"

LEMMA LifeMoves ==
  ASSUME Next
  PROVE  crashed = "no" /\ (Calm \/ Panics \/ Begins \/ Goes)
<1> USE DEF LoopOnly, closeVars, callVars
<1>1. ASSUME FirstState \/ FirstClosed \/ ContextDone \/ Control \/ TakeAction \/ DrainEnds
      PROVE  Calm
  BY <1>1 DEF Calm, FirstState, FirstClosed, ContextDone, Control, TakeAction, DrainEnds
<1>2. ASSUME TakeNil PROVE Panics
  BY <1>2 DEF TakeNil, Panics
<1>3. ASSUME ReadKline \/ EndOfStates \/ \E t \in Trackers : Serve(t) PROVE Calm
  BY <1>3 DEF Calm, ReadKline, EndOfStates, Serve
<1>4. ASSUME FinishKline \/ FinishCall \/ InstallConn \/ SetHandler \/ FinishNotify PROVE Calm
  BY <1>4 DEF Calm, FinishKline, FinishCall, InstallConn, SetHandler, FinishNotify
<1>5. ASSUME LoopCloses \/ \E k \in Conns : WatchClose(k) PROVE Calm \/ Begins
  BY <1>5 DEF LoopCloses, WatchClose, Close, IsClosed, Calm, Begins
<1>6. ASSUME Closing PROVE Goes
  BY <1>6 DEF Closing, CloseCancels, CloseOrders, ClosePrices, CloseShutdown, CloseActions,
       CloseStep, Goes
<1>7. ASSUME Users PROVE Calm \/ Panics
  BY <1>7 DEF Users, RequestPanics, Request, NewAction, Withdraw, StreamEnds, SetConnection, Subscribe, Send,
       Calm, Panics
<1>8. ASSUME ListenerStops \/ HistoryEnds \/ \E t \in Trackers : TrackerStops(t) PROVE Calm
  BY <1>8 DEF ListenerStops, HistoryEnds, TrackerStops, Calm
<1> QED
  BY <1>1, <1>2, <1>3, <1>4, <1>5, <1>6, <1>7, <1>8 DEF Next, Loop

LEMMA LifeMaps ==
  ASSUME LifeTypeOK, [Next]_vars
  PROVE  CL!LifeStep
<1> USE DEF CL!LifeStep, CL!LifeNext, CL!Step
<1>1. CASE UNCHANGED vars
  BY <1>1 DEF Life, vars, closeVars, callVars
<1>2. CASE Next /\ Calm
  BY <1>2 DEF Life, Calm, CL!Cancel
<1>3. CASE Next /\ Panics
  <2>1. Life' = "dead"
    BY <1>3 DEF Life, Panics
  <2>2. Life \in {"open", "cancelled", "closed", "shut", "finished"}
    BY <1>3, LifeMoves DEF Life, LifeTypeOK
  <2> QED
    BY <2>1, <2>2 DEF CL!Die
<1>4. CASE Next /\ Begins
  <2>1. Life' = "closed" /\ Life \in {"open", "cancelled"}
    BY <1>4, LifeMoves DEF Life, Begins
  <2> QED
    BY <2>1 DEF CL!Close
<1>5. CASE Next /\ Goes
  <2>1. \/ Life' = Life
        \/ Life = "closed" /\ Life' = "shut"
        \/ Life = "shut" /\ Life' = "finished"
    BY <1>5, LifeMoves DEF Life, Goes
  <2> QED
    BY <2>1 DEF CL!Announce, CL!Finish
<1> QED
  BY <1>1, <1>2, <1>3, <1>4, <1>5, LifeMoves

(* The client implements ClientLife: its initial state maps to an open     *)
(* client, and every step of any of its goroutines to a step of the life   *)
(* or to none.                                                             *)
THEOREM LifecycleImplementsLife == Spec => ImplementsLife
<1>1. Init => CL!LifeInit
  BY DEF Init, CL!LifeInit, Life
<1>2. LifeTypeOK /\ [Next]_vars => [CL!LifeNext]_Life
  BY LifeMaps DEF CL!LifeStep
<1> QED
  BY <1>1, <1>2, LifeTypeCorrect, PTL DEF Spec, ImplementsLife, CL!LifeSpec
=============================================================================
