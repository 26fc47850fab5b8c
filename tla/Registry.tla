------------------------------ MODULE Registry ------------------------------
(***************************************************************************)
(* The registry of clients (internal/app/app.go) and the goroutines that   *)
(* use it: the gRPC streams (internal/server/server.go) and the App's loop *)
(* over the new websocket connections.                                     *)
(*                                                                         *)
(* GetOrCreateClient looks a user up, and when nothing is found creates a  *)
(* client, stores it and announces its shutdown channel, in steps that     *)
(* interleave with other callers of it and with the shutdown handler.  The *)
(* handler collects the announcements and on every tick deletes the users  *)
(* whose client has shut down.                                             *)
(*                                                                         *)
(* Of a client's own life only the progress of its Close is left, in the   *)
(* order that ClientLife promises and Lifecycle implements: its context is *)
(* done, it is closed, its shutdown channel is closed, its actions are     *)
(* closed.  The App's own context, which ends with the process, never does *)
(* here.                                                                   *)
(***************************************************************************)
EXTENDS SequencesExt

CONSTANTS
  Users,
  Streams,     \* the gRPC streams
  App,         \* the App's loop
  ClientIds,   \* bound: the clients that can be created in a behaviour
  ShutdownCap, \* capacity of App.shutdown
  None

Creators == Streams \cup {App}

ASSUME AppAssumption == App \notin Streams
ASSUME NoClientAssumption == None \notin ClientIds \cup Users
ASSUME ShutdownCapAssumption == ShutdownCap \in Nat \ {0}

VARIABLES
  clients,  \* App.clients
  life,     \* how far each client's Close has got
  userOf,   \* the user a client was created for
  parent,   \* the creator whose context the client's context derives from
  pc,       \* where a creator is
  wants,    \* the user it asked for
  using,    \* the client it got
  gone,     \* streams whose context is done while they still run
  shutdowns,\* App.shutdown: announced clients
  handlers, \* the list of the shutdown handler
  at,       \* the next index of its sweep; 0 outside of a sweep
  raced,    \* history: users looked up in vain by two creators at once
  crashed   \* the process has panicked

clientVars == <<life, userOf, parent>>
creatorVars == <<pc, wants, using, gone>>
handlerVars == <<shutdowns, handlers, at>>
vars == <<clients, clientVars, creatorVars, handlerVars, raced, crashed>>

Init ==
  /\ clients = [u \in Users |-> None]
  /\ life = [c \in ClientIds |-> "none"]
  /\ userOf = [c \in ClientIds |-> None]
  /\ parent = [c \in ClientIds |-> None]
  /\ pc = [g \in Creators |-> "idle"]
  /\ wants = [g \in Creators |-> None]
  /\ using = [g \in Creators |-> None]
  /\ gone = {}
  /\ shutdowns = <<>> /\ handlers = <<>> /\ at = 0
  /\ raced = {} /\ crashed = FALSE

IsClosed(c) == life[c] \in {"closed", "shut", "finished"}
(* Mutant of IsShut: the handler watches the client's context instead. *)
IsShutByContext(c) == life[c] \notin {"none", "open"}

IsShut(c) == life[c] \in {"shut", "finished"}
IsLive(c) == life[c] \in {"open", "cancelled"}

(* Creators of u between their lookup and their store. *)
Pending(u) == {g \in Creators : pc[g] \in {"missed", "made"} /\ wants[g] = u}

------------------------------------------------------------------------------
(* GetOrCreateClient, called by StartExchange and by the App's loop. *)

(* Bound of the misses: every one of them will make a client. *)
CanMake ==
  Cardinality({g \in Creators : pc[g] = "missed"})
    < Cardinality({c \in ClientIds : life[c] = "none"})

Found(g, u) ==
  /\ pc[g] = "idle" /\ clients[u] # None
  /\ pc' = [pc EXCEPT ![g] = "serving"]
  /\ wants' = [wants EXCEPT ![g] = u]
  /\ using' = [using EXCEPT ![g] = clients[u]]
  /\ UNCHANGED <<clients, clientVars, gone, handlerVars, raced, crashed>>

Missed(g, u) ==
  /\ pc[g] = "idle" /\ clients[u] = None /\ CanMake
  /\ pc' = [pc EXCEPT ![g] = "missed"]
  /\ wants' = [wants EXCEPT ![g] = u]
  /\ raced' = IF Pending(u) = {} THEN raced ELSE raced \cup {u}
  /\ UNCHANGED <<clients, clientVars, using, gone, handlerVars, crashed>>

(* exchange.New: the client lives under the context of its creator. *)
NewClient(g, c) ==
  /\ pc[g] = "missed" /\ life[c] = "none"
  /\ life' = [life EXCEPT ![c] = IF g \in gone THEN "cancelled" ELSE "open"]
  /\ userOf' = [userOf EXCEPT ![c] = wants[g]]
  /\ parent' = [parent EXCEPT ![c] = g]
  /\ pc' = [pc EXCEPT ![g] = "made"]
  /\ using' = [using EXCEPT ![g] = c]
  /\ UNCHANGED <<clients, wants, gone, handlerVars, raced, crashed>>

Store(g) ==
  /\ pc[g] = "made"
  /\ clients' = [clients EXCEPT ![wants[g]] = using[g]]
  /\ pc' = [pc EXCEPT ![g] = "stored"]
  /\ UNCHANGED <<clientVars, wants, using, gone, handlerVars, raced, crashed>>

(* Mutant of Announce: a send that gives up when the channel is full. *)
AnnounceOrDrop(g) ==
  /\ pc[g] = "stored"
  /\ shutdowns' = IF Len(shutdowns) < ShutdownCap THEN Append(shutdowns, using[g]) ELSE shutdowns
  /\ pc' = [pc EXCEPT ![g] = "serving"]
  /\ UNCHANGED <<clients, clientVars, wants, using, gone, handlers, at, raced, crashed>>

(* Mutant of Announce: a handler that takes no client while it has one. *)
AnnounceAlone(g) ==
  /\ pc[g] = "stored" /\ shutdowns = <<>> /\ handlers = <<>>
  /\ shutdowns' = <<using[g]>>
  /\ pc' = [pc EXCEPT ![g] = "serving"]
  /\ UNCHANGED <<clients, clientVars, wants, using, gone, handlers, at, raced, crashed>>

Announce(g) ==
  /\ pc[g] = "stored" /\ Len(shutdowns) < ShutdownCap
  /\ shutdowns' = Append(shutdowns, using[g])
  /\ pc' = [pc EXCEPT ![g] = "serving"]
  /\ UNCHANGED <<clients, clientVars, wants, using, gone, handlers, at, raced, crashed>>

------------------------------------------------------------------------------
(* The gRPC streams and the App's loop. *)

(* The end of g's context ends the contexts derived from it. *)
CancelChildren(g) ==
  life' = [c \in ClientIds |->
             IF parent[c] = g /\ life[c] = "open" THEN "cancelled" ELSE life[c]]

Disconnect(g) ==
  /\ pc[g] # "idle" /\ g \notin gone
  /\ gone' = gone \cup {g}
  /\ CancelChildren(g)
  /\ UNCHANGED <<clients, userOf, parent, pc, wants, using, handlerVars, raced, crashed>>

Leave(g) ==
  /\ pc[g] = "serving"
  /\ pc' = [pc EXCEPT ![g] = "idle"]
  /\ wants' = [wants EXCEPT ![g] = None]
  /\ using' = [using EXCEPT ![g] = None]

(* StartExchange returns: the stream broke or was closed by its client, or *)
(* a request found the exchange client closed.                             *)
Return(g) ==
  /\ Leave(g)
  /\ gone' = gone \ {g}
  /\ CancelChildren(g)
  /\ UNCHANGED <<clients, userOf, parent, handlerVars, raced, crashed>>

(* SetOrdersConnection, SetPricesConnection: the send on the actions       *)
(* panics when they are closed.                                            *)
Deliver ==
  /\ Leave(App)
  /\ crashed' = (life[using[App]] = "finished")
  /\ UNCHANGED <<clients, clientVars, gone, handlerVars, raced>>

------------------------------------------------------------------------------
(* The clients close: because of their context, the end of the history or  *)
(* a replaced connection.                                                  *)
CloseStep(c, from, to) ==
  /\ life[c] \in from
  /\ life' = [life EXCEPT ![c] = to]
  /\ UNCHANGED <<clients, userOf, parent, creatorVars, handlerVars, raced, crashed>>

Close(c) == CloseStep(c, {"open", "cancelled"}, "closed")
CloseShutdown(c) == CloseStep(c, {"closed"}, "shut")
CloseActions(c) == CloseStep(c, {"shut"}, "finished")

------------------------------------------------------------------------------
(* startShutdownHandler. *)

(* Mutant of Receive: the list is replaced, not appended to. *)
ReceiveForgets ==
  /\ at = 0 /\ shutdowns # <<>>
  /\ handlers' = <<Head(shutdowns)>>
  /\ shutdowns' = Tail(shutdowns)
  /\ UNCHANGED <<clients, clientVars, creatorVars, at, raced, crashed>>

Receive ==
  /\ at = 0 /\ shutdowns # <<>>
  /\ handlers' = Append(handlers, Head(shutdowns))
  /\ shutdowns' = Tail(shutdowns)
  /\ UNCHANGED <<clients, clientVars, creatorVars, at, raced, crashed>>

Tick ==
  /\ at = 0
  /\ at' = Len(handlers)
  /\ UNCHANGED <<clients, clientVars, creatorVars, shutdowns, handlers, raced, crashed>>

(* Mutant of Sweep: a client that was deleted stays in the list. *)
SweepKeeps ==
  /\ at > 0
  /\ at' = at - 1
  /\ clients' = IF IsShut(handlers[at])
                  THEN [clients EXCEPT ![userOf[handlers[at]]] = None]
                  ELSE clients
  /\ UNCHANGED <<handlers, clientVars, creatorVars, shutdowns, raced, crashed>>

(* One round of the sweep, which runs from the end of the list. *)
Sweep ==
  /\ at > 0
  /\ at' = at - 1
  /\ LET c == handlers[at]
     IN  IF IsShut(c)
           THEN /\ clients' = [clients EXCEPT ![userOf[c]] = None]
                /\ handlers' = RemoveAt(handlers, at)
           ELSE UNCHANGED <<clients, handlers>>
  /\ UNCHANGED <<clientVars, creatorVars, shutdowns, raced, crashed>>

------------------------------------------------------------------------------
Create(g) ==
  \/ \E u \in Users : Found(g, u) \/ Missed(g, u)
  \/ \E c \in ClientIds : NewClient(g, c)
  \/ Store(g) \/ Announce(g)

Next ==
  /\ ~crashed
  /\ \/ \E g \in Creators : Create(g)
     \/ \E g \in Streams : Disconnect(g) \/ Return(g)
     \/ Deliver
     \/ \E c \in ClientIds : Close(c) \/ CloseShutdown(c) \/ CloseActions(c)
     \/ Receive \/ Tick \/ Sweep

Spec == Init /\ [][Next]_vars

(* Fairness.  Goroutines that can go on do, and the handler's select takes *)
(* the announcements and the ticks, both ready again and again.  Streams   *)
(* and connections come as they like, and a client whose context is done   *)
(* may never close (Lifecycle): no fairness of Close itself.               *)
Runs(A) == ~crashed /\ A

Fairness ==
  /\ \A g \in Creators :
       WF_vars(Runs((\E c \in ClientIds : NewClient(g, c)) \/ Store(g)))
  /\ \A g \in Creators : SF_vars(Runs(Announce(g)))
  /\ \A c \in ClientIds : WF_vars(Runs(CloseShutdown(c) \/ CloseActions(c)))
  /\ SF_vars(Runs(Receive))
  /\ SF_vars(Runs(Tick))
  /\ WF_vars(Runs(Sweep))

FairSpec == Spec /\ Fairness

------------------------------------------------------------------------------
(* Types of the registry's state. *)
RegTypeOK ==
  /\ clients \in [Users -> ClientIds \cup {None}]
  /\ life \in [ClientIds -> {"none", "open", "cancelled", "closed", "shut", "finished"}]
  /\ userOf \in [ClientIds -> Users \cup {None}]
  /\ parent \in [ClientIds -> Creators \cup {None}]
  /\ pc \in [Creators -> {"idle", "missed", "made", "stored", "serving"}]
  /\ wants \in [Creators -> Users \cup {None}]
  /\ using \in [Creators -> ClientIds \cup {None}]
  /\ gone \subseteq Streams
  /\ shutdowns \in Seq(ClientIds) /\ Len(shutdowns) <= ShutdownCap
  /\ handlers \in Seq(ClientIds)
  /\ at \in 0 .. Len(handlers)
  /\ raced \subseteq Users
  /\ crashed \in BOOLEAN

(* The shutdown of c is on its way to the handler, or the handler has it. *)
Tracked(c) ==
  \/ Contains(handlers, c)
  \/ Contains(shutdowns, c)
  \/ \E g \in Creators : pc[g] = "stored" /\ using[g] = c

(* A client in the map is one whose shutdown will be swept: no user is     *)
(* stuck with a client that nobody watches, raced or not.                  *)
RegisteredIsTracked == \A u \in Users : clients[u] # None => Tracked(clients[u])

(* A user has one client that is not closed, unless two creators looked    *)
(* the user up at the same time.                                           *)
OneLiveClient ==
  \A c, d \in ClientIds :
    IsLive(c) /\ IsLive(d) /\ userOf[c] = userOf[d] /\ userOf[c] \notin raced => c = d

(* A client that is not closed stays in the map: the sweep, which deletes  *)
(* by user, only takes a live client's entry from a user who was raced.    *)
LiveIsRegistered ==
  \A c \in ClientIds :
    /\ IsLive(c) /\ userOf[c] \notin raced
    /\ \A g \in Creators : pc[g] = "made" => using[g] # c
    => clients[userOf[c]] = c

(* A client that was closed leaves the map, so that its user gets another. *)
ClosedLeaves ==
  \A c \in ClientIds :
    life[c] = "closed" ~> crashed \/ (life[c] = "finished" /\ \A u \in Users : clients[u] # c)

(* A creator that found nothing gets its client, however many shutdowns    *)
(* wait for the handler.                                                   *)
CreatorsGoOn ==
  \A g \in Creators : pc[g] = "missed" ~> crashed \/ pc[g] = "serving"
=============================================================================
