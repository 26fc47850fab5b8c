------------------------------- MODULE Sockets -------------------------------
(***************************************************************************)
(* The process around the clients: its start and end (cmd/cmd_serve.go),   *)
(* the two websocket servers (internal/ws), one for the connections that   *)
(* get order updates and one for those that get prices, and the App's loop *)
(* that hands each new connection to its user's client                     *)
(* (internal/app/app.go).                                                  *)
(*                                                                         *)
(* The websocket library calls OpenConn, OnData and CloseConn: the data of *)
(* one connection one after the other, different connections and the end   *)
(* of a connection at any time.  A connection is known by the user that    *)
(* its first valid message names; the others are answered with an error    *)
(* and change nothing.                                                     *)
(*                                                                         *)
(* How a client is found or created is in Registry, how it installs its    *)
(* connections and closes in Lifecycle.  Here the App finds a client and   *)
(* sends the connection to it in two steps, the client installs what it    *)
(* gets at once, and closes when it likes.  The panics of the clients and  *)
(* of the history are in Exchange, Lifecycle and History.                  *)
(***************************************************************************)
EXTENDS Sequences, Integers

CONSTANTS
  Users,
  Conns,      \* websocket connections
  ServerOf,   \* the server that a connection is opened at
  UsersCap,   \* capacity of Server.users: 1024
  None

Servers == {"orders", "prices"}

(* What serve does before the servers accept: each step can fail. *)
BootSteps == <<"config", "upgrader", "app", "server", "notification",
               "listenOrders", "listenPrices", "listenGrpc", "listenNotification">>

ASSUME ServerAssumption == ServerOf \in [Conns -> Servers]
ASSUME CapAssumption == UsersCap \in Nat \ {0}
ASSUME NoneAssumption == None \notin Users \cup Conns

Phases == {"boot", "up", "exit", "crashed"}

VARIABLES
  booted,    \* the steps of serve that succeeded
  phase,     \* one of Phases; the goroutines run while "up"
  ctxDone,   \* the process was told to stop
  appLoop,   \* App.Start runs
  served,    \* the servers whose Serve has not returned
  link,      \* a connection's network side: "new", "open", "gone"
  init,      \* the connection's value "init"
  user,      \* the connection's value "user"
  pc,        \* where its OnData is: "idle", "set" or "send"
  mute,      \* connections whose first answer could not be written
  conns,     \* Server.conns: user to connection
  users,     \* Server.users
  hand,      \* the connection whose client the App found and did not send to yet
  stale,     \* that client is closed
  taken,     \* connections that the App handed over
  field,     \* the client's orderConn and priceConn
  ended,     \* users whose client closed and is still registered
  closed,    \* connections whose UserConn is closed
  failed,    \* history: what stopped to serve, one of Servers or "pprof"
  mixed      \* history: users who registered two connections at once

procVars == <<booted, phase, ctxDone, appLoop, served>>
connVars == <<link, init, user, pc, mute>>
clientVars == <<hand, stale, taken, field, ended, closed>>
history == <<failed, mixed>>
vars == <<procVars, connVars, conns, users, clientVars, history>>

Init ==
  /\ booted = 0 /\ phase = "boot" /\ ctxDone = FALSE /\ appLoop = FALSE
  /\ served = {}
  /\ link = [k \in Conns |-> "new"]
  /\ init = [k \in Conns |-> FALSE]
  /\ user = [k \in Conns |-> None]
  /\ pc = [k \in Conns |-> "idle"]
  /\ mute = {}
  /\ conns = [s \in Servers |-> [u \in Users |-> None]]
  /\ users = [s \in Servers |-> <<>>]
  /\ hand = None /\ stale = FALSE
  /\ taken = {} /\ ended = {} /\ closed = {}
  /\ field = [s \in Servers |-> [u \in Users |-> None]]
  /\ failed = {} /\ mixed = {}

------------------------------------------------------------------------------
(* The process. *)
Boot ==
  /\ phase = "boot" /\ booted < Len(BootSteps)
  /\ booted' = booted + 1
  /\ UNCHANGED <<phase, ctxDone, appLoop, served, connVars, conns, users, clientVars, history>>

BootFails ==
  /\ phase = "boot" /\ booted < Len(BootSteps)
  /\ phase' = "exit"
  /\ UNCHANGED <<booted, ctxDone, appLoop, served, connVars, conns, users, clientVars, history>>

(* The goroutines of the servers and of the App are started and, at once,  *)
(* the upgrader is told that the process is ready: when that fails, serve  *)
(* returns.                                                                *)
Serve ==
  /\ phase = "boot" /\ booted = Len(BootSteps)
  /\ phase' \in {"up", "exit"}
  /\ served' = Servers /\ appLoop' = TRUE
  /\ UNCHANGED <<booted, ctxDone, connVars, conns, users, clientVars, history>>

(* Mutant of Signal: the servers are stopped, too. *)
SignalStopsServers ==
  /\ phase \in {"boot", "up"} /\ ~ctxDone
  /\ ctxDone' = TRUE
  /\ served' = {}
  /\ UNCHANGED <<booted, phase, appLoop, connVars, conns, users, clientVars, history>>

(* SIGINT, SIGTERM and SIGHUP end the context, and nothing else. *)
Signal ==
  /\ phase \in {"boot", "up"} /\ ~ctxDone
  /\ ctxDone' = TRUE
  /\ UNCHANGED <<booted, phase, appLoop, served, connVars, conns, users, clientVars, history>>

AppStops ==
  /\ phase = "up" /\ ctxDone /\ appLoop /\ hand = None
  /\ appLoop' = FALSE
  /\ UNCHANGED <<booted, phase, ctxDone, served, connVars, conns, users, clientVars, history>>

(* The upgrader's exit: serve and main return, and no goroutine is waited  *)
(* for.                                                                    *)
Exit ==
  /\ phase = "up" /\ ctxDone
  /\ phase' = "exit"
  /\ UNCHANGED <<booted, ctxDone, appLoop, served, connVars, conns, users, clientVars, history>>

(* A server cannot accept any more: its goroutine closes the users. *)
ServeReturns(s) ==
  /\ phase = "up" /\ s \in served
  /\ served' = served \ {s}
  /\ failed' = failed \cup {s}
  /\ UNCHANGED <<booted, phase, ctxDone, appLoop, connVars, conns, users, clientVars, mixed>>

UsersClosed(s) == s \notin served

Crash == phase' = "crashed" /\ UNCHANGED <<booted, ctxDone, appLoop, served>>

(* main's profiling server cannot listen, or stops. *)
PprofPanics ==
  /\ phase \in {"boot", "up"}
  /\ failed' = failed \cup {"pprof"}
  /\ Crash
  /\ UNCHANGED <<connVars, conns, users, clientVars, mixed>>

------------------------------------------------------------------------------
(* The handlers of the websocket servers. *)
OpenConn(k) ==
  /\ phase = "up" /\ link[k] = "new" /\ ServerOf[k] \in served
  /\ link' = [link EXCEPT ![k] = "open"]
  /\ UNCHANGED <<procVars, init, user, pc, mute, conns, users, clientVars, history>>

(* Mutant of Fresh: init is not looked at. *)
FreshAlways(k) == TRUE

(* The first message that names a user counts, others are refused. *)
Fresh(k) == ~init[k]

(* OnData of a message that names a user: the values are set, then the     *)
(* answer is written.                                                      *)
OnData(k, u) ==
  /\ phase = "up" /\ link[k] = "open" /\ pc[k] = "idle" /\ Fresh(k)
  /\ init' = [init EXCEPT ![k] = TRUE]
  /\ user' = [user EXCEPT ![k] = u]
  /\ \/ pc' = [pc EXCEPT ![k] = "set"] /\ UNCHANGED mute
     \/ mute' = mute \cup {k} /\ UNCHANGED pc
  /\ UNCHANGED <<procVars, link, conns, users, clientVars, history>>

(* Connections of k's server and user between their two registrations. *)
Overlapping(k) ==
  {j \in Conns \ {k} : pc[j] = "send" /\ ServerOf[j] = ServerOf[k] /\ user[j] = user[k]}

(* Mutant of SetConn: a connection that is there already stays. *)
SetConnOnce(k) ==
  LET s == ServerOf[k]  u == user[k]
  IN  /\ phase = "up" /\ pc[k] = "set"
      /\ conns' = IF conns[s][u] = None THEN [conns EXCEPT ![s][u] = k] ELSE conns
      /\ mixed' = IF Overlapping(k) = {} THEN mixed ELSE mixed \cup {<<s, u>>}
      /\ pc' = [pc EXCEPT ![k] = "send"]
      /\ UNCHANGED <<procVars, link, init, user, mute, users, clientVars, failed>>

SetConn(k) ==
  LET s == ServerOf[k]  u == user[k]
  IN  /\ phase = "up" /\ pc[k] = "set"
      /\ conns' = [conns EXCEPT ![s][u] = k]
      /\ mixed' = IF Overlapping(k) = {} THEN mixed ELSE mixed \cup {<<s, u>>}
      /\ pc' = [pc EXCEPT ![k] = "send"]
      /\ UNCHANGED <<procVars, link, init, user, mute, users, clientVars, failed>>

(* The send waits while the channel is full. *)
SendUser(k) ==
  LET s == ServerOf[k]
  IN  /\ phase = "up" /\ pc[k] = "send" /\ ~UsersClosed(s)
      /\ Len(users[s]) < UsersCap
      /\ users' = [users EXCEPT ![s] = Append(@, k)]
      /\ pc' = [pc EXCEPT ![k] = "idle"]
      /\ UNCHANGED <<procVars, link, init, user, mute, conns, clientVars, history>>

(* A panic when the channel was closed, before the send or under it. *)
SendPanics(k) ==
  /\ phase = "up" /\ pc[k] = "send" /\ UsersClosed(ServerOf[k])
  /\ Crash
  /\ UNCHANGED <<connVars, conns, users, clientVars, history>>

(* Mutant of UserKey: the value that OnData sets. *)
UserKeyOfUser(k) == user[k]

(* The connection's value "id", which nothing ever sets. *)
UserKey(k) == None

(* CloseConn: what is registered for the key is taken out and closed. *)
CloseConn(k) ==
  LET s == ServerOf[k]  u == UserKey(k)
  IN  /\ phase = "up" /\ link[k] = "open"
      /\ link' = [link EXCEPT ![k] = "gone"]
      /\ IF u = None
           THEN UNCHANGED <<conns, closed>>
           ELSE /\ closed' = closed \cup ({conns[s][u]} \ {None})
                /\ conns' = [conns EXCEPT ![s][u] = None]
      /\ UNCHANGED <<procVars, init, user, pc, mute, users, hand, stale, taken, field, ended, history>>

------------------------------------------------------------------------------
(* The App's loop and the clients. *)

(* Mutant of TakeUser: a connection waits until its client is open. *)
TakeUserIfOpen(s) ==
  /\ phase = "up" /\ appLoop /\ hand = None /\ users[s] # <<>>
  /\ user[Head(users[s])] \notin ended
  /\ users' = [users EXCEPT ![s] = Tail(@)]
  /\ hand' = Head(users[s])
  /\ stale' = FALSE
  /\ UNCHANGED <<procVars, connVars, conns, taken, field, ended, closed, history>>

(* The App takes a connection and finds or creates its user's client. *)
TakeUser(s) ==
  /\ phase = "up" /\ appLoop /\ hand = None /\ users[s] # <<>>
  /\ users' = [users EXCEPT ![s] = Tail(@)]
  /\ hand' = Head(users[s])
  /\ stale' = (user[Head(users[s])] \in ended)
  /\ UNCHANGED <<procVars, connVars, conns, taken, field, ended, closed, history>>

(* A closed channel gives a nil connection, whose ID is read. *)
TakePanics(s) ==
  /\ phase = "up" /\ appLoop /\ hand = None /\ users[s] = <<>> /\ UsersClosed(s)
  /\ Crash
  /\ UNCHANGED <<connVars, conns, users, clientVars, history>>

(* SetOrdersConnection, SetPricesConnection: the send on the client's      *)
(* actions, which waits for room.  The client closes the connection that   *)
(* it had for the same purpose.                                            *)
GiveUser ==
  /\ phase = "up" /\ hand # None /\ ~stale
  /\ LET k == hand  s == ServerOf[k]  u == user[k]
     IN  /\ taken' = taken \cup {k}
         /\ closed' = closed \cup ({field[s][u]} \ {None})
         /\ field' = [field EXCEPT ![s][u] = k]
  /\ hand' = None
  /\ UNCHANGED <<procVars, connVars, conns, users, stale, ended, history>>

(* The actions of a closed client are closed, whether it is still in the   *)
(* registry or was forgotten after it was found.                           *)
GivePanics ==
  /\ phase = "up" /\ hand # None /\ stale
  /\ Crash
  /\ UNCHANGED <<connVars, conns, users, clientVars, history>>

(* Client.Close, which closes both connections.  Any client may close, one *)
(* without connections, too: its stream or its history ends, or one of its *)
(* connections closes - the replaced one, whose watcher is still there,    *)
(* or, with Close, the current ones.  The fields stay as they are.         *)
ClientCloses(u) ==
  /\ phase = "up" /\ u \notin ended
  /\ ended' = ended \cup {u}
  /\ closed' = closed \cup ({field[s][u] : s \in Servers} \ {None})
  /\ stale' = (stale \/ (hand # None /\ user[hand] = u))
  /\ UNCHANGED <<procVars, connVars, conns, users, hand, taken, field, history>>

(* The shutdown handler removes the client: the user's next one is new. *)
ClientForgotten(u) ==
  /\ phase = "up" /\ u \in ended
  /\ ended' = ended \ {u}
  /\ field' = [s \in Servers |-> [field[s] EXCEPT ![u] = None]]
  /\ UNCHANGED <<procVars, connVars, conns, users, hand, stale, taken, closed, history>>

------------------------------------------------------------------------------
Process ==
  \/ Boot \/ BootFails \/ Serve \/ Signal \/ AppStops \/ Exit \/ PprofPanics
  \/ \E s \in Servers : ServeReturns(s)

Handlers ==
  \E k \in Conns :
    \/ OpenConn(k) \/ CloseConn(k) \/ SetConn(k) \/ SendUser(k) \/ SendPanics(k)
    \/ \E u \in Users : OnData(k, u)

AppLoop == GiveUser \/ GivePanics \/ \E s \in Servers : TakeUser(s) \/ TakePanics(s)

Next == Process \/ Handlers \/ AppLoop \/ \E u \in Users : ClientCloses(u) \/ ClientForgotten(u)

Spec == Init /\ [][Next]_vars

(* Fairness.  A handler that runs goes on, its send gets its turn when     *)
(* there is room, and the App's select takes a case that is ready again    *)
(* and again.  A client whose queue of actions stays full lets the App     *)
(* wait: nothing is assumed of the sends to it.                            *)
Fairness ==
  /\ \A k \in Conns : WF_vars(SetConn(k)) /\ SF_vars(SendUser(k) \/ SendPanics(k))
  /\ \A s \in Servers : SF_vars(TakeUser(s) \/ TakePanics(s))

FairSpec == Spec /\ Fairness

------------------------------------------------------------------------------
(* Types of the servers' state; a channel holds no more than its capacity, *)
(* and only connections of its own server.                                 *)
SocketTypeOK ==
  /\ booted \in 0 .. Len(BootSteps)
  /\ phase \in Phases
  /\ ctxDone \in BOOLEAN /\ appLoop \in BOOLEAN
  /\ served \subseteq Servers
  /\ link \in [Conns -> {"new", "open", "gone"}]
  /\ init \in [Conns -> BOOLEAN]
  /\ user \in [Conns -> Users \cup {None}]
  /\ pc \in [Conns -> {"idle", "set", "send"}]
  /\ ended \subseteq Users
  /\ hand \in Conns \cup {None} /\ stale \in BOOLEAN
  /\ mute \subseteq Conns /\ taken \subseteq Conns /\ closed \subseteq Conns
  /\ conns \in [Servers -> [Users -> Conns \cup {None}]]
  /\ field \in [Servers -> [Users -> Conns \cup {None}]]
  /\ users \in [Servers -> Seq(Conns)]
  /\ \A s \in Servers :
       /\ Len(users[s]) <= UsersCap
       /\ \A i \in DOMAIN users[s] : ServerOf[users[s][i]] = s
  /\ failed \subseteq Servers \cup {"pprof"}
  /\ mixed \subseteq Servers \X Users

(* Where a connection waits for the App. *)
Queued(k) == {i \in DOMAIN users[ServerOf[k]] : users[ServerOf[k]][i] = k}

(* A connection that named its user is in one place: with its handler,     *)
(* once in the channel of its server, in the App's hand, with a client, or *)
(* lost because its answer could not be written; one that did not is in    *)
(* none.  So OnData registers a connection once, whatever arrives on it.   *)
OnePlace ==
  \A k \in Conns :
    /\ init[k] <=> pc[k] # "idle" \/ Queued(k) # {} \/ k = hand \/ k \in taken \/ k \in mute
    /\ pc[k] # "idle" => Queued(k) = {} /\ k # hand /\ k \notin taken \cup mute
    /\ Queued(k) # {} => k # hand /\ k \notin taken \cup mute
    /\ k = hand => k \notin taken \cup mute
    /\ k \notin taken \cap mute
    /\ \A i, j \in Queued(k) : i = j

(* Only the client closes the connection that it uses, and has closed      *)
(* itself then: neither does the end of an older connection of the user at *)
(* the server (CloseConn takes what the map has for a user, which may be   *)
(* the newer connection), nor does a connection that the client was given  *)
(* come closed.  How long the client stays open is another question: the   *)
(* watcher of the connection that a new one replaced closes the client,    *)
(* and the new connection with it (ClosedForCause in Lifecycle).           *)
ClosedByItsClient ==
  \A s \in Servers, u \in Users : field[s][u] \in closed => u \in ended

(* When no connection of a user is on its way, the server's map and the    *)
(* client agree on the user's connection - unless two connections of the   *)
(* user were registered at once: the map then keeps the one that was       *)
(* stored last and the client the one that was sent last.                  *)
MapAgrees ==
  \A s \in Servers, u \in Users :
    \/ <<s, u>> \in mixed
    \/ field[s][u] = None
    \/ \E k \in Conns :
         ServerOf[k] = s /\ user[k] = u /\ (pc[k] = "send" \/ Queued(k) # {} \/ k = hand)
    \/ conns[s][u] = field[s][u]

(* The panics on the way of a connection from its handler to its client -  *)
(* a send on the closed users, a nil connection out of them, a send on     *)
(* closed actions - and of the profiling server: they need a server that   *)
(* stopped to serve, or a client that closed before the App found it or    *)
(* between the find and the send.  The end of the context alone, which     *)
(* stops the App and no server, leads to none of them.                     *)
SocketsPanicForCause == phase = "crashed" => failed # {} \/ stale

(* The App waits for ever for a client to take the connection in its hand. *)
HandStuck == <>[](hand # None)

(* A connection whose first answer was written gets to its user's client,  *)
(* in whatever order connections come and however full the channels are,   *)
(* unless the process was told to stop, exited or crashed, or some client  *)
(* never takes what the App sends it.                                      *)
GetsToClient ==
  \/ HandStuck
  \/ \A k \in Conns : pc[k] = "set" ~> (k \in taken \/ ctxDone \/ phase # "up")
=============================================================================
