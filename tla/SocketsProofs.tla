---------------------------- MODULE SocketsProofs ----------------------------
(***************************************************************************)
(* Proofs about the websocket servers, for any users, connections and      *)
(* capacity of the channels.                                               *)
(*                                                                         *)
(* SocketInv adds to the properties what makes them inductive: who owns a  *)
(* connection, that a client only closes what it took, that the last       *)
(* connection of a user on its way is the one that the map has, and that a *)
(* server which does not serve failed to.                                  *)
(***************************************************************************)
EXTENDS Sockets, TLAPS

(* A connection that is not idle named its user, and a client has its own  *)
(* connections.                                                            *)
Owned ==
  /\ \A k \in Conns : init[k] => user[k] \in Users
  /\ \A s \in Servers, u \in Users :
       field[s][u] # None =>
         field[s][u] \in taken /\ ServerOf[field[s][u]] = s /\ user[field[s][u]] = u
  /\ closed \subseteq taken

(* The i-th connection in the channel of s is the last one of the user u.  *)
LastOf(s, u, i) ==
  /\ i \in DOMAIN users[s] /\ user[users[s][i]] = u
  /\ \A j \in DOMAIN users[s] : user[users[s][j]] = u => j <= i

Sending(s, u) == {k \in Conns : ServerOf[k] = s /\ user[k] = u /\ pc[k] = "send"}

InHand(s, u) == hand # None /\ ServerOf[hand] = s /\ user[hand] = u

(* The map has the connection that the App holds for u, or the client's. *)
HeldOrUsed(s, u) ==
  IF InHand(s, u) THEN conns[s][u] = hand ELSE field[s][u] \in {None, conns[s][u]}

(* What the map has for a user is the connection registered last. *)
MapIsLatest ==
  \A s \in Servers, u \in Users :
    <<s, u>> \notin mixed =>
      /\ \A k \in Sending(s, u) : conns[s][u] = k
      /\ Sending(s, u) = {} =>
           /\ \A i \in DOMAIN users[s] : LastOf(s, u, i) => conns[s][u] = users[s][i]
           /\ (\A i \in DOMAIN users[s] : user[users[s][i]] # u) =>
                HeldOrUsed(s, u)

Causes ==
  /\ phase = "up" => Servers \ served \subseteq failed
  /\ SocketsPanicForCause

SocketInv == SocketTypeOK /\ OnePlace /\ Owned /\ ClosedByItsClient /\ MapIsLatest /\ Causes

------------------------------------------------------------------------------
LEMMA TypeInit == Init => SocketTypeOK
<1> SUFFICES ASSUME Init PROVE SocketTypeOK
  OBVIOUS
<1>1. booted \in 0 .. Len(BootSteps)
  BY DEF Init, BootSteps
<1>2. phase \in Phases /\ ctxDone \in BOOLEAN /\ appLoop \in BOOLEAN /\ served \subseteq Servers
  BY DEF Init, Phases
<1>3. /\ link \in [Conns -> {"new", "open", "gone"}]
      /\ init \in [Conns -> BOOLEAN]
      /\ user \in [Conns -> Users \cup {None}]
      /\ pc \in [Conns -> {"idle", "set", "send"}]
  BY DEF Init
<1>4. /\ conns \in [Servers -> [Users -> Conns \cup {None}]]
      /\ field \in [Servers -> [Users -> Conns \cup {None}]]
  BY DEF Init
<1>5. users \in [Servers -> Seq(Conns)] /\ \A s \in Servers : users[s] = <<>>
  BY DEF Init
<1>6. ended \subseteq Users /\ mute \subseteq Conns /\ taken \subseteq Conns /\ closed \subseteq Conns
      /\ failed \subseteq Servers \cup {"pprof"} /\ mixed \subseteq Servers \X Users
  BY DEF Init
<1>7. hand \in Conns \cup {None} /\ stale \in BOOLEAN
  BY DEF Init
<1> QED BY CapAssumption, <1>1, <1>2, <1>3, <1>4, <1>5, <1>6, <1>7 DEF SocketTypeOK

LEMMA TypeStep == SocketTypeOK /\ Owned /\ OnePlace /\ [Next]_vars => SocketTypeOK'
<1> SUFFICES ASSUME SocketTypeOK, Owned, OnePlace, [Next]_vars PROVE SocketTypeOK'
  OBVIOUS
<1> USE ServerAssumption, CapAssumption, NoneAssumption
<1>1. ASSUME Boot \/ BootFails \/ Serve \/ Signal \/ AppStops \/ Exit PROVE SocketTypeOK'
  <2>1. Len(BootSteps) \in Nat
    BY DEF BootSteps
  <2>2. booted' \in 0 .. Len(BootSteps)
    BY <1>1, <2>1 DEF Boot, BootFails, Serve, Signal, AppStops, Exit, SocketTypeOK
  <2>3. phase' \in Phases
    BY <1>1 DEF Boot, BootFails, Serve, Signal, AppStops, Exit, SocketTypeOK, Phases
  <2>4. ctxDone' \in BOOLEAN /\ appLoop' \in BOOLEAN /\ served' \subseteq Servers
    BY <1>1 DEF Boot, BootFails, Serve, Signal, AppStops, Exit, SocketTypeOK
  <2>5. UNCHANGED <<link, init, user, pc, mute, conns, users, hand, stale, taken, field, ended, closed,
                  failed, mixed>>
    BY <1>1 DEF Boot, BootFails, Serve, Signal, AppStops, Exit, connVars, clientVars, history
  <2> QED BY <2>2, <2>3, <2>4, <2>5 DEF SocketTypeOK
<1>2. ASSUME NEW s \in Servers, ServeReturns(s) PROVE SocketTypeOK'
  BY <1>2 DEF ServeReturns, SocketTypeOK, connVars, clientVars
<1>3. ASSUME PprofPanics PROVE SocketTypeOK'
  BY <1>3 DEF PprofPanics, Crash, SocketTypeOK, Phases, connVars, clientVars
<1>4. ASSUME NEW k \in Conns, OpenConn(k) \/ CloseConn(k) PROVE SocketTypeOK'
  BY <1>4 DEF OpenConn, CloseConn, UserKey, SocketTypeOK, procVars, clientVars, history
<1>5. ASSUME NEW k \in Conns, NEW u \in Users, OnData(k, u) PROVE SocketTypeOK'
  BY <1>5 DEF OnData, SocketTypeOK, procVars, clientVars, history
<1>6. ASSUME NEW k \in Conns, SetConn(k) PROVE SocketTypeOK'
  <2>1. ServerOf[k] \in Servers /\ user[k] \in Users
    BY <1>6 DEF SetConn, SocketTypeOK, Owned, OnePlace
  <2>2. conns' \in [Servers -> [Users -> Conns \cup {None}]]
    BY <1>6, <2>1 DEF SetConn, SocketTypeOK
  <2> QED BY <1>6, <2>1, <2>2 DEF SetConn, SocketTypeOK, procVars, clientVars
<1>7. ASSUME NEW k \in Conns, SendUser(k) PROVE SocketTypeOK'
  <2>1. users' \in [Servers -> Seq(Conns)]
    BY <1>7 DEF SendUser, SocketTypeOK
  <2>2. ASSUME NEW s \in Servers
        PROVE  Len(users'[s]) <= UsersCap /\ \A i \in DOMAIN users'[s] : ServerOf[users'[s][i]] = s
    BY <1>7, <2>2 DEF SendUser, SocketTypeOK
  <2> QED BY <1>7, <2>1, <2>2 DEF SendUser, SocketTypeOK, procVars, clientVars, history
<1>8. ASSUME (\E k \in Conns : SendPanics(k)) \/ GivePanics \/ \E s \in Servers : TakePanics(s)
      PROVE  SocketTypeOK'
  BY <1>8 DEF SendPanics, TakePanics, GivePanics, Crash, SocketTypeOK, Phases, connVars, clientVars, history
<1>9. ASSUME NEW s \in Servers, TakeUser(s) PROVE SocketTypeOK'
  <2> DEFINE k == Head(users[s])
  <2>1. k \in Conns /\ stale' \in BOOLEAN /\ hand' = k
    BY <1>9 DEF TakeUser, SocketTypeOK
  <2>2. users' \in [Servers -> Seq(Conns)]
    BY <1>9 DEF TakeUser, SocketTypeOK
  <2>3. ASSUME NEW t \in Servers
        PROVE  Len(users'[t]) <= UsersCap /\ \A i \in DOMAIN users'[t] : ServerOf[users'[t][i]] = t
    BY <1>9, <2>3 DEF TakeUser, SocketTypeOK
  <2> QED BY <1>9, <2>1, <2>2, <2>3 DEF TakeUser, SocketTypeOK, procVars, connVars, history
<1>10. ASSUME GiveUser PROVE SocketTypeOK'
  <2>1. hand \in Conns /\ user[hand] \in Users /\ hand' = None
    BY <1>10 DEF GiveUser, SocketTypeOK, OnePlace, Owned
  <2>2. field' \in [Servers -> [Users -> Conns \cup {None}]] /\ taken' \subseteq Conns /\ closed' \subseteq Conns
    BY <1>10, <2>1 DEF GiveUser, SocketTypeOK
  <2> QED BY <1>10, <2>1, <2>2 DEF GiveUser, SocketTypeOK, procVars, connVars, history
<1>11. ASSUME NEW u \in Users, ClientCloses(u) \/ ClientForgotten(u) PROVE SocketTypeOK'
  <2>1. ended' \subseteq Users /\ stale' \in BOOLEAN
    BY <1>11 DEF ClientCloses, ClientForgotten, SocketTypeOK
  <2>2. closed' \subseteq Conns
    <3>1. \A t \in Servers : field[t][u] \in Conns \cup {None}
      BY DEF SocketTypeOK
    <3>2. closed' = closed \cup ({field[t][u] : t \in Servers} \ {None}) \/ closed' = closed
      BY <1>11 DEF ClientCloses, ClientForgotten
    <3> QED BY <3>1, <3>2 DEF SocketTypeOK
  <2>3. field' \in [Servers -> [Users -> Conns \cup {None}]]
    <3>0. \A t \in Servers : field[t] \in [Users -> Conns \cup {None}]
      BY DEF SocketTypeOK
    <3>1. ASSUME NEW t \in Servers
          PROVE  [field[t] EXCEPT ![u] = None] \in [Users -> Conns \cup {None}]
      BY <3>0, <3>1
    <3>2. CASE ClientCloses(u)
      BY <3>2 DEF ClientCloses, SocketTypeOK
    <3>3. CASE ClientForgotten(u)
      <4> DEFINE F == [Users -> Conns \cup {None}]
                 g(t) == [field[t] EXCEPT ![u] = None]
      <4>1. field' = [t \in Servers |-> g(t)]
        BY <3>3 DEF ClientForgotten
      <4>2. \A t \in Servers : g(t) \in F
        BY <3>1
      <4> HIDE DEF g, F
      <4>3. field' \in [Servers -> F]
        BY <4>1, <4>2
      <4> QED BY <4>3 DEF F
    <3> QED BY <1>11, <3>2, <3>3
  <2> QED BY <1>11, <2>1, <2>2, <2>3 DEF ClientCloses, ClientForgotten, SocketTypeOK, procVars, connVars, history
<1>12. CASE UNCHANGED vars
  BY <1>12 DEF vars, procVars, connVars, clientVars, history, SocketTypeOK
<1> QED
  BY <1>1, <1>2, <1>3, <1>4, <1>5, <1>6, <1>7, <1>8, <1>9, <1>10, <1>11, <1>12
     DEF Next, Process, Handlers, AppLoop

------------------------------------------------------------------------------
LEMMA PlaceInit == Init => OnePlace /\ Owned /\ ClosedByItsClient
BY ServerAssumption, NoneAssumption DEF Init, OnePlace, Queued, Owned, ClosedByItsClient

(* The actions of the process and of the registry, and the panics, touch   *)
(* no connection.                                                          *)
LEMMA PlaceKept ==
  ASSUME OnePlace, UNCHANGED <<init, pc, users, hand, taken, mute>>
  PROVE  OnePlace'
BY DEF OnePlace, Queued

LEMMA PlaceStep == SocketTypeOK /\ Owned /\ OnePlace /\ [Next]_vars => OnePlace'
<1> SUFFICES ASSUME SocketTypeOK, Owned, OnePlace, [Next]_vars PROVE OnePlace'
  OBVIOUS
<1> USE ServerAssumption, CapAssumption, NoneAssumption
<1>1. ASSUME Process \/ UNCHANGED vars PROVE OnePlace'
  BY <1>1, PlaceKept DEF Process, Boot, BootFails, Serve, Signal, AppStops, Exit, ServeReturns, PprofPanics,
     vars, connVars, clientVars
<1>2. ASSUME NEW k \in Conns, OpenConn(k) \/ CloseConn(k) \/ SendPanics(k) PROVE OnePlace'
  BY <1>2, PlaceKept DEF OpenConn, CloseConn, UserKey, SendPanics, clientVars, connVars
<1>3. ASSUME GivePanics \/ \E s \in Servers : TakePanics(s) PROVE OnePlace'
  BY <1>3, PlaceKept DEF TakePanics, GivePanics, clientVars, connVars
<1>4. ASSUME NEW u \in Users, ClientCloses(u) \/ ClientForgotten(u) PROVE OnePlace'
  BY <1>4, PlaceKept DEF ClientCloses, ClientForgotten, connVars
<1>5. ASSUME NEW k \in Conns, NEW u \in Users, OnData(k, u) PROVE OnePlace'
  BY <1>5 DEF OnData, Fresh, OnePlace, Queued, SocketTypeOK, clientVars
<1>6. ASSUME NEW k \in Conns, SetConn(k) PROVE OnePlace'
  BY <1>6 DEF SetConn, OnePlace, Queued, SocketTypeOK, clientVars
<1>7. ASSUME NEW k \in Conns, SendUser(k) PROVE OnePlace'
  <2> DEFINE s == ServerOf[k]
  <2>1. s \in Servers /\ users[s] \in Seq(Conns) /\ users' = [users EXCEPT ![s] = Append(users[s], k)]
    BY <1>7 DEF SendUser, SocketTypeOK
  <2>2. pc[k] = "send" /\ pc' = [pc EXCEPT ![k] = "idle"] /\ UNCHANGED <<init, hand, taken, mute>>
    BY <1>7 DEF SendUser, clientVars
  <2>3. Queued(k) = {} /\ k # hand /\ k \notin taken \cup mute /\ init[k]
    BY <2>2 DEF OnePlace
  <2>4. Queued(k)' = {Len(users[s]) + 1}
    BY <2>1, <2>3 DEF Queued, SocketTypeOK
  <2>5. ASSUME NEW j \in Conns \ {k} PROVE Queued(j)' = Queued(j)
    <3>1. CASE ServerOf[j] # s
      BY <2>1, <3>1 DEF Queued, SocketTypeOK
    <3>2. CASE ServerOf[j] = s
      <4>1. users'[s] = Append(users[s], k) /\ DOMAIN users[s] = 1 .. Len(users[s]) /\ Len(users[s]) \in Nat
        BY <2>1 DEF SocketTypeOK
      <4>2. DOMAIN users'[s] = 1 .. Len(users[s]) + 1 /\ users'[s][Len(users[s]) + 1] = k
        BY <2>1, <4>1
      <4>3. \A i \in DOMAIN users[s] : users'[s][i] = users[s][i]
        BY <2>1, <4>1
      <4>4. j # k
        BY <2>5
      <4> QED BY <3>2, <4>1, <4>2, <4>3, <4>4 DEF Queued
    <3> QED BY <3>1, <3>2
  <2>6. pc'[k] = "idle" /\ \A j \in Conns \ {k} : pc'[j] = pc[j]
    BY <2>2 DEF SocketTypeOK
  <2> HIDE DEF s
  <2> QED BY <2>2, <2>3, <2>4, <2>5, <2>6 DEF OnePlace
<1>8. ASSUME NEW s \in Servers, TakeUser(s) PROVE OnePlace'
  <2>0. PICK k \in Conns : k = Head(users[s])
    BY <1>8 DEF TakeUser, SocketTypeOK
  <2>1. users[s] \in Seq(Conns) /\ users[s] # <<>> /\ users' = [users EXCEPT ![s] = Tail(users[s])]
    BY <1>8 DEF TakeUser, SocketTypeOK
  <2>2. hand = None /\ hand' = k /\ UNCHANGED <<init, pc, taken, mute>>
    BY <1>8, <2>0 DEF TakeUser, connVars
  <2>3. ServerOf[k] = s /\ 1 \in Queued(k)
    BY <2>0, <2>1 DEF Queued, SocketTypeOK
  <2>4. Queued(k) = {1} /\ pc[k] = "idle" /\ init[k] /\ k \notin taken \cup mute
    BY <2>3 DEF OnePlace
  <2>5. ASSUME NEW j \in Conns
        PROVE  Queued(j)' = IF ServerOf[j] = s THEN {i - 1 : i \in Queued(j) \ {1}} ELSE Queued(j)
    <3>1. CASE ServerOf[j] # s
      BY <2>1, <3>1 DEF Queued, SocketTypeOK
    <3>2. CASE ServerOf[j] = s
      <4>1. DOMAIN users[s] = 1 .. Len(users[s]) /\ Len(users[s]) \in Nat \ {0}
        BY <2>1
      <4>2. users'[s] = Tail(users[s]) /\ DOMAIN users'[s] = 1 .. Len(users[s]) - 1
        BY <2>1, <4>1 DEF SocketTypeOK
      <4>3. \A i \in DOMAIN users'[s] : users'[s][i] = users[s][i + 1]
        BY <2>1, <4>1, <4>2
      <4>4. \A i : i \in Queued(j)' <=> i \in Nat /\ i + 1 \in Queued(j) /\ i >= 1
        BY <3>2, <4>1, <4>2, <4>3 DEF Queued
      <4> QED BY <3>2, <4>1, <4>4 DEF Queued
    <3> QED BY <3>1, <3>2
  <2>6. Queued(k)' = {}
    <3>1. Queued(k)' = {i - 1 : i \in Queued(k) \ {1}}
      BY <2>3, <2>5
    <3>2. \A i : i \notin Queued(k) \ {1}
      BY <2>4
    <3> QED BY <3>1, <3>2
  <2>7. ASSUME NEW j \in Conns \ {k}
        PROVE  /\ Queued(j)' = {} <=> Queued(j) = {}
               /\ (\A m, n \in Queued(j) : m = n) => \A m, n \in Queued(j)' : m = n
    <3>1. CASE ServerOf[j] # s
      BY <2>5, <3>1
    <3>2. CASE ServerOf[j] = s
      <4>1. 1 \notin Queued(j) /\ Queued(j) \subseteq Int
        BY <2>0, <2>1, <2>7, <3>2 DEF Queued
      <4>2. Queued(j)' = {i - 1 : i \in Queued(j)}
        BY <2>5, <3>2, <4>1
      <4> QED BY <4>1, <4>2
    <3> QED BY <3>1, <3>2
  <2>8. \A j \in Conns \ {k} : j # hand /\ j # hand'
    BY <2>2
  <2> QED BY <2>2, <2>4, <2>6, <2>7, <2>8 DEF OnePlace
<1>9. ASSUME GiveUser PROVE OnePlace'
  <2>1. hand \in Conns /\ hand' = None /\ taken' = taken \cup {hand} /\ UNCHANGED <<init, pc, users, mute>>
    BY <1>9 DEF GiveUser, SocketTypeOK, connVars
  <2>2. Queued(hand) = {} /\ pc[hand] = "idle" /\ init[hand] /\ hand \notin taken \cup mute
    BY <2>1 DEF OnePlace
  <2>3. \A j \in Conns : Queued(j)' = Queued(j)
    BY <2>1 DEF Queued
  <2> QED BY <2>1, <2>2, <2>3 DEF OnePlace
<1> QED
  BY <1>1, <1>2, <1>3, <1>4, <1>5, <1>6, <1>7, <1>8, <1>9 DEF Next, Handlers, AppLoop

LEMMA OwnedStep ==
  SocketTypeOK /\ OnePlace /\ Owned /\ ClosedByItsClient /\ [Next]_vars => Owned' /\ ClosedByItsClient'
<1> SUFFICES ASSUME SocketTypeOK, OnePlace, Owned, ClosedByItsClient, [Next]_vars
             PROVE  Owned' /\ ClosedByItsClient'
  OBVIOUS
<1> USE ServerAssumption, CapAssumption, NoneAssumption
<1>1. ASSUME UNCHANGED <<init, user, taken, field, closed>>, ended \subseteq ended'
      PROVE  Owned' /\ ClosedByItsClient'
  BY <1>1 DEF Owned, ClosedByItsClient
<1>2. ASSUME NEW k \in Conns, NEW u \in Users, OnData(k, u) PROVE Owned' /\ ClosedByItsClient'
  <2>1. k \notin taken /\ ~init[k]
    BY <1>2 DEF OnData, Fresh, OnePlace
  <2>2. /\ init' = [init EXCEPT ![k] = TRUE] /\ user' = [user EXCEPT ![k] = u]
        /\ UNCHANGED <<taken, field, ended, closed>>
    BY <1>2 DEF OnData, clientVars
  <2>3. \A j \in Conns : init'[j] => user'[j] \in Users
    BY <2>2 DEF Owned, SocketTypeOK
  <2>4. ASSUME NEW t \in Servers, NEW v \in Users, field[t][v] # None
        PROVE  field[t][v] \in taken /\ ServerOf[field[t][v]] = t /\ user'[field[t][v]] = v
    <3>1. field[t][v] \in taken /\ ServerOf[field[t][v]] = t /\ user[field[t][v]] = v
      BY <2>4 DEF Owned
    <3> QED BY <2>1, <2>2, <3>1 DEF SocketTypeOK
  <2> QED BY <2>2, <2>3, <2>4 DEF Owned, ClosedByItsClient
<1>3. ASSUME GiveUser PROVE Owned' /\ ClosedByItsClient'
  <2>0. PICK k \in Conns, s \in Servers : k = hand /\ s = ServerOf[k]
    BY <1>3 DEF GiveUser, SocketTypeOK
  <2>1. PICK u \in Users : u = user[k]
    BY <2>0 DEF OnePlace, Owned
  <2> DEFINE f == field[s][u]
  <2>2. k \notin taken
    BY <2>0 DEF OnePlace
  <2>3. /\ taken' = taken \cup {k} /\ closed' = closed \cup ({f} \ {None})
        /\ field' = [field EXCEPT ![s][u] = k]
        /\ UNCHANGED <<init, user, ended>>
    BY <1>3, <2>0, <2>1 DEF GiveUser, connVars
  <2>4. f # None => f \in taken
    BY DEF Owned
  <2>5. closed' \subseteq taken'
    BY <2>3, <2>4 DEF Owned
  <2>6. ASSUME NEW t \in Servers, NEW v \in Users
        PROVE  field'[t][v] = IF t = s /\ v = u THEN k ELSE field[t][v]
    BY <2>3, <2>6 DEF SocketTypeOK
  <2>7. ASSUME NEW t \in Servers, NEW v \in Users, field'[t][v] # None
        PROVE  field'[t][v] \in taken' /\ ServerOf[field'[t][v]] = t /\ user[field'[t][v]] = v
    BY <2>0, <2>1, <2>3, <2>6, <2>7 DEF Owned
  <2>8. ASSUME NEW t \in Servers, NEW v \in Users, field'[t][v] \in closed' PROVE v \in ended
    <3>1. CASE t = s /\ v = u
      BY <2>2, <2>3, <2>4, <2>6, <2>8, <3>1 DEF Owned
    <3>2. CASE ~(t = s /\ v = u)
      <4>1. field[t][v] \in closed \/ (field[t][v] = f /\ f # None)
        BY <2>3, <2>6, <2>8, <3>2
      <4>2. ~(field[t][v] = f /\ f # None)
        BY <2>1, <3>2 DEF Owned
      <4> QED BY <4>1, <4>2 DEF ClosedByItsClient
    <3> QED BY <3>1, <3>2
  <2> QED BY <2>3, <2>5, <2>7, <2>8 DEF Owned, ClosedByItsClient
<1>4. ASSUME NEW u \in Users, ClientCloses(u) PROVE Owned' /\ ClosedByItsClient'
  <2>1. /\ closed' = closed \cup ({field[s][u] : s \in Servers} \ {None})
        /\ ended' = ended \cup {u}
        /\ UNCHANGED <<init, user, taken, field>>
    BY <1>4 DEF ClientCloses, connVars
  <2>2. closed' \subseteq taken
    BY <2>1 DEF Owned
  <2>3. ASSUME NEW t \in Servers, NEW v \in Users, field[t][v] \in closed' PROVE v \in ended'
    <3>1. CASE field[t][v] \in closed
      BY <2>1, <3>1 DEF ClosedByItsClient
    <3>2. ASSUME NEW s \in Servers, field[t][v] = field[s][u], field[s][u] # None PROVE v = u
      BY <3>2 DEF Owned
    <3> QED BY <2>1, <2>3, <3>1, <3>2
  <2> QED BY <2>1, <2>2, <2>3 DEF Owned, ClosedByItsClient
<1>5. ASSUME NEW u \in Users, ClientForgotten(u) PROVE Owned' /\ ClosedByItsClient'
  <2>1. /\ field' = [s \in Servers |-> [field[s] EXCEPT ![u] = None]]
        /\ ended' = ended \ {u}
        /\ UNCHANGED <<init, user, taken, closed>>
    BY <1>5 DEF ClientForgotten, connVars
  <2>2. ASSUME NEW t \in Servers, NEW v \in Users
        PROVE  field'[t][v] = IF v = u THEN None ELSE field[t][v]
    BY <2>1, <2>2 DEF SocketTypeOK
  <2>3. None \notin closed
    BY DEF SocketTypeOK
  <2> QED BY <2>1, <2>2, <2>3 DEF Owned, ClosedByItsClient
<1>6. ASSUME Process \/ UNCHANGED vars PROVE UNCHANGED <<init, user, taken, field, ended, closed>>
  BY <1>6 DEF Process, Boot, BootFails, Serve, Signal, AppStops, Exit, ServeReturns, PprofPanics,
     vars, connVars, clientVars
<1>7. ASSUME NEW k \in Conns, OpenConn(k) \/ CloseConn(k) \/ SetConn(k) \/ SendUser(k) \/ SendPanics(k)
      PROVE  UNCHANGED <<init, user, taken, field, ended, closed>>
  BY <1>7 DEF OpenConn, CloseConn, UserKey, SetConn, SendUser, SendPanics, clientVars, connVars
<1>8. ASSUME GivePanics \/ \E s \in Servers : TakeUser(s) \/ TakePanics(s)
      PROVE  UNCHANGED <<init, user, taken, field, ended, closed>>
  BY <1>8 DEF TakeUser, TakePanics, GivePanics, clientVars, connVars
<1> QED
  BY <1>1, <1>2, <1>3, <1>4, <1>5, <1>6, <1>7, <1>8 DEF Next, Handlers, AppLoop

------------------------------------------------------------------------------
LEMMA LatestInit == Init => MapIsLatest /\ Causes
BY DEF Init, MapIsLatest, Sending, LastOf, InHand, HeldOrUsed, Causes, SocketsPanicForCause

LEMMA LatestStep == SocketTypeOK /\ OnePlace /\ Owned /\ MapIsLatest /\ [Next]_vars => MapIsLatest'
<1> SUFFICES ASSUME SocketTypeOK, OnePlace, Owned, MapIsLatest, [Next]_vars PROVE MapIsLatest'
  OBVIOUS
<1> USE ServerAssumption, CapAssumption, NoneAssumption
<1>1. ASSUME UNCHANGED <<pc, user, conns, users, hand, mixed>>,
             \A s \in Servers, u \in Users : field'[s][u] \in {None, field[s][u]}
      PROVE  MapIsLatest'
  BY <1>1 DEF MapIsLatest, Sending, LastOf, InHand, HeldOrUsed
<1>2. ASSUME NEW k \in Conns, NEW u \in Users, OnData(k, u) PROVE MapIsLatest'
  <2>1. pc[k] = "idle" /\ Queued(k) = {} /\ k # hand
    BY <1>2 DEF OnData, Fresh, OnePlace
  <2>2. user' = [user EXCEPT ![k] = u] /\ UNCHANGED <<conns, users, hand, field, mixed>>
        /\ \A j \in Conns : pc'[j] = "send" <=> pc[j] = "send"
    BY <1>2, <2>1 DEF OnData, clientVars, history, SocketTypeOK
  <2>3. ASSUME NEW s \in Servers, NEW i \in DOMAIN users[s] PROVE user'[users[s][i]] = user[users[s][i]]
    <3>1. users[s][i] \in Conns /\ ServerOf[users[s][i]] = s
      BY <2>3 DEF SocketTypeOK
    <3>2. users[s][i] # k
      BY <2>1, <3>1 DEF Queued
    <3> QED BY <2>2, <3>1, <3>2 DEF SocketTypeOK
  <2>4. ASSUME NEW s \in Servers, NEW v \in Users PROVE Sending(s, v)' = Sending(s, v)
    BY <2>1, <2>2 DEF Sending, SocketTypeOK
  <2>5. ASSUME NEW s \in Servers, NEW v \in Users, NEW i \in DOMAIN users[s]
        PROVE  LastOf(s, v, i)' <=> LastOf(s, v, i)
    BY <2>2, <2>3 DEF LastOf
  <2>6. \A s \in Servers, v \in Users : InHand(s, v)' <=> InHand(s, v)
    BY <2>1, <2>2 DEF InHand, SocketTypeOK
  <2> QED BY <2>2, <2>3, <2>4, <2>5, <2>6 DEF MapIsLatest, HeldOrUsed
<1>3. ASSUME NEW k \in Conns, SetConn(k) PROVE MapIsLatest'
  <2> DEFINE s == ServerOf[k]
  <2>0. PICK u \in Users : u = user[k]
    BY <1>3 DEF SetConn, OnePlace, Owned
  <2>1. /\ conns' = [conns EXCEPT ![s][u] = k] /\ pc' = [pc EXCEPT ![k] = "send"]
        /\ UNCHANGED <<user, users, hand, field>>
        /\ mixed' = IF Overlapping(k) = {} THEN mixed ELSE mixed \cup {<<s, u>>}
    BY <1>3, <2>0 DEF SetConn, clientVars
  <2>2. ASSUME NEW t \in Servers, NEW v \in Users, ~(t = s /\ v = u)
        PROVE  /\ Sending(t, v)' = Sending(t, v)
               /\ conns'[t][v] = conns[t][v]
               /\ <<t, v>> \in mixed' <=> <<t, v>> \in mixed
    BY <2>0, <2>1, <2>2 DEF Sending, SocketTypeOK
  <2>3. ASSUME <<s, u>> \notin mixed' PROVE Sending(s, u)' = {k} /\ conns'[s][u] = k
    <3>1. Overlapping(k) = {} /\ s \in Servers
      BY <2>1, <2>3
    <3> QED BY <2>0, <2>1, <3>1 DEF Overlapping, Sending, SocketTypeOK
  <2>4. ASSUME NEW t \in Servers, NEW v \in Users, NEW i \in DOMAIN users[t]
        PROVE  LastOf(t, v, i)' <=> LastOf(t, v, i)
    BY <2>1 DEF LastOf
  <2>5. \A t \in Servers, v \in Users : InHand(t, v)' <=> InHand(t, v)
    BY <2>1 DEF InHand
  <2> HIDE DEF s
  <2> QED BY <2>1, <2>2, <2>3, <2>4, <2>5 DEF MapIsLatest, HeldOrUsed, InHand
<1>4. ASSUME NEW k \in Conns, SendUser(k) PROVE MapIsLatest'
  <2>0. PICK s \in Servers, u \in Users : s = ServerOf[k] /\ u = user[k]
    BY <1>4 DEF SendUser, OnePlace, Owned
  <2>1. /\ pc[k] = "send" /\ pc' = [pc EXCEPT ![k] = "idle"]
        /\ users' = [users EXCEPT ![s] = Append(users[s], k)]
        /\ UNCHANGED <<user, conns, hand, field, mixed>>
    BY <1>4, <2>0 DEF SendUser, clientVars, history
  <2>2. /\ users'[s] = Append(users[s], k) /\ Len(users[s]) \in Nat
        /\ DOMAIN users[s] = 1 .. Len(users[s]) /\ DOMAIN users'[s] = 1 .. Len(users[s]) + 1
        /\ users'[s][Len(users[s]) + 1] = k
        /\ \A i \in DOMAIN users[s] : users'[s][i] = users[s][i]
    BY <2>1 DEF SocketTypeOK
  <2>3. ASSUME NEW t \in Servers, NEW v \in Users, ~(t = s /\ v = u), <<t, v>> \notin mixed
        PROVE  /\ \A j \in Sending(t, v)' : conns[t][v] = j
               /\ Sending(t, v)' = {} =>
                    /\ \A i \in DOMAIN users'[t] : LastOf(t, v, i)' => conns[t][v] = users'[t][i]
                    /\ (\A i \in DOMAIN users'[t] : user[users'[t][i]] # v) => HeldOrUsed(t, v)
    <3>1. Sending(t, v)' = Sending(t, v)
      BY <2>0, <2>1, <2>3 DEF Sending, SocketTypeOK
    <3>2. CASE t # s
      <4>1. users'[t] = users[t] /\ user' = user
        BY <2>1, <3>2 DEF SocketTypeOK
      <4>2. \A i \in DOMAIN users[t] : LastOf(t, v, i)' <=> LastOf(t, v, i)
        BY <4>1 DEF LastOf
      <4> QED BY <2>3, <3>1, <4>1, <4>2 DEF MapIsLatest, HeldOrUsed
    <3>3. CASE t = s
      <4>1. ASSUME NEW i \in DOMAIN users'[s], LastOf(s, v, i)' PROVE i \in DOMAIN users[s] /\ LastOf(s, v, i)
        BY <2>0, <2>1, <2>2, <2>3, <3>3, <4>1 DEF LastOf
      <4>2. (\A i \in DOMAIN users'[s] : user[users'[s][i]] # v) => \A i \in DOMAIN users[s] : user[users[s][i]] # v
        BY <2>2
      <4>3. ASSUME NEW i \in DOMAIN users'[s], LastOf(s, v, i)', Sending(s, v) = {}
            PROVE  conns[s][v] = users'[s][i]
        <5>1. i \in DOMAIN users[s] /\ LastOf(s, v, i) /\ users'[s][i] = users[s][i]
          BY <2>2, <4>1, <4>3
        <5> QED BY <2>3, <3>3, <4>3, <5>1 DEF MapIsLatest
      <4>4. (Sending(s, v) = {} /\ \A i \in DOMAIN users'[s] : user[users'[s][i]] # v) =>
              HeldOrUsed(s, v)
        BY <2>3, <3>3, <4>2 DEF MapIsLatest, HeldOrUsed
      <4>5. \A j \in Sending(s, v) : conns[s][v] = j
        BY <2>3, <3>3 DEF MapIsLatest
      <4> QED BY <3>1, <3>3, <4>3, <4>4, <4>5
    <3> QED BY <3>2, <3>3
  <2>4. ASSUME <<s, u>> \notin mixed
        PROVE  /\ Sending(s, u)' = {} /\ conns[s][u] = k
               /\ \A i \in DOMAIN users'[s] : LastOf(s, u, i)' => i = Len(users[s]) + 1
    <3>1. k \in Sending(s, u) /\ conns[s][u] = k /\ Sending(s, u) = {k}
      BY <2>0, <2>1, <2>4 DEF Sending, MapIsLatest
    <3>2. Sending(s, u)' = {}
      BY <2>1, <3>1 DEF Sending, SocketTypeOK
    <3>3. ASSUME NEW i \in DOMAIN users'[s], LastOf(s, u, i)' PROVE i = Len(users[s]) + 1
      BY <2>0, <2>1, <2>2, <3>3 DEF LastOf
    <3> QED BY <3>1, <3>2, <3>3
  <2>5. \E i \in DOMAIN users'[s] : user[users'[s][i]] = u
    BY <2>0, <2>2
  <2> QED BY <2>1, <2>2, <2>3, <2>4, <2>5 DEF MapIsLatest, HeldOrUsed, InHand
<1>5. ASSUME NEW s \in Servers, TakeUser(s) PROVE MapIsLatest'
  <2>0. PICK k \in Conns : k = Head(users[s]) /\ ServerOf[k] = s
    BY <1>5 DEF TakeUser, SocketTypeOK
  <2>1. Queued(k) # {}
    BY <1>5, <2>0 DEF TakeUser, Queued, SocketTypeOK
  <2>2. PICK u \in Users : u = user[k]
    BY <2>1 DEF OnePlace, Owned
  <2>3. /\ users[s] # <<>> /\ users' = [users EXCEPT ![s] = Tail(users[s])]
        /\ hand = None /\ hand' = k
        /\ UNCHANGED <<pc, user, conns, field, mixed>>
    BY <1>5, <2>0, <2>2 DEF TakeUser, connVars, history
  <2>4. /\ Len(users[s]) \in Nat \ {0} /\ users'[s] = Tail(users[s]) /\ users[s][1] = k
        /\ DOMAIN users[s] = 1 .. Len(users[s]) /\ DOMAIN users'[s] = 1 .. Len(users[s]) - 1
        /\ \A i \in DOMAIN users'[s] : users'[s][i] = users[s][i + 1]
    BY <2>0, <2>3 DEF SocketTypeOK
  <2>5. \A t \in Servers, v \in Users : Sending(t, v)' = Sending(t, v)
    BY <2>3 DEF Sending
  <2>6. /\ \A t \in Servers, v \in Users : ~InHand(t, v) /\ (InHand(t, v)' <=> t = s /\ v = u)
        /\ \A t \in Servers, v \in Users :
             HeldOrUsed(t, v)' <=> IF InHand(t, v)' THEN conns[t][v] = k ELSE field[t][v] \in {None, conns[t][v]}
    BY <2>0, <2>2, <2>3 DEF InHand, HeldOrUsed
  <2>7. ASSUME NEW v \in Users, NEW i \in DOMAIN users'[s], LastOf(s, v, i)'
        PROVE  i + 1 \in DOMAIN users[s] /\ LastOf(s, v, i + 1)
    <3>0. i \in DOMAIN users'[s] /\ i \in Nat /\ user[users'[s][i]] = v
          /\ \A j \in DOMAIN users'[s] : user[users'[s][j]] = v => j <= i
      BY <2>3, <2>4, <2>7 DEF LastOf
    <3>1. i + 1 \in DOMAIN users[s] /\ user[users[s][i + 1]] = v
      BY <2>4, <3>0
    <3>2. ASSUME NEW j \in DOMAIN users[s], user[users[s][j]] = v PROVE j <= i + 1
      <4>1. CASE j = 1
        BY <2>4, <4>1
      <4>2. CASE j # 1
        <5>1. j - 1 \in DOMAIN users'[s] /\ users'[s][j - 1] = users[s][j]
          BY <2>4, <4>2
        <5>2. j - 1 <= i
          BY <3>0, <3>2, <5>1
        <5> QED BY <2>4, <3>0, <5>2
      <4> QED BY <4>1, <4>2
    <3> QED BY <3>1, <3>2 DEF LastOf
  <2>8. ASSUME \A i \in DOMAIN users'[s] : user[users'[s][i]] # u PROVE LastOf(s, u, 1)
    <3>1. ASSUME NEW j \in DOMAIN users[s], user[users[s][j]] = u PROVE j <= 1
      <4>1. CASE j # 1
        <5>1. j - 1 \in DOMAIN users'[s] /\ users'[s][j - 1] = users[s][j]
          BY <2>4, <4>1
        <5> QED BY <2>8, <3>1, <5>1
      <4> QED BY <2>4, <4>1
    <3> QED BY <2>2, <2>4, <3>1 DEF LastOf
  <2>9. ASSUME NEW v \in Users \ {u}, \A i \in DOMAIN users'[s] : user[users'[s][i]] # v
        PROVE  \A i \in DOMAIN users[s] : user[users[s][i]] # v
    <3> SUFFICES ASSUME NEW j \in DOMAIN users[s] PROVE user[users[s][j]] # v
      OBVIOUS
    <3>1. CASE j = 1
      BY <2>2, <2>4, <3>1
    <3>2. CASE j # 1
      <4>1. j - 1 \in DOMAIN users'[s] /\ users'[s][j - 1] = users[s][j]
        BY <2>4, <3>2
      <4> QED BY <2>9, <4>1
    <3> QED BY <3>1, <3>2
  <2>10. \A t \in Servers \ {s} : users'[t] = users[t]
    BY <2>3 DEF SocketTypeOK
  <2>11. ASSUME NEW t \in Servers \ {s}, NEW v \in Users, <<t, v>> \notin mixed, Sending(t, v) = {}
         PROVE  /\ \A i \in DOMAIN users'[t] : LastOf(t, v, i)' => conns[t][v] = users'[t][i]
                /\ (\A i \in DOMAIN users'[t] : user[users'[t][i]] # v) => HeldOrUsed(t, v)'
    BY <2>3, <2>6, <2>10, <2>11 DEF MapIsLatest, LastOf, HeldOrUsed
  <2>12. ASSUME NEW v \in Users, <<s, v>> \notin mixed, Sending(s, v) = {}
         PROVE  /\ \A i \in DOMAIN users'[s] : LastOf(s, v, i)' => conns[s][v] = users'[s][i]
                /\ (\A i \in DOMAIN users'[s] : user[users'[s][i]] # v) => HeldOrUsed(s, v)'
    <3>1. \A i \in DOMAIN users[s] : LastOf(s, v, i) => conns[s][v] = users[s][i]
      BY <2>12 DEF MapIsLatest
    <3>2. \A i \in DOMAIN users'[s] : LastOf(s, v, i)' => conns[s][v] = users'[s][i]
      BY <2>4, <2>7, <3>1
    <3>3. ASSUME \A i \in DOMAIN users'[s] : user[users'[s][i]] # v PROVE HeldOrUsed(s, v)'
      <4>1. CASE v = u
        BY <2>4, <2>6, <2>8, <3>1, <3>3, <4>1
      <4>2. CASE v # u
        BY <2>6, <2>9, <2>12, <3>3, <4>2 DEF MapIsLatest, HeldOrUsed
      <4> QED BY <4>1, <4>2
    <3> QED BY <3>2, <3>3
  <2> QED BY <2>3, <2>5, <2>11, <2>12 DEF MapIsLatest
<1>10. ASSUME GiveUser PROVE MapIsLatest'
  <2>0. PICK k \in Conns, s \in Servers : k = hand /\ s = ServerOf[k]
    BY <1>10 DEF GiveUser, SocketTypeOK
  <2>1. PICK u \in Users : u = user[k]
    BY <2>0 DEF OnePlace, Owned
  <2>2. /\ field' = [field EXCEPT ![s][u] = k] /\ hand' = None
        /\ UNCHANGED <<pc, user, conns, users, mixed>>
    BY <1>10, <2>0, <2>1 DEF GiveUser, connVars, history
  <2>3. \A t \in Servers, v \in Users : ~InHand(t, v)' /\ (InHand(t, v) <=> t = s /\ v = u)
    BY <2>0, <2>1, <2>2 DEF InHand
  <2>4. \A t \in Servers, v \in Users : field'[t][v] = IF t = s /\ v = u THEN k ELSE field[t][v]
    BY <2>2 DEF SocketTypeOK
  <2>5. ASSUME NEW t \in Servers, NEW v \in Users, HeldOrUsed(t, v) PROVE HeldOrUsed(t, v)'
    BY <2>0, <2>2, <2>3, <2>4, <2>5 DEF HeldOrUsed
  <2>6. ASSUME NEW t \in Servers, NEW v \in Users
        PROVE  Sending(t, v)' = Sending(t, v) /\ \A i \in DOMAIN users[t] : LastOf(t, v, i)' <=> LastOf(t, v, i)
    BY <2>2 DEF Sending, LastOf
  <2> QED BY <2>2, <2>5, <2>6 DEF MapIsLatest
<1>6. ASSUME Process \/ UNCHANGED vars PROVE MapIsLatest'
  BY <1>1, <1>6 DEF Process, Boot, BootFails, Serve, Signal, AppStops, Exit, ServeReturns, PprofPanics,
     vars, connVars, clientVars, history
<1>7. ASSUME NEW k \in Conns, OpenConn(k) \/ CloseConn(k) \/ SendPanics(k) PROVE MapIsLatest'
  BY <1>1, <1>7 DEF OpenConn, CloseConn, UserKey, SendPanics, clientVars, connVars, history
<1>8. ASSUME GivePanics \/ \E s \in Servers : TakePanics(s) PROVE MapIsLatest'
  BY <1>1, <1>8 DEF TakePanics, GivePanics, clientVars, connVars, history
<1>9. ASSUME NEW u \in Users, ClientCloses(u) \/ ClientForgotten(u) PROVE MapIsLatest'
  BY <1>1, <1>9 DEF ClientCloses, ClientForgotten, connVars, history, SocketTypeOK
<1> QED
  BY <1>2, <1>3, <1>4, <1>5, <1>6, <1>7, <1>8, <1>9, <1>10 DEF Next, Handlers, AppLoop

LEMMA CausesStep == SocketTypeOK /\ Causes /\ [Next]_vars => Causes'
<1> SUFFICES ASSUME SocketTypeOK, Causes, [Next]_vars PROVE Causes'
  OBVIOUS
<1> USE ServerAssumption
<1>1. ASSUME Process \/ UNCHANGED vars PROVE Causes'
  BY <1>1 DEF Process, Boot, BootFails, Serve, Signal, AppStops, Exit, ServeReturns, PprofPanics, Crash,
     vars, procVars, clientVars, history, Causes, SocketsPanicForCause, SocketTypeOK
<1>2. ASSUME NEW k \in Conns,
             \/ OpenConn(k) \/ CloseConn(k) \/ SetConn(k) \/ SendUser(k)
             \/ \E u \in Users : OnData(k, u)
      PROVE  Causes'
  BY <1>2 DEF OpenConn, CloseConn, SetConn, SendUser, OnData, procVars, clientVars, history, Causes,
     SocketsPanicForCause
<1>3. ASSUME NEW k \in Conns, SendPanics(k) PROVE Causes'
  BY <1>3 DEF SendPanics, UsersClosed, Crash, clientVars, history, Causes, SocketsPanicForCause
<1>4. ASSUME NEW s \in Servers, TakePanics(s) PROVE Causes'
  BY <1>4 DEF TakePanics, UsersClosed, Crash, clientVars, history, Causes, SocketsPanicForCause
<1>5. ASSUME GivePanics PROVE Causes'
  BY <1>5 DEF GivePanics, Crash, clientVars, history, Causes, SocketsPanicForCause
<1>6. ASSUME GiveUser \/ \E s \in Servers : TakeUser(s) PROVE Causes'
  BY <1>6 DEF TakeUser, GiveUser, procVars, history, Causes, SocketsPanicForCause
<1>7. ASSUME NEW u \in Users, ClientCloses(u) \/ ClientForgotten(u) PROVE Causes'
  BY <1>7 DEF ClientCloses, ClientForgotten, procVars, history, Causes, SocketsPanicForCause
<1> QED
  BY <1>1, <1>2, <1>3, <1>4, <1>5, <1>6, <1>7 DEF Next, Handlers, AppLoop

LEMMA LatestAgrees == SocketTypeOK /\ MapIsLatest => MapAgrees
<1> SUFFICES ASSUME SocketTypeOK, MapIsLatest, NEW s \in Servers, NEW u \in Users,
                    <<s, u>> \notin mixed, field[s][u] # None,
                    ~ \E k \in Conns :
                        ServerOf[k] = s /\ user[k] = u /\ (pc[k] = "send" \/ Queued(k) # {} \/ k = hand)
             PROVE  conns[s][u] = field[s][u]
  BY DEF MapAgrees
<1>1. Sending(s, u) = {}
  BY DEF Sending
<1>2. \A i \in DOMAIN users[s] : user[users[s][i]] # u
  BY DEF Queued, SocketTypeOK
<1>3. ~InHand(s, u)
  BY DEF InHand, SocketTypeOK
<1> QED BY <1>1, <1>2, <1>3 DEF MapIsLatest, HeldOrUsed

LEMMA SocketInvariant == Spec => []SocketInv
<1>1. Init => SocketInv
  BY TypeInit, PlaceInit, LatestInit DEF SocketInv
<1>2. SocketInv /\ [Next]_vars => SocketInv'
  BY TypeStep, PlaceStep, OwnedStep, LatestStep, CausesStep DEF SocketInv
<1> QED BY <1>1, <1>2, PTL DEF Spec

------------------------------------------------------------------------------
(* The servers' types: above all, no channel ever holds more than its      *)
(* capacity or a connection of the other server.                           *)
THEOREM SocketTypeCorrect == Spec => []SocketTypeOK
BY SocketInvariant, PTL DEF SocketInv

(* OnData registers every connection once: it is with its handler, in the  *)
(* channel, in the App's hand, with a client or lost.                      *)
THEOREM ConnectionInOnePlace == Spec => []OnePlace
BY SocketInvariant, PTL DEF SocketInv

(* CloseConn and the way of a new connection to its client never close a   *)
(* connection that a client uses: when it is closed, its client closed.    *)
THEOREM OnlyItsClientCloses == Spec => []ClosedByItsClient
BY SocketInvariant, PTL DEF SocketInv

(* The map and the client agree on the connection of a user who registers  *)
(* one connection after the other.                                         *)
THEOREM MapAndClientAgree == Spec => []MapAgrees
<1>1. SocketInv => MapAgrees
  BY LatestAgrees DEF SocketInv
<1> QED BY <1>1, SocketInvariant, PTL

(* On its way from the handler to the client a connection meets a panic    *)
(* only after a server stopped or the client that the App found closed;    *)
(* the end of the context leads to none.                                   *)
THEOREM HandoverPanicHasCause == Spec => []SocketsPanicForCause
<1>1. SocketInv => SocketsPanicForCause
  BY DEF SocketInv, Causes
<1> QED BY <1>1, SocketInvariant, PTL
=============================================================================
