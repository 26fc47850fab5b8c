--------------------------- MODULE RegistryProofs ---------------------------
(***************************************************************************)
(* Proofs about Registry, for any users, streams and clients and any       *)
(* capacity of the shutdown channel.                                       *)
(*                                                                         *)
(* The inductive invariant: a creator between its lookup and its           *)
(* announcement holds the only reference to its client (UseInv), a client  *)
(* is announced once (TrackInv), what is in the map is tracked, and for a  *)
(* user who was never raced the tracked client is the one in the map, and  *)
(* there is none while a creator makes one (RaceInv).                      *)
(***************************************************************************)
EXTENDS Registry, SequenceTheorems, TLAPS

Holding(g) == pc[g] \in {"made", "stored"}

UseInv ==
  /\ \A g \in Creators : pc[g] # "idle" => wants[g] \in Users
  /\ \A g \in Creators : Holding(g) =>
       /\ using[g] \in ClientIds
       /\ parent[using[g]] = g
       /\ life[using[g]] # "none"
       /\ userOf[using[g]] = wants[g]
  /\ \A c \in ClientIds : life[c] # "none" => userOf[c] \in Users
  /\ \A u \in Users : clients[u] # None =>
       life[clients[u]] # "none" /\ userOf[clients[u]] = u

TrackInv ==
  /\ IsInjective(handlers)
  /\ IsInjective(shutdowns)
  /\ \A c \in ClientIds : ~(Contains(handlers, c) /\ Contains(shutdowns, c))
  /\ \A g \in Creators : Holding(g) => ~Contains(handlers, using[g]) /\ ~Contains(shutdowns, using[g])
  /\ \A c \in ClientIds : Contains(handlers, c) \/ Contains(shutdowns, c) => life[c] # "none"

RaceInv ==
  /\ \A u \in Users \ raced : \A g, h \in Pending(u) : g = h
  /\ \A u \in Users \ raced : Pending(u) # {} => clients[u] = None
  /\ \A c \in ClientIds : Tracked(c) /\ userOf[c] \notin raced => clients[userOf[c]] = c

(* A client that may still be used is tracked, or not yet stored. *)
LiveInv ==
  \A c \in ClientIds : IsLive(c) => Tracked(c) \/ \E g \in Creators : pc[g] = "made" /\ using[g] = c

RegInv == RegTypeOK /\ UseInv /\ TrackInv /\ RegisteredIsTracked /\ RaceInv /\ LiveInv

------------------------------------------------------------------------------
(* Sequences without repetition. *)

LEMMA AppendFacts ==
  ASSUME NEW S, NEW s \in Seq(S), NEW e \in S
  PROVE  /\ Append(s, e) \in Seq(S)
         /\ Len(Append(s, e)) = Len(s) + 1
         /\ \A c : Contains(Append(s, e), c) <=> Contains(s, c) \/ c = e
         /\ IsInjective(s) /\ ~Contains(s, e) => IsInjective(Append(s, e))
<1>1. /\ Append(s, e) \in Seq(S) /\ Len(s) \in Nat
      /\ Len(Append(s, e)) = Len(s) + 1
      /\ \A i \in 1 .. Len(s) : Append(s, e)[i] = s[i]
      /\ Append(s, e)[Len(s) + 1] = e
      /\ DOMAIN s = 1 .. Len(s) /\ DOMAIN Append(s, e) = 1 .. Len(s) + 1
  OBVIOUS
<1>2. \A c : Contains(Append(s, e), c) <=> Contains(s, c) \/ c = e
  BY <1>1 DEF Contains
<1>3. ASSUME IsInjective(s), ~Contains(s, e) PROVE IsInjective(Append(s, e))
  BY <1>1, <1>3 DEF IsInjective, Contains
<1> QED
  BY <1>1, <1>2, <1>3

LEMMA TailFacts ==
  ASSUME NEW S, NEW s \in Seq(S), s # <<>>
  PROVE  /\ Head(s) \in S /\ Tail(s) \in Seq(S)
         /\ Len(Tail(s)) = Len(s) - 1 /\ Len(s) \in Nat /\ Len(s) > 0
         /\ \A c : Contains(s, c) <=> Contains(Tail(s), c) \/ c = Head(s)
         /\ IsInjective(s) => IsInjective(Tail(s)) /\ ~Contains(Tail(s), Head(s))
<1>1. /\ Head(s) \in S /\ Tail(s) \in Seq(S) /\ Len(s) \in Nat /\ Len(s) > 0
      /\ Len(Tail(s)) = Len(s) - 1 /\ Head(s) = s[1]
      /\ \A i \in 1 .. Len(s) - 1 : Tail(s)[i] = s[i + 1]
      /\ DOMAIN s = 1 .. Len(s) /\ DOMAIN Tail(s) = 1 .. Len(s) - 1
  OBVIOUS
<1>2. \A c : Contains(s, c) <=> Contains(Tail(s), c) \/ c = Head(s)
  <2> SUFFICES ASSUME NEW c PROVE Contains(s, c) <=> Contains(Tail(s), c) \/ c = Head(s)
    OBVIOUS
  <2>1. ASSUME NEW i \in 1 .. Len(s), s[i] = c, i # 1 PROVE Contains(Tail(s), c)
    <3>1. i - 1 \in 1 .. Len(s) - 1 /\ Tail(s)[i - 1] = c
      BY <1>1, <2>1
    <3> QED
      BY <1>1, <3>1 DEF Contains
  <2>2. ASSUME NEW i \in 1 .. Len(s) - 1, Tail(s)[i] = c PROVE Contains(s, c)
    <3>1. i + 1 \in 1 .. Len(s) /\ s[i + 1] = c
      BY <1>1, <2>2
    <3> QED
      BY <3>1 DEF Contains
  <2>3. 1 \in 1 .. Len(s)
    BY <1>1
  <2> QED
    BY <1>1, <2>1, <2>2, <2>3 DEF Contains
<1>3. ASSUME IsInjective(s) PROVE IsInjective(Tail(s)) /\ ~Contains(Tail(s), Head(s))
  <2>1. \A i, j \in 1 .. Len(s) - 1 : Tail(s)[i] = Tail(s)[j] => i = j
    <3> SUFFICES ASSUME NEW i \in 1 .. Len(s) - 1, NEW j \in 1 .. Len(s) - 1,
                        Tail(s)[i] = Tail(s)[j]
                 PROVE  i = j
      OBVIOUS
    <3>1. i + 1 \in DOMAIN s /\ j + 1 \in DOMAIN s /\ s[i + 1] = s[j + 1]
      BY <1>1
    <3>2. i + 1 = j + 1
      BY <1>3, <3>1 DEF IsInjective
    <3> QED
      BY <3>2
  <2>2. ASSUME NEW i \in 1 .. Len(s) - 1 PROVE Tail(s)[i] # s[1]
    <3>1. i + 1 \in DOMAIN s /\ 1 \in DOMAIN s /\ i + 1 # 1
      BY <1>1
    <3> QED
      BY <1>1, <1>3, <3>1 DEF IsInjective
  <2> QED
    BY <1>1, <2>1, <2>2 DEF IsInjective, Contains
<1> QED
  BY <1>1, <1>2, <1>3

LEMMA RemoveFacts ==
  ASSUME NEW S, NEW s \in Seq(S), NEW i \in 1 .. Len(s)
  PROVE  /\ RemoveAt(s, i) \in Seq(S)
         /\ Len(RemoveAt(s, i)) = Len(s) - 1 /\ s[i] \in S
         /\ IsInjective(s) =>
              /\ \A c : Contains(RemoveAt(s, i), c) <=> Contains(s, c) /\ c # s[i]
              /\ IsInjective(RemoveAt(s, i))
<1> DEFINE r == RemoveAt(s, i)
<1>1. /\ r \in Seq(S) /\ Len(s) \in Nat /\ Len(r) = Len(s) - 1 /\ s[i] \in S
      /\ DOMAIN s = 1 .. Len(s) /\ DOMAIN r = 1 .. Len(s) - 1
      /\ \A k \in 1 .. Len(s) - 1 : r[k] = IF k < i THEN s[k] ELSE s[k + 1]
  <2> DEFINE a == SubSeq(s, 1, i - 1)
             b == SubSeq(s, i + 1, Len(s))
  <2>1. /\ Len(s) \in Nat /\ i \in Int /\ i >= 1 /\ i <= Len(s)
        /\ \A k \in 1 .. Len(s) : s[k] \in S
        /\ DOMAIN s = 1 .. Len(s)
    OBVIOUS
  <2>2. /\ a \in Seq(S) /\ Len(a) = i - 1
        /\ \A k \in 1 .. i - 1 : a[k] = s[k]
    <3>1. \A k \in 1 .. i - 1 : s[k] \in S
      BY <2>1
    <3>2. /\ a \in Seq(S) /\ Len(a) = IF 1 <= i - 1 THEN i - 1 - 1 + 1 ELSE 0
          /\ \A k \in 1 .. i - 1 - 1 + 1 : a[k] = s[1 + k - 1]
      BY <2>1, <3>1, SubSeqProperties
    <3> HIDE DEF a
    <3> QED
      BY <2>1, <3>2
  <2>3. /\ b \in Seq(S) /\ Len(b) = Len(s) - i
        /\ \A k \in 1 .. Len(s) - i : b[k] = s[i + k]
    <3>1. \A k \in i + 1 .. Len(s) : s[k] \in S
      BY <2>1
    <3>2. /\ b \in Seq(S) /\ Len(b) = IF i + 1 <= Len(s) THEN Len(s) - (i + 1) + 1 ELSE 0
          /\ \A k \in 1 .. Len(s) - (i + 1) + 1 : b[k] = s[i + 1 + k - 1]
      BY <2>1, <3>1, SubSeqProperties
    <3> HIDE DEF b
    <3>3. Len(b) = Len(s) - i
      <4>1. CASE i + 1 <= Len(s)
        <5>1. Len(b) = Len(s) - (i + 1) + 1
          BY <3>2, <4>1
        <5>2. Len(s) - (i + 1) + 1 = Len(s) - i
          BY <2>1
        <5> QED
          BY <5>1, <5>2
      <4>2. CASE ~(i + 1 <= Len(s))
        <5>1. Len(b) = 0
          BY <3>2, <4>2
        <5>2. \A n \in Nat : i <= n /\ ~(i + 1 <= n) => n - i = 0
          BY <2>1
        <5>3. Len(s) - i = 0
          BY <2>1, <4>2, <5>2
        <5> QED
          BY <5>1, <5>3
      <4> QED
        BY <4>1, <4>2
    <3>4. ASSUME NEW k \in 1 .. Len(s) - i PROVE b[k] = s[i + k]
      <4>1. k \in 1 .. Len(s) - (i + 1) + 1 /\ i + 1 + k - 1 = i + k
        BY <2>1
      <4>2. b[k] = s[i + 1 + k - 1]
        BY <3>2, <4>1
      <4> QED
        BY <4>1, <4>2
    <3> QED
      BY <3>2, <3>3, <3>4
  <2>4. r = a \o b
    BY DEF RemoveAt
  <2> HIDE DEF a, b, r
  <2>5. /\ r \in Seq(S) /\ Len(r) = Len(a) + Len(b)
        /\ \A k \in 1 .. Len(a) + Len(b) :
             r[k] = IF k <= Len(a) THEN a[k] ELSE b[k - Len(a)]
    BY <2>2, <2>3, <2>4, ConcatProperties
  <2>6. Len(r) = Len(s) - 1 /\ DOMAIN r = 1 .. Len(s) - 1
    BY <2>1, <2>2, <2>3, <2>5
  <2>7. ASSUME NEW k \in 1 .. Len(s) - 1 PROVE r[k] = IF k < i THEN s[k] ELSE s[k + 1]
    <3>1. CASE k < i
      BY <2>1, <2>2, <2>3, <2>5, <3>1
    <3>2. CASE k >= i
      <4>1. k - Len(a) \in 1 .. Len(s) - i /\ k \in 1 .. Len(a) + Len(b) /\ ~(k <= Len(a))
        BY <2>1, <2>2, <2>3, <3>2
      <4> QED
        BY <2>1, <2>2, <2>3, <2>5, <3>2, <4>1
    <3> QED
      BY <2>1, <3>1, <3>2
  <2> QED
    BY <2>1, <2>5, <2>6, <2>7
<1> HIDE DEF r
<1>2. ASSUME IsInjective(s)
      PROVE  /\ \A c : Contains(r, c) <=> Contains(s, c) /\ c # s[i]
             /\ IsInjective(r)
  <2>1. ASSUME NEW c, Contains(r, c) PROVE Contains(s, c) /\ c # s[i]
    <3>1. PICK k \in 1 .. Len(s) - 1 : r[k] = c
      BY <1>1, <2>1 DEF Contains
    <3>2. PICK m \in 1 .. Len(s) : s[m] = c /\ m # i
      BY <1>1, <3>1
    <3> QED
      BY <1>1, <1>2, <3>2 DEF Contains, IsInjective
  <2>2. ASSUME NEW c, Contains(s, c), c # s[i] PROVE Contains(r, c)
    <3>1. PICK m \in 1 .. Len(s) : s[m] = c /\ m # i
      BY <2>2 DEF Contains
    <3>2. CASE m < i
      <4>1. m \in 1 .. Len(s) - 1 /\ r[m] = c
        BY <1>1, <3>1, <3>2
      <4> QED
        BY <1>1, <4>1 DEF Contains
    <3>3. CASE m > i
      <4>1. m - 1 \in 1 .. Len(s) - 1 /\ r[m - 1] = c
        BY <1>1, <3>1, <3>3
      <4> QED
        BY <1>1, <4>1 DEF Contains
    <3> QED
      BY <3>1, <3>2, <3>3
  <2>3. ASSUME NEW j \in 1 .. Len(s) - 1, NEW k \in 1 .. Len(s) - 1, r[j] = r[k]
        PROVE  j = k
    <3>1. PICK a \in 1 .. Len(s) : s[a] = r[j] /\ a = IF j < i THEN j ELSE j + 1
      BY <1>1
    <3>2. PICK b \in 1 .. Len(s) : s[b] = r[k] /\ b = IF k < i THEN k ELSE k + 1
      BY <1>1
    <3>3. a = b
      BY <1>1, <1>2, <2>3, <3>1, <3>2 DEF IsInjective
    <3> QED
      BY <3>1, <3>2, <3>3
  <2> QED
    BY <1>1, <2>1, <2>2, <2>3 DEF IsInjective
<1> QED
  BY <1>1, <1>2 DEF r

------------------------------------------------------------------------------
(* The actions of Next, and what the ones that only move a client's Close, *)
(* a stream or the ticker leave alone.                                     *)

Calm ==
  /\ UNCHANGED <<clients, shutdowns, handlers, userOf, parent, raced>>
  /\ \A c \in ClientIds : (life[c] = "none" <=> life'[c] = "none") /\ (IsLive(c)' => IsLive(c))
  /\ \A g \in Creators :
       \/ pc'[g] = pc[g] /\ wants'[g] = wants[g] /\ using'[g] = using[g]
       \/ /\ pc[g] \in {"idle", "serving"} /\ pc'[g] \in {"idle", "serving"}
          /\ pc'[g] # "idle" => wants'[g] \in Users

LEMMA StepCases ==
  ASSUME RegTypeOK, [Next]_vars
  PROVE  \/ Calm
         \/ \E g \in Creators, u \in Users : Missed(g, u)
         \/ \E g \in Creators, c \in ClientIds : NewClient(g, c)
         \/ \E g \in Creators : Store(g)
         \/ \E g \in Creators : Announce(g)
         \/ Receive
         \/ Sweep
<1>1. ASSUME NEW g \in Creators, NEW u \in Users, Found(g, u) PROVE Calm
  BY <1>1 DEF Calm, Found, IsLive, RegTypeOK, clientVars, handlerVars
<1>2. ASSUME NEW g \in Streams, Disconnect(g) PROVE Calm
  BY <1>2 DEF Calm, Disconnect, CancelChildren, IsLive, RegTypeOK, Creators, handlerVars
<1>3. ASSUME NEW g \in Streams, Return(g) PROVE Calm
  <2>1. g \in Creators
    BY DEF Creators
  <2> QED
    BY <1>3, <2>1 DEF Calm, Return, Leave, CancelChildren, IsLive, RegTypeOK, handlerVars
<1>4. CASE Deliver
  <2>1. App \in Creators
    BY DEF Creators
  <2> QED
    BY <1>4, <2>1 DEF Calm, Deliver, Leave, IsLive, RegTypeOK, clientVars, handlerVars
<1>5. ASSUME NEW c \in ClientIds, Close(c) \/ CloseShutdown(c) \/ CloseActions(c) PROVE Calm
  BY <1>5 DEF Calm, Close, CloseShutdown, CloseActions, CloseStep, IsLive, RegTypeOK, creatorVars, handlerVars
<1>6. CASE Tick
  BY <1>6 DEF Calm, Tick, IsLive, RegTypeOK, clientVars, creatorVars
<1>7. CASE UNCHANGED vars
  BY <1>7 DEF Calm, IsLive, vars, clientVars, creatorVars, handlerVars
<1> QED
  BY <1>1, <1>2, <1>3, <1>4, <1>5, <1>6, <1>7 DEF Next, Create

(* Types. *)
LEMMA TypeStep ==
  ASSUME RegTypeOK, UseInv, [Next]_vars
  PROVE  RegTypeOK'
<1> USE DEF RegTypeOK
<1>1. ASSUME NEW g \in Creators, NEW u \in Users, Found(g, u) PROVE RegTypeOK'
  BY <1>1 DEF Found, clientVars, handlerVars
<1>2. ASSUME NEW g \in Creators, NEW u \in Users, Missed(g, u) PROVE RegTypeOK'
  BY <1>2 DEF Missed, clientVars, handlerVars
<1>3. ASSUME NEW g \in Creators, NEW c \in ClientIds, NewClient(g, c) PROVE RegTypeOK'
  BY <1>3 DEF NewClient, handlerVars
<1>4. ASSUME NEW g \in Creators, Store(g) PROVE RegTypeOK'
  BY <1>4 DEF Store, clientVars, handlerVars
<1>5. ASSUME NEW g \in Creators, Announce(g) PROVE RegTypeOK'
  <2>1. using[g] \in ClientIds
    BY <1>5 DEF Announce, UseInv, Holding
  <2>2. shutdowns' \in Seq(ClientIds) /\ Len(shutdowns') <= ShutdownCap
    BY <1>5, <2>1, AppendFacts, ShutdownCapAssumption DEF Announce
  <2> QED
    BY <1>5, <2>2 DEF Announce, clientVars
<1>6. ASSUME NEW g \in Streams, Disconnect(g) PROVE RegTypeOK'
  BY <1>6 DEF Disconnect, CancelChildren, handlerVars, Creators
<1>7. ASSUME NEW g \in Streams, Return(g) PROVE RegTypeOK'
  <2>1. g \in Creators
    BY DEF Creators
  <2> QED
    BY <1>7, <2>1 DEF Return, Leave, CancelChildren, handlerVars
<1>8. CASE Deliver
  <2>1. App \in Creators
    BY DEF Creators
  <2> QED
    BY <1>8, <2>1 DEF Deliver, Leave, clientVars, handlerVars
<1>9. ASSUME NEW c \in ClientIds, Close(c) \/ CloseShutdown(c) \/ CloseActions(c) PROVE RegTypeOK'
  BY <1>9 DEF Close, CloseShutdown, CloseActions, CloseStep, creatorVars, handlerVars
<1>10. CASE Receive
  <2>1. /\ Head(shutdowns) \in ClientIds /\ Tail(shutdowns) \in Seq(ClientIds)
        /\ Len(Tail(shutdowns)) = Len(shutdowns) - 1 /\ Len(shutdowns) \in Nat
    BY <1>10, TailFacts DEF Receive
  <2>2. Append(handlers, Head(shutdowns)) \in Seq(ClientIds)
    BY <2>1, AppendFacts
  <2>3. handlers' \in Seq(ClientIds) /\ at' \in 0 .. Len(handlers')
    BY <1>10, <2>1, <2>2, AppendFacts DEF Receive
  <2>4. shutdowns' \in Seq(ClientIds) /\ Len(shutdowns') <= ShutdownCap
    BY <1>10, <2>1, ShutdownCapAssumption DEF Receive
  <2> QED
    BY <1>10, <2>3, <2>4 DEF Receive, clientVars, creatorVars
<1>11. CASE Tick
  BY <1>11 DEF Tick, clientVars, creatorVars
<1>12. CASE Sweep
  <2>1. at \in 1 .. Len(handlers) /\ Len(handlers) \in Nat /\ at \in Nat
    BY <1>12 DEF Sweep
  <2>2. /\ RemoveAt(handlers, at) \in Seq(ClientIds)
        /\ Len(RemoveAt(handlers, at)) = Len(handlers) - 1
    BY <2>1, RemoveFacts
  <2>3. clients' \in [Users -> ClientIds \cup {None}]
    BY <1>12 DEF Sweep
  <2>4. handlers' \in Seq(ClientIds) /\ at' \in 0 .. Len(handlers')
    <3>1. CASE IsShut(handlers[at])
      BY <1>12, <2>1, <2>2, <3>1 DEF Sweep
    <3>2. CASE ~IsShut(handlers[at])
      BY <1>12, <2>1, <3>2 DEF Sweep
    <3> QED
      BY <3>1, <3>2
  <2> QED
    BY <1>12, <2>3, <2>4 DEF Sweep, clientVars, creatorVars
<1>13. CASE UNCHANGED vars
  BY <1>13 DEF vars, clientVars, creatorVars, handlerVars
<1> QED
  BY <1>1, <1>2, <1>3, <1>4, <1>5, <1>6, <1>7, <1>8, <1>9, <1>10, <1>11, <1>12, <1>13
  DEF Next, Create

------------------------------------------------------------------------------
(* One lemma per kind of step. *)

LEMMA CalmStep ==
  ASSUME RegInv, RegTypeOK', Calm
  PROVE  RegInv'
<1> USE DEF RegInv, Calm
<1>1. \A g \in Creators :
        (Holding(g)' <=> Holding(g)) /\ (Holding(g) => using'[g] = using[g] /\ wants'[g] = wants[g] /\ pc'[g] = pc[g])
  BY DEF Holding
<1>2. UseInv'
  <2>1. \A g \in Creators : pc'[g] # "idle" => wants'[g] \in Users
    BY DEF UseInv
  <2>2. \A g \in Creators : Holding(g)' =>
          /\ using'[g] \in ClientIds
          /\ parent'[using'[g]] = g
          /\ life'[using'[g]] # "none"
          /\ userOf'[using'[g]] = wants'[g]
    BY <1>1 DEF UseInv
  <2>3. \A c \in ClientIds : life'[c] # "none" => userOf'[c] \in Users
    BY DEF UseInv
  <2>4. \A u \in Users : clients'[u] # None =>
          clients[u] \in ClientIds /\ life'[clients'[u]] # "none" /\ userOf'[clients'[u]] = u
    BY DEF UseInv, RegTypeOK
  <2> QED
    BY <2>1, <2>2, <2>3, <2>4 DEF UseInv
<1>3. TrackInv'
  BY <1>1 DEF TrackInv
<1>4. \A c : Tracked(c)' <=> Tracked(c)
  BY DEF Tracked
<1>5. RegisteredIsTracked'
  BY <1>4 DEF RegisteredIsTracked
<1>6. \A u \in Users : Pending(u)' = Pending(u)
  BY DEF Pending
<1>7. RaceInv'
  BY <1>4, <1>6 DEF RaceInv
<1>8. LiveInv'
  BY <1>4 DEF LiveInv
<1> QED
  BY <1>2, <1>3, <1>5, <1>7, <1>8

LEMMA MissedStep ==
  ASSUME RegInv, RegTypeOK', NEW g \in Creators, NEW u \in Users, Missed(g, u)
  PROVE  RegInv'
<1> USE DEF RegInv
<1>1. /\ pc[g] = "idle" /\ clients[u] = None
      /\ pc'[g] = "missed" /\ wants'[g] = u
      /\ \A h \in Creators : h # g => pc'[h] = pc[h] /\ wants'[h] = wants[h]
      /\ raced' = IF Pending(u) = {} THEN raced ELSE raced \cup {u}
      /\ UNCHANGED <<clients, life, userOf, parent, using, shutdowns, handlers>>
  BY DEF Missed, RegTypeOK, clientVars, handlerVars
<1>2. \A h \in Creators : Holding(h)' <=> Holding(h)
  BY <1>1 DEF Holding
<1>3. UseInv'
  BY <1>1, <1>2 DEF UseInv, Holding
<1>4. TrackInv'
  BY <1>1, <1>2 DEF TrackInv
<1>5. \A c : Tracked(c)' <=> Tracked(c)
  BY <1>1 DEF Tracked
<1>6. RegisteredIsTracked'
  BY <1>1, <1>5 DEF RegisteredIsTracked
<1>7. RaceInv'
  <2>1. \A v \in Users : Pending(v)' \subseteq Pending(v) \cup (IF v = u THEN {g} ELSE {})
    BY <1>1 DEF Pending
  <2>2. \A v \in Users \ raced' : v \in Users \ raced /\ (v = u => Pending(u) = {})
    BY <1>1
  <2>3. \A v \in Users \ raced' : \A h, k \in Pending(v)' : h = k
    BY <2>1, <2>2 DEF RaceInv
  <2>4. \A v \in Users \ raced' : Pending(v)' # {} => clients'[v] = None
    BY <1>1, <2>1, <2>2 DEF RaceInv
  <2>5. \A c \in ClientIds : Tracked(c)' /\ userOf'[c] \notin raced' => clients'[userOf'[c]] = c
    BY <1>1, <1>5 DEF RaceInv
  <2> QED
    BY <2>3, <2>4, <2>5 DEF RaceInv
<1>8. LiveInv'
  BY <1>1, <1>5 DEF LiveInv, IsLive
<1> QED
  BY <1>3, <1>4, <1>6, <1>7, <1>8

LEMMA NewClientStep ==
  ASSUME RegInv, RegTypeOK', NEW g \in Creators, NEW c \in ClientIds, NewClient(g, c)
  PROVE  RegInv'
<1> USE DEF RegInv
<1>1. /\ pc[g] = "missed" /\ life[c] = "none"
      /\ pc'[g] = "made" /\ using'[g] = c
      /\ life'[c] \in {"open", "cancelled"} /\ userOf'[c] = wants[g] /\ parent'[c] = g
      /\ \A h \in Creators : h # g => pc'[h] = pc[h] /\ using'[h] = using[h]
      /\ \A d \in ClientIds : d # c => life'[d] = life[d] /\ userOf'[d] = userOf[d] /\ parent'[d] = parent[d]
      /\ UNCHANGED <<clients, wants, shutdowns, handlers, raced>>
  BY DEF NewClient, RegTypeOK, handlerVars
<1>2. wants[g] \in Users
  BY <1>1 DEF UseInv
<1>3. /\ ~Contains(handlers, c) /\ ~Contains(shutdowns, c)
      /\ \A h \in Creators : Holding(h) => using[h] # c
      /\ \A u \in Users : clients[u] # c
  BY <1>1, NoClientAssumption DEF TrackInv, UseInv
<1>4. \A h \in Creators : h # g => (Holding(h)' <=> Holding(h))
  BY <1>1 DEF Holding
<1>5. UseInv'
  <2>1. \A h \in Creators : pc'[h] # "idle" => wants'[h] \in Users
    BY <1>1, <1>2 DEF UseInv
  <2>2. ASSUME NEW h \in Creators, Holding(h)'
        PROVE  /\ using'[h] \in ClientIds
               /\ parent'[using'[h]] = h
               /\ life'[using'[h]] # "none"
               /\ userOf'[using'[h]] = wants'[h]
    <3>1. CASE h = g
      BY <1>1, <3>1
    <3>2. CASE h # g
      BY <1>1, <1>3, <1>4, <2>2, <3>2 DEF UseInv
    <3> QED
      BY <3>1, <3>2
  <2>3. \A d \in ClientIds : life'[d] # "none" => userOf'[d] \in Users
    BY <1>1, <1>2 DEF UseInv
  <2>4. ASSUME NEW u \in Users, clients'[u] # None
        PROVE  life'[clients'[u]] # "none" /\ userOf'[clients'[u]] = u
    <3>1. clients'[u] = clients[u] /\ clients[u] \in ClientIds /\ clients[u] # c
      BY <1>1, <1>3, <2>4 DEF RegTypeOK
    <3> QED
      BY <1>1, <2>4, <3>1 DEF UseInv
  <2> QED
    BY <2>1, <2>2, <2>3, <2>4 DEF UseInv
<1>6. TrackInv'
  <2>1. \A h \in Creators : Holding(h)' => ~Contains(handlers, using'[h]) /\ ~Contains(shutdowns, using'[h])
    BY <1>1, <1>3, <1>4 DEF TrackInv
  <2>2. \A d \in ClientIds : Contains(handlers, d) \/ Contains(shutdowns, d) => life'[d] # "none"
    BY <1>1 DEF TrackInv
  <2> QED
    BY <1>1, <2>1, <2>2 DEF TrackInv
<1>7. \A d : Tracked(d)' <=> Tracked(d)
  BY <1>1 DEF Tracked
<1>8. ~Tracked(c)
  BY <1>3 DEF Tracked, Holding
<1>9. RegisteredIsTracked'
  BY <1>1, <1>7 DEF RegisteredIsTracked
<1>10. RaceInv'
  <2>1. \A u \in Users : Pending(u)' = Pending(u)
    BY <1>1 DEF Pending
  <2> QED
    BY <1>1, <1>7, <1>8, <2>1 DEF RaceInv
<1>11. LiveInv'
  BY <1>1, <1>7 DEF LiveInv, IsLive
<1> QED
  BY <1>5, <1>6, <1>9, <1>10, <1>11

LEMMA StoreStep ==
  ASSUME RegInv, RegTypeOK', NEW g \in Creators, Store(g)
  PROVE  RegInv'
<1> USE DEF RegInv
<1> DEFINE v == wants[g]
           c == using[g]
<1>1. /\ pc[g] = "made" /\ pc'[g] = "stored"
      /\ \A h \in Creators : h # g => pc'[h] = pc[h]
      /\ v \in Users /\ c \in ClientIds /\ userOf[c] = v /\ life[c] # "none" /\ c # None
      /\ clients'[v] = c
      /\ \A u \in Users : u # v => clients'[u] = clients[u]
      /\ UNCHANGED <<life, userOf, parent, wants, using, shutdowns, handlers, raced>>
  BY NoClientAssumption DEF Store, RegTypeOK, UseInv, Holding, clientVars, handlerVars
<1>2. \A h \in Creators : Holding(h)' <=> Holding(h)
  BY <1>1 DEF Holding
<1>3. UseInv'
  BY <1>1, <1>2 DEF UseInv
<1>4. TrackInv'
  BY <1>1, <1>2 DEF TrackInv
<1>5. \A d : Tracked(d)' <=> Tracked(d) \/ d = c
  BY <1>1 DEF Tracked
<1>6. RegisteredIsTracked'
  BY <1>1, <1>5 DEF RegisteredIsTracked
<1>7. g \in Pending(v) /\ \A u \in Users : Pending(u)' = Pending(u) \ {g}
  BY <1>1 DEF Pending
<1>8. RaceInv'
  <2>1. ASSUME v \notin raced PROVE Pending(v) = {g} /\ clients[v] = None
    BY <1>1, <1>7, <2>1 DEF RaceInv
  <2>2. \A u \in Users \ raced : \A h, k \in Pending(u)' : h = k
    BY <1>7 DEF RaceInv
  <2>3. \A u \in Users \ raced : Pending(u)' # {} => clients'[u] = None
    BY <1>1, <1>7, <2>1 DEF RaceInv
  <2>4. ASSUME NEW d \in ClientIds, Tracked(d)', userOf[d] \notin raced
        PROVE  clients'[userOf[d]] = d
    <3>1. CASE d = c
      BY <1>1, <3>1
    <3>2. CASE d # c
      <4>1. Tracked(d) /\ clients[userOf[d]] = d /\ d # None
        BY <1>5, <2>4, <3>2, NoClientAssumption DEF RaceInv
      <4>2. userOf[d] # v
        BY <2>1, <2>4, <4>1
      <4>3. life[d] # "none"
        BY <4>1 DEF Tracked, TrackInv, UseInv, Holding
      <4>4. userOf[d] \in Users
        BY <4>3 DEF UseInv
      <4> QED
        BY <1>1, <4>1, <4>2, <4>4
    <3> QED
      BY <3>1, <3>2
  <2> QED
    BY <1>1, <2>2, <2>3, <2>4 DEF RaceInv
<1>9. LiveInv'
  BY <1>1, <1>5 DEF LiveInv, IsLive
<1> QED
  BY <1>3, <1>4, <1>6, <1>8, <1>9

LEMMA AnnounceStep ==
  ASSUME RegInv, RegTypeOK', NEW g \in Creators, Announce(g)
  PROVE  RegInv'
<1> USE DEF RegInv
<1> DEFINE c == using[g]
<1>1. /\ pc[g] = "stored" /\ pc'[g] = "serving"
      /\ \A h \in Creators : h # g => pc'[h] = pc[h]
      /\ c \in ClientIds /\ life[c] # "none" /\ parent[c] = g
      /\ UNCHANGED <<clients, life, userOf, parent, wants, using, handlers, raced>>
  BY DEF Announce, RegTypeOK, UseInv, Holding, clientVars
<1>2. /\ ~Contains(handlers, c) /\ ~Contains(shutdowns, c)
      /\ \A h \in Creators : Holding(h) /\ using[h] = c => h = g
  BY <1>1 DEF TrackInv, UseInv, Holding
<1>3. /\ \A d : Contains(shutdowns', d) <=> Contains(shutdowns, d) \/ d = c
      /\ IsInjective(shutdowns')
  <2>1. shutdowns' = Append(shutdowns, c) /\ shutdowns \in Seq(ClientIds) /\ IsInjective(shutdowns)
    BY DEF Announce, RegTypeOK, TrackInv
  <2> QED
    BY <1>1, <1>2, <2>1, AppendFacts
<1>4. \A h \in Creators : Holding(h)' <=> Holding(h) /\ h # g
  BY <1>1 DEF Holding
<1>5. UseInv'
  BY <1>1, <1>4 DEF UseInv
<1>6. TrackInv'
  BY <1>1, <1>2, <1>3, <1>4 DEF TrackInv
<1>7. \A d : Tracked(d)' <=> Tracked(d)
  BY <1>1, <1>3 DEF Tracked
<1>8. RegisteredIsTracked'
  BY <1>1, <1>7 DEF RegisteredIsTracked
<1>9. RaceInv'
  <2>1. \A u \in Users : Pending(u)' = Pending(u)
    BY <1>1 DEF Pending
  <2> QED
    BY <1>1, <1>7, <2>1 DEF RaceInv
<1>10. LiveInv'
  BY <1>1, <1>7 DEF LiveInv, IsLive
<1> QED
  BY <1>5, <1>6, <1>8, <1>9, <1>10

LEMMA ReceiveStep ==
  ASSUME RegInv, RegTypeOK', Receive
  PROVE  RegInv'
<1> USE DEF RegInv
<1> DEFINE c == Head(shutdowns)
<1>1. /\ shutdowns \in Seq(ClientIds) /\ handlers \in Seq(ClientIds) /\ shutdowns # <<>>
      /\ handlers' = Append(handlers, c) /\ shutdowns' = Tail(shutdowns)
      /\ UNCHANGED <<clients, life, userOf, parent, pc, wants, using, raced>>
  BY DEF Receive, RegTypeOK, clientVars, creatorVars
<1>2. /\ c \in ClientIds
      /\ \A d : Contains(shutdowns, d) <=> Contains(shutdowns', d) \/ d = c
      /\ IsInjective(shutdowns') /\ ~Contains(shutdowns', c)
  BY <1>1, TailFacts DEF TrackInv
<1>3. ~Contains(handlers, c)
  BY <1>2 DEF TrackInv
<1>4. /\ \A d : Contains(handlers', d) <=> Contains(handlers, d) \/ d = c
      /\ IsInjective(handlers')
  <2>1. IsInjective(handlers)
    BY DEF TrackInv
  <2> QED
    BY <1>1, <1>2, <1>3, <2>1, AppendFacts
<1>5. \A h \in Creators : Holding(h)' <=> Holding(h)
  BY <1>1 DEF Holding
<1>6. UseInv'
  BY <1>1, <1>5 DEF UseInv
<1>7. TrackInv'
  <2>1. \A h \in Creators : Holding(h) => using[h] # c
    BY <1>2 DEF TrackInv
  <2>2. \A d \in ClientIds : ~(Contains(handlers', d) /\ Contains(shutdowns', d))
    BY <1>2, <1>3, <1>4 DEF TrackInv
  <2>3. \A h \in Creators : Holding(h) => ~Contains(handlers', using[h]) /\ ~Contains(shutdowns', using[h])
    BY <1>2, <1>4, <2>1 DEF TrackInv
  <2>4. \A d \in ClientIds : Contains(handlers', d) \/ Contains(shutdowns', d) => life[d] # "none"
    BY <1>2, <1>4 DEF TrackInv
  <2> QED
    BY <1>1, <1>2, <1>4, <1>5, <2>2, <2>3, <2>4 DEF TrackInv
<1>8. \A d : Tracked(d)' <=> Tracked(d)
  BY <1>1, <1>2, <1>4 DEF Tracked
<1>9. RegisteredIsTracked'
  BY <1>1, <1>8 DEF RegisteredIsTracked
<1>10. RaceInv'
  <2>1. \A u \in Users : Pending(u)' = Pending(u)
    BY <1>1 DEF Pending
  <2> QED
    BY <1>1, <1>8, <2>1 DEF RaceInv
<1>11. LiveInv'
  BY <1>1, <1>8 DEF LiveInv, IsLive
<1> QED
  BY <1>6, <1>7, <1>9, <1>10, <1>11

LEMMA SweepStep ==
  ASSUME RegInv, RegTypeOK', Sweep
  PROVE  RegInv'
<1> USE DEF RegInv
<1> DEFINE c == handlers[at]
<1>1. /\ handlers \in Seq(ClientIds) /\ Len(handlers) \in Nat /\ at \in 1 .. Len(handlers)
      /\ UNCHANGED <<life, userOf, parent, pc, wants, using, shutdowns, raced>>
  BY DEF Sweep, RegTypeOK, clientVars, creatorVars
<1>2. c \in ClientIds /\ Contains(handlers, c)
  BY <1>1 DEF Contains
<1>3. CASE ~IsShut(c)
  <2>1. Calm
    BY <1>1, <1>3 DEF Sweep, Calm, IsLive
  <2> QED
    BY <2>1, CalmStep
<1>4. CASE IsShut(c)
  <2>1. /\ clients' = [clients EXCEPT ![userOf[c]] = None]
        /\ handlers' = RemoveAt(handlers, at)
    BY <1>4 DEF Sweep
  <2>2. /\ \A d : Contains(handlers', d) <=> Contains(handlers, d) /\ d # c
        /\ IsInjective(handlers')
    <3>1. IsInjective(handlers)
      BY DEF TrackInv
    <3> QED
      BY <1>1, <2>1, <3>1, RemoveFacts
  <2>3. userOf[c] \in Users
    BY <1>2, <1>4 DEF IsShut, UseInv
  <2>4. /\ clients'[userOf[c]] = None
        /\ \A u \in Users : u # userOf[c] => clients'[u] = clients[u]
    BY <2>1, <2>3 DEF RegTypeOK
  <2> HIDE DEF c
  <2>5. \A h \in Creators : Holding(h)' <=> Holding(h)
    BY <1>1 DEF Holding
  <2>6. UseInv'
    BY <1>1, <2>4, <2>5 DEF UseInv
  <2>7. TrackInv'
    BY <1>1, <2>2, <2>5 DEF TrackInv
  <2>8. \A d : Tracked(d)' <=> Tracked(d) /\ d # c
    <3>1. ~Contains(shutdowns, c) /\ \A h \in Creators : Holding(h) => using[h] # c
      BY <1>2 DEF TrackInv
    <3> QED
      BY <1>1, <2>2, <3>1 DEF Tracked, Holding
  <2>9. RegisteredIsTracked'
    <3>1. \A u \in Users : clients'[u] # None =>
            /\ clients'[u] = clients[u] /\ Tracked(clients[u]) /\ clients[u] # c
      BY <2>4 DEF RegisteredIsTracked, UseInv
    <3>2. \A u \in Users : clients'[u] # None =>
            /\ \/ Contains(handlers', clients'[u]) \/ Contains(shutdowns', clients'[u])
               \/ \E g \in Creators : pc'[g] = "stored" /\ using'[g] = clients'[u]
      BY <1>1, <2>2, <3>1 DEF Tracked
    <3> QED
      BY <3>2 DEF RegisteredIsTracked, Tracked
  <2>10. RaceInv'
    <3>1. \A u \in Users : Pending(u)' = Pending(u)
      BY <1>1 DEF Pending
    <3>2. \A u \in Users : clients[u] = None => clients'[u] = None
      BY <2>4
    <3>3. ASSUME NEW d \in ClientIds, Tracked(d)', userOf[d] \notin raced
          PROVE  clients'[userOf[d]] = d
      <4>1. Tracked(d) /\ d # c /\ clients[userOf[d]] = d
        BY <2>8, <3>3 DEF RaceInv
      <4>2. Tracked(c)
        BY <1>2 DEF Tracked
      <4>3. userOf[d] # userOf[c]
        BY <1>2, <3>3, <4>1, <4>2 DEF RaceInv
      <4>4. userOf[d] \in Users
        BY <4>1 DEF Tracked, TrackInv, UseInv, Holding
      <4> QED
        BY <2>4, <4>1, <4>3, <4>4
    <3> QED
      BY <1>1, <3>1, <3>2, <3>3 DEF RaceInv
  <2>11. LiveInv'
    BY <1>1, <1>4, <2>8 DEF LiveInv, IsLive, IsShut
  <2> QED
    BY <2>6, <2>7, <2>9, <2>10, <2>11
<1> QED
  BY <1>3, <1>4

------------------------------------------------------------------------------
LEMMA RegInductive == RegInv /\ [Next]_vars => RegInv'
<1> SUFFICES ASSUME RegInv, [Next]_vars PROVE RegInv'
  OBVIOUS
<1>1. RegTypeOK'
  BY TypeStep DEF RegInv
<1> QED
  BY <1>1, StepCases, CalmStep, MissedStep, NewClientStep, StoreStep, AnnounceStep,
     ReceiveStep, SweepStep DEF RegInv

LEMMA RegInitial == Init => RegInv
<1> SUFFICES ASSUME Init PROVE RegInv
  OBVIOUS
<1>1. /\ DOMAIN <<>> = {} /\ <<>> \in Seq(ClientIds) /\ Len(<<>>) = 0
  OBVIOUS
<1>2. \A c : ~Contains(handlers, c) /\ ~Contains(shutdowns, c)
  BY <1>1 DEF Init, Contains
<1>3. RegTypeOK
  <2>1. shutdowns \in Seq(ClientIds) /\ Len(shutdowns) <= ShutdownCap
    BY <1>1, ShutdownCapAssumption DEF Init
  <2>2. handlers \in Seq(ClientIds) /\ at \in 0 .. Len(handlers)
    BY <1>1 DEF Init
  <2> QED
    BY <2>1, <2>2 DEF Init, RegTypeOK
<1>4. UseInv /\ RegisteredIsTracked /\ LiveInv
  BY DEF Init, UseInv, RegisteredIsTracked, LiveInv, Holding, IsLive
<1>5. TrackInv
  BY <1>1, <1>2 DEF Init, TrackInv, IsInjective, Holding
<1>6. RaceInv
  BY <1>2 DEF Init, RaceInv, Pending, Tracked
<1> QED
  BY <1>3, <1>4, <1>5, <1>6 DEF RegInv

(* The registry's inductive invariant (exchange.go: register, close, *)
(* Start) holds in every reachable state, for any clients, names and *)
(* capacity of the event channel.                                    *)
THEOREM RegInvariant == Spec => []RegInv
<1> QED
  BY RegInitial, RegInductive, PTL DEF Spec

(* Users' clients, creators' clients and the handler's lists stay well     *)
(* typed, for any number of streams and clients.                           *)
THEOREM RegTypeCorrect == Spec => []RegTypeOK
<1>1. RegInv => RegTypeOK
  BY DEF RegInv
<1> QED
  BY <1>1, RegInvariant, PTL

(* Whatever GetOrCreateClient calls and sweeps interleave, a client in the *)
(* map is announced to the shutdown handler or about to be.                *)
THEOREM NoUnwatchedClient == Spec => []RegisteredIsTracked
<1>1. RegInv => RegisteredIsTracked
  BY DEF RegInv
<1> QED
  BY <1>1, RegInvariant, PTL

(* Without a race of two lookups a user never has two clients that are not *)
(* closed, however its clients close and are swept.                        *)
THEOREM NoSecondClient == Spec => []OneLiveClient
<1>1. RegInv => OneLiveClient
  <2> SUFFICES ASSUME RegInv, NEW c \in ClientIds, NEW d \in ClientIds,
                      IsLive(c), IsLive(d), userOf[c] = userOf[d], userOf[c] \notin raced
               PROVE  c = d
    BY DEF OneLiveClient
  <2> USE DEF RegInv
  <2>1. userOf[c] \in Users /\ c # None /\ d # None
    BY NoClientAssumption DEF UseInv, IsLive
  <2>2. \A e \in ClientIds, g \in Creators :
          userOf[e] = userOf[c] /\ pc[g] = "made" /\ using[g] = e
            => g \in Pending(userOf[c]) /\ clients[userOf[c]] = None
    BY <2>1 DEF RaceInv, UseInv, Holding, Pending
  <2>3. \A e \in ClientIds : userOf[e] = userOf[c] /\ Tracked(e) => clients[userOf[c]] = e
    BY DEF RaceInv
  <2>4. CASE Tracked(c) \/ Tracked(d)
    BY <2>1, <2>2, <2>3, <2>4 DEF LiveInv
  <2>5. CASE ~Tracked(c) /\ ~Tracked(d)
    <3>1. PICK g \in Creators : pc[g] = "made" /\ using[g] = c
      BY <2>5 DEF LiveInv
    <3>2. PICK h \in Creators : pc[h] = "made" /\ using[h] = d
      BY <2>5 DEF LiveInv
    <3>3. g = h
      BY <2>1, <2>2, <3>1, <3>2 DEF RaceInv
    <3> QED
      BY <3>1, <3>2, <3>3
  <2> QED
    BY <2>4, <2>5
<1> QED
  BY <1>1, RegInvariant, PTL

(* The sweep and the stores never take a client that is not closed out of  *)
(* the map, unless two lookups of its user raced.                          *)
THEOREM LiveClientStays == Spec => []LiveIsRegistered
<1>1. RegInv => LiveIsRegistered
  BY DEF RegInv, LiveIsRegistered, LiveInv, RaceInv
<1> QED
  BY <1>1, RegInvariant, PTL
=============================================================================
