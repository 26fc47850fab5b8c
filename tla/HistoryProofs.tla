--------------------------- MODULE HistoryProofs ---------------------------
(***************************************************************************)
(* Proofs about History, for any files, offsets and widths.                *)
(*                                                                         *)
(* The player: its invariant ties its state to the index of the next row;  *)
(* lastState is the row delivered last, unless that was the first one, and *)
(* a row is offered only when it is not the last.                          *)
(*                                                                         *)
(* The parser: its invariant says that what is left of the file are the    *)
(* lines after some number n, that the lines up to n are as wide as the    *)
(* header, and that the slice has, in their order, those of them that are  *)
(* at or after the offset, each cell in the field of its column.           *)
(***************************************************************************)
EXTENDS History, DataLemmas

(* What every step keeps of the slice, and how far the listener is. *)
IndexInv ==
  /\ \E S : data \in Seq(S)
  /\ idx \in 0 .. Len(data)
  /\ listener \in {"first", "tick", "send", "closed"}
  /\ loop \in {"first", "select", "match", "away", "gone"}
  /\ feed \in BOOLEAN /\ ended \in BOOLEAN
  /\ phase \in {"parse", "serve", "refused", "crashed"}
  /\ phase = "parse" => idx = 0 /\ listener = "first"
  /\ idx = 0 => loop \in {"first", "gone"} /\ listener \in {"first", "closed"}
  /\ listener = "first" => idx = 0
  /\ loop = "first" => idx = 0
  /\ listener = "send" => idx # Len(data) - 1
  /\ listener = "closed" => ended \/ idx = Len(data) - 1

StateInv ==
  /\ lastState = IF idx <= 1 THEN 0 ELSE idx
  /\ idx > 1 => idx < Len(data)
  /\ loop = "match" => lastState > 1

MatchInv ==
  /\ matched \in Seq(Int)
  /\ \A i, j \in DOMAIN matched : i < j => matched[i] < matched[j]
  /\ \A i \in DOMAIN matched : matched[i] \in 2 .. lastState
  /\ loop = "match" => \A i \in DOMAIN matched : matched[i] < lastState

ToldInv ==
  told # -1 => loop = "gone" /\ listener = "closed" /\ told = lastState /\ idx > 0

HistoryInv == IndexInv /\ StateInv /\ MatchInv /\ ToldInv

------------------------------------------------------------------------------
(* The length and the type of a sequence that gets one element more. *)
LEMMA Lengths ==
  ASSUME NEW S, NEW s \in Seq(S), NEW e
  PROVE  /\ Len(s) \in Nat /\ DOMAIN s = 1 .. Len(s)
         /\ \E T : Append(s, e) \in Seq(T)
         /\ Len(Append(s, e)) = Len(s) + 1
<1>1. s \in Seq(S \cup {e}) /\ Len(s) \in Nat /\ DOMAIN s = 1 .. Len(s)
  OBVIOUS
<1>2. Append(s, e) \in Seq(S \cup {e}) /\ Len(Append(s, e)) = Len(s) + 1
  BY <1>1
<1> QED
  BY <1>1, <1>2

(* The player's invariant holds at the start. *)
LEMMA InitHistory == Init => HistoryInv
<1> SUFFICES ASSUME Init PROVE HistoryInv
  OBVIOUS
<1>1. data \in Seq({}) /\ Len(data) = 0 /\ matched \in Seq(Int) /\ DOMAIN matched = {}
  BY DEF Init
<1>2. IndexInv
  <2>1. \E S : data \in Seq(S)
    BY <1>1
  <2>2. idx = 0 /\ 0 \in 0 .. Len(data)
    BY <1>1 DEF Init
  <2> QED
    BY <2>1, <2>2 DEF Init, IndexInv
<1>3. StateInv /\ MatchInv /\ ToldInv
  BY <1>1 DEF Init, StateInv, MatchInv, ToldInv
<1> QED
  BY <1>2, <1>3 DEF HistoryInv

(* The parser's steps leave the player where it begins. *)
LEMMA ParseStep ==
  ASSUME HistoryInv, Parse
  PROVE  HistoryInv'
<1> USE DEF HistoryInv, IndexInv, parseVars, playVars
<1>1. PICK S : data \in Seq(S)
  OBVIOUS
<1>2. UNCHANGED playVars /\ phase = "parse"
  BY DEF Parse, ScanRow, ScanEnds, ScanPanics, OpenFails
<1>3. phase' \in {"parse", "serve", "refused", "crashed"}
  BY DEF Parse, ScanRow, ScanEnds, ScanPanics, OpenFails
<1>4. data' = data \/ \E e : data' = Append(data, e)
  BY DEF Parse, ScanRow, ScanEnds, ScanPanics, OpenFails
<1>5. (\E T : data' \in Seq(T)) /\ Len(data) \in Nat /\ Len(data') \in Nat
  BY <1>1, <1>4, Lengths
<1>6. IndexInv'
  BY <1>2, <1>3, <1>5
<1>7. StateInv' /\ MatchInv' /\ ToldInv'
  BY <1>2, <1>5 DEF StateInv, MatchInv, ToldInv
<1> QED
  BY <1>6, <1>7

(* The counters of the player are naturals. *)
LEMMA PlayTypes ==
  ASSUME HistoryInv, phase = "serve"
  PROVE  Len(data) \in Nat /\ idx \in Nat /\ idx <= Len(data) /\ lastState \in Nat
<1>1. PICK S : data \in Seq(S)
  BY DEF HistoryInv, IndexInv
<1> QED
  BY <1>1, Lengths DEF HistoryInv, IndexInv, StateInv

(* Each step of the player keeps the index in the slice. *)
LEMMA IndexStep ==
  ASSUME HistoryInv, Next, ~Parse
  PROVE  IndexInv'
<1> USE DEF Serving, parseVars, playVars, HistoryInv, IndexInv
<1>1. phase = "serve" /\ data' = data /\ Len(data) \in Nat
  BY PlayTypes DEF Next, ReadPanics, Listen, Exchange, Control, StaysAway, ContextEnds, FirstState, Tick,
       ListenerStops, Receive, SendFails, Match, StatesEnd, ContextDone
<1>2. CASE ReadPanics \/ Control \/ StaysAway \/ ContextEnds
  BY <1>1, <1>2 DEF ReadPanics, Control, StaysAway, ContextEnds
<1>3. CASE FirstState
  BY <1>1, <1>3 DEF FirstState
<1>4. CASE Tick \/ ListenerStops
  BY <1>1, <1>4 DEF Tick, ListenerStops, AtEnd
<1>5. CASE Receive
  BY <1>1, <1>5 DEF Receive
<1>6. CASE SendFails \/ Match \/ StatesEnd \/ ContextDone
  BY <1>1, <1>6 DEF SendFails, Match, StatesEnd, ContextDone, StateInv
<1> QED
  BY <1>2, <1>3, <1>4, <1>5, <1>6 DEF Next, Listen, Exchange

(* Each step of the player keeps lastState the row delivered last. *)
LEMMA StateStep ==
  ASSUME HistoryInv, Next, ~Parse
  PROVE  StateInv'
<1> USE DEF Serving, parseVars, playVars, StateInv
<1>1. phase = "serve" /\ data' = data /\ Len(data) \in Nat /\ idx \in Nat /\ lastState \in Nat
  BY PlayTypes DEF Next, ReadPanics, Listen, Exchange, Control, StaysAway, ContextEnds, FirstState, Tick,
       ListenerStops, Receive, SendFails, Match, StatesEnd, ContextDone
<1>2. CASE FirstState
  BY <1>1, <1>2 DEF FirstState, HistoryInv, IndexInv
<1>3. CASE Receive
  <2>1. listener = "send" /\ idx # Len(data) - 1 /\ idx < Len(data) /\ idx > 0
    BY <1>3 DEF Receive, HistoryInv, IndexInv
  <2>2. idx' = idx + 1 /\ lastState' = idx + 1 /\ idx + 1 < Len(data) /\ idx + 1 > 1
    BY <1>1, <1>3, <2>1 DEF Receive
  <2> QED
    BY <1>1, <2>2
<1>4. CASE ReadPanics \/ Control \/ StaysAway \/ ContextEnds \/ Tick \/ ListenerStops
  BY <1>1, <1>4 DEF ReadPanics, Control, StaysAway, ContextEnds, Tick, ListenerStops, HistoryInv
<1>5. CASE SendFails \/ Match \/ StatesEnd \/ ContextDone
  BY <1>1, <1>5 DEF SendFails, Match, StatesEnd, ContextDone, HistoryInv
<1> QED
  BY <1>2, <1>3, <1>4, <1>5 DEF Next, Listen, Exchange

(* Each step of the player matches rows in their order. *)
LEMMA MatchStep ==
  ASSUME HistoryInv, Next, ~Parse
  PROVE  MatchInv'
<1> USE DEF Serving, parseVars, playVars, MatchInv
<1>1. /\ phase = "serve" /\ idx \in Nat /\ lastState \in Nat
      /\ matched \in Seq(Int) /\ MatchInv
  BY PlayTypes DEF Next, ReadPanics, Listen, Exchange, Control, StaysAway, ContextEnds, FirstState, Tick,
       ListenerStops, Receive, SendFails, Match, StatesEnd, ContextDone, HistoryInv
<1>2. CASE Receive
  <2>1. /\ lastState' = idx + 1 /\ matched' = matched
        /\ lastState <= idx
    BY <1>1, <1>2 DEF Receive, HistoryInv, StateInv
  <2> QED
    BY <1>1, <2>1
<1>3. CASE Match
  <2>1. /\ matched' = Append(matched, lastState) /\ lastState' = lastState /\ lastState > 1
        /\ loop' = "select" /\ \A i \in DOMAIN matched : matched[i] < lastState
    BY <1>1, <1>3 DEF Match, HistoryInv, StateInv
  <2>2. /\ matched' \in Seq(Int) /\ Len(matched) \in Nat /\ DOMAIN matched = 1 .. Len(matched)
        /\ DOMAIN matched' = 1 .. Len(matched) + 1
        /\ \A i \in 1 .. Len(matched) : matched'[i] = matched[i]
        /\ matched'[Len(matched) + 1] = lastState
    BY <1>1, <2>1
  <2>3. \A i, j \in DOMAIN matched' : i < j => matched'[i] < matched'[j]
    BY <1>1, <2>1, <2>2
  <2>4. \A i \in DOMAIN matched' : matched'[i] \in 2 .. lastState
    BY <1>1, <2>1, <2>2
  <2> QED
    BY <2>1, <2>2, <2>3, <2>4
<1>4. CASE FirstState
  BY <1>1, <1>4 DEF FirstState
<1>5. CASE ReadPanics \/ Control \/ StaysAway \/ ContextEnds \/ Tick \/ ListenerStops
  BY <1>1, <1>5 DEF ReadPanics, Control, StaysAway, ContextEnds, Tick, ListenerStops
<1>6. CASE SendFails \/ StatesEnd \/ ContextDone
  BY <1>1, <1>6 DEF SendFails, StatesEnd, ContextDone
<1> QED
  BY <1>2, <1>3, <1>4, <1>5, <1>6 DEF Next, Listen, Exchange

(* The subscriber is told once, at the end. *)
LEMMA ToldStep ==
  ASSUME HistoryInv, Next, ~Parse
  PROVE  ToldInv'
<1> USE DEF Serving, parseVars, playVars, ToldInv, HistoryInv
<1>1. phase = "serve" /\ idx \in Nat
  BY PlayTypes DEF Next, ReadPanics, Listen, Exchange, Control, StaysAway, ContextEnds, FirstState, Tick,
       ListenerStops, Receive, SendFails, Match, StatesEnd, ContextDone
<1>2. CASE FirstState \/ Tick \/ ListenerStops \/ Receive
  BY <1>2 DEF FirstState, Tick, ListenerStops, Receive
<1>3. CASE ReadPanics \/ Control \/ StaysAway \/ ContextEnds
  BY <1>3 DEF ReadPanics, Control, StaysAway, ContextEnds
<1>4. CASE StatesEnd
  BY <1>1, <1>4 DEF StatesEnd, IndexInv
<1>5. CASE SendFails \/ Match \/ ContextDone
  BY <1>5 DEF SendFails, Match, ContextDone
<1> QED
  BY <1>2, <1>3, <1>4, <1>5 DEF Next, Listen, Exchange

(* The player's invariant holds in every reachable state. *)
LEMMA HistoryInvariant == Spec => []HistoryInv
<1>1. HistoryInv /\ UNCHANGED vars => HistoryInv'
  BY DEF vars, parseVars, playVars, HistoryInv, IndexInv, StateInv, MatchInv, ToldInv
<1>2. HistoryInv /\ Next => HistoryInv'
  BY ParseStep, IndexStep, StateStep, MatchStep, ToldStep DEF HistoryInv
<1> QED
  BY <1>1, <1>2, InitHistory, PTL DEF Spec

------------------------------------------------------------------------------
(* The player's state is well typed and never ahead of the slice. *)
THEOREM HistoryTypeCorrect == Spec => []HistoryTypeOK
<1>1. HistoryInv => HistoryTypeOK
  BY DEF HistoryInv, IndexInv, StateInv, MatchInv, ToldInv, HistoryTypeOK
<1> QED
  BY <1>1, HistoryInvariant, PTL

(* A row is matched at most once, in the order of the history, and neither *)
(* the first nor the last one ever, for any file.                          *)
THEOREM RowsMatchedInOrder == Spec => []MatchedInOrder
<1>1. HistoryInv => MatchedInOrder
  BY DEF HistoryInv, IndexInv, StateInv, MatchInv, MatchedInOrder
<1> QED
  BY <1>1, HistoryInvariant, PTL

(* The subscriber is told the price of the row delivered last, which is    *)
(* the last but one of the history unless the context ended.               *)
THEOREM EndPriceIsLast == Spec => []ToldLastPrice
<1>1. HistoryInv => ToldLastPrice
  BY DEF HistoryInv, IndexInv, StateInv, ToldInv, ToldLastPrice
<1> QED
  BY <1>1, HistoryInvariant, PTL

------------------------------------------------------------------------------
(* The parser. *)

(* Byte by byte, the reader finds the parts between the separators. *)
THEOREM CellsAreParts ==
  ASSUME NEW B, NEW line \in Seq(B)
  PROVE  Cells(line) = Parts(line, Separator)
<1> DEFINE n == Len(line)
           S == DOMAIN line
           V == Seq(Seq(B)) \ {<<>>}
           first == [s \in SUBSET S |-> Max(s)]
           op == [x \in S |-> [v \in V |-> IF line[x] = Separator
                                             THEN Append(v, <<>>)
                                             ELSE [v EXCEPT ![Len(v)] = Append(@, line[x])]]]
           Equation(f) == f = [s \in SUBSET S |->
                                 IF s = {} THEN << <<>> >>
                                 ELSE LET x == Max(s)
                                      IN  IF line[x] = Separator
                                            THEN Append(f[s \ {x}], <<>>)
                                            ELSE [f[s \ {x}] EXCEPT ![Len(f[s \ {x}])] = Append(@, line[x])]]
           cells == CHOOSE f : Equation(f)
<1>1. n \in Nat /\ S = 1 .. n /\ IsFiniteSet(S) /\ \A i \in S : line[i] \in B
  <2>1. n \in Nat /\ S = 1 .. n
    OBVIOUS
  <2> QED
    BY <2>1, FS_Interval
<1>2. Cells(line) = cells[S]
  BY DEF Cells, FoldLeft, MapThenFoldSet
<1>3. TakesFrom(first, S)
  <2> SUFFICES ASSUME NEW s \in SUBSET S, s # {} PROVE first[s] \in s
    BY DEF TakesFrom
  <2>1. s \in SUBSET Int /\ IsFiniteSet(s)
    BY <1>1, FS_Subset
  <2> QED
    BY <2>1, MaxFacts
<1>4. StepsIn(op, S, V)
  <2> SUFFICES ASSUME NEW x \in S, NEW v \in V
               PROVE  op[x][v] \in V
    BY DEF StepsIn
  <2>1. v \in Seq(Seq(B)) /\ Len(v) \in 1 .. Len(v) /\ line[x] \in B
    BY <1>1, EmptySeq
  <2>2. Append(v, <<>>) \in V
    BY <2>1
  <2> DEFINE c == Append(v[Len(v)], line[x])
  <2>3. c \in Seq(B)
    BY <2>1
  <2> HIDE DEF c
  <2>4. /\ [v EXCEPT ![Len(v)] = c] \in Seq(Seq(B))
        /\ Len([v EXCEPT ![Len(v)] = c]) = Len(v)
    BY <2>1, <2>3, ExceptSeq
  <2>5. [v EXCEPT ![Len(v)] = c] \in V
    BY <2>1, <2>4
  <2>6. op[x][v] = IF line[x] = Separator THEN Append(v, <<>>)
                                         ELSE [v EXCEPT ![Len(v)] = c]
    BY DEF c
  <2> HIDE DEF op, V
  <2> QED
    BY <2>2, <2>5, <2>6
<1>5. PICK g \in [SUBSET S -> V] : Recurs(g, S, << <<>> >>, first, op)
  <2>1. << <<>> >> \in V
    OBVIOUS
  <2> HIDE DEF first, op, V, S
  <2> QED
    BY <1>1, <1>3, <1>4, <2>1, SetRecursion, Zenon
<1>6. Equation(g)
  <2>1. \A s \in SUBSET S : s # {} =>
          first[s] \in S /\ first[s] = Max(s) /\ g[s \ {first[s]}] \in V
    BY <1>3 DEF TakesFrom
  <2>2. \A s \in SUBSET S : s # {} =>
          op[first[s]][g[s \ {first[s]}]] =
            IF line[first[s]] = Separator
              THEN Append(g[s \ {first[s]}], <<>>)
              ELSE [g[s \ {first[s]}] EXCEPT ![Len(g[s \ {first[s]}])] = Append(@, line[first[s]])]
    <3> HIDE DEF first, V
    <3> QED
      BY <2>1
  <2>3. \A s \in SUBSET S : g[s] =
          IF s = {} THEN << <<>> >>
          ELSE LET x == Max(s)
               IN  IF line[x] = Separator
                     THEN Append(g[s \ {x}], <<>>)
                     ELSE [g[s \ {x}] EXCEPT ![Len(g[s \ {x}])] = Append(@, line[x])]
    <3> HIDE DEF op, first, V
    <3> QED
      BY <1>5, <2>1, <2>2 DEF Recurs
  <2> HIDE DEF op, first, V
  <2> QED
    BY <1>5, <2>3
<1>7. Equation(cells)
  <2> HIDE DEF Equation
  <2> QED
    BY <1>6, Zenon
<1> HIDE DEF cells
<1>8. /\ cells[{}] = << <<>> >>
      /\ \A s \in SUBSET S : s # {} =>
           cells[s] = IF line[Max(s)] = Separator
                        THEN Append(cells[s \ {Max(s)}], <<>>)
                        ELSE [cells[s \ {Max(s)}] EXCEPT ![Len(cells[s \ {Max(s)}])] = Append(@, line[Max(s)])]
  BY <1>7
<1> HIDE DEF Equation, first, op, V
<1> DEFINE Read == {k \in Nat : k <= n => cells[1 .. k] = Parts(SubSeq(line, 1, k), Separator)}
<1>9. 0 \in Read
  <2>1. 1 .. 0 = {} /\ SubSeq(line, 1, 0) = <<>>
    BY SubSeqEmpty
  <2>2. <<>> \in Seq(B) /\ \A i \in DOMAIN <<>> : FALSE
    OBVIOUS
  <2>3. Parts(<<>>, Separator) = << <<>> >>
    BY <2>2, PartsWhole
  <2> QED
    BY <1>8, <2>1, <2>3
<1>10. ASSUME NEW k \in Nat, k \in Read
       PROVE  k + 1 \in Read
  <2> SUFFICES ASSUME k + 1 <= n
               PROVE  cells[1 .. k + 1] = Parts(SubSeq(line, 1, k + 1), Separator)
    OBVIOUS
  <2> DEFINE prefix == SubSeq(line, 1, k)
             b == line[k + 1]
             s == 1 .. k + 1
  <2>1. k + 1 \in S /\ b \in B /\ s \in SUBSET S /\ s # {}
    BY <1>1
  <2>2. Max(s) = k + 1
    <3>1. s \in SUBSET Int /\ IsFiniteSet(s) /\ k + 1 \in s
      BY <1>1, <2>1, FS_Subset
    <3>2. Max(s) \in s /\ k + 1 <= Max(s)
      BY <2>1, <3>1, MaxFacts
    <3> QED
      BY <3>2
  <2>3. s \ {k + 1} = 1 .. k
    OBVIOUS
  <2>4. prefix \in Seq(B) /\ SubSeq(line, 1, k + 1) = Append(prefix, b)
    <3>1. prefix \in Seq(B) /\ Len(prefix) = k /\ \A i \in 1 .. k : prefix[i] = line[i]
      BY <1>1
    <3> DEFINE t == SubSeq(line, 1, k + 1)
               u == Append(prefix, b)
    <3>2. t \in Seq(B) /\ Len(t) = k + 1 /\ \A i \in 1 .. k + 1 : t[i] = line[i]
      BY <1>1
    <3> HIDE DEF prefix
    <3>3. u \in Seq(B) /\ Len(u) = k + 1 /\ u[k + 1] = b /\ \A i \in 1 .. k : u[i] = prefix[i]
      BY <2>1, <3>1
    <3> HIDE DEF t, u
    <3>4. \A i \in 1 .. Len(t) : t[i] = u[i]
      <4> SUFFICES ASSUME NEW i \in 1 .. k + 1 PROVE t[i] = u[i]
        BY <3>2
      <4>1. i = k + 1 \/ i \in 1 .. k
        OBVIOUS
      <4> QED
        BY <3>1, <3>2, <3>3, <4>1
    <3>5. t = u
      BY <3>2, <3>3, <3>4, SeqEqual
    <3> QED
      BY <3>1, <3>5 DEF t, u
  <2> HIDE DEF prefix
  <2>5. Parts(Append(prefix, b), Separator) =
          IF b = Separator
            THEN Append(Parts(prefix, Separator), <<>>)
            ELSE [Parts(prefix, Separator) EXCEPT ![Len(Parts(prefix, Separator))] = Append(@, b)]
    <3> HIDE DEF b
    <3> QED
      BY <2>1, <2>4, PartsAppend
  <2>6. cells[1 .. k] = Parts(prefix, Separator)
    BY <1>10 DEF prefix
  <2>7. cells[s] = IF b = Separator
                     THEN Append(cells[1 .. k], <<>>)
                     ELSE [cells[1 .. k] EXCEPT ![Len(cells[1 .. k])] = Append(@, b)]
    <3> HIDE DEF s
    <3> QED
      BY <1>8, <2>1, <2>2, <2>3
  <2> HIDE DEF s, b
  <2> QED
    BY <2>4, <2>5, <2>6, <2>7 DEF s
<1>11. \A k \in Nat : k \in Read
  <2> HIDE DEF Read
  <2> QED
    BY <1>9, <1>10, NatSetInduction
<1>12. SubSeq(line, 1, n) = line
  BY SubSeqFull
<1>13. cells[1 .. n] = Parts(SubSeq(line, 1, n), Separator)
  <2> HIDE DEF n
  <2>1. n \in Nat /\ n <= n
    BY <1>1
  <2> QED
    BY <1>11, <2>1
<1> HIDE DEF n, S
<1>14. cells[S] = cells[1 .. n]
  BY <1>1
<1> QED
  BY <1>2, <1>12, <1>13, <1>14

(* Reading a line takes the first of the lines that are left. *)
LEMMA LinesAdvance ==
  ASSUME NEW B, NEW text \in Seq(B), NEW all \in Seq(Seq(B)), NEW n \in 0 .. Len(all),
         Lines(text) = SubSeq(all, n + 1, Len(all))
  PROVE  /\ text = <<>> => n = Len(all)
         /\ text # <<>> => /\ n + 1 \in 1 .. Len(all)
                           /\ all[n + 1] = Line(text)
                           /\ Lines(AfterLine(text)) = SubSeq(all, n + 2, Len(all))
<1> DEFINE m == Len(all) - n
           left == SubSeq(all, n + 1, Len(all))
<1>1. /\ left \in Seq(Seq(B)) /\ Len(left) = m /\ m \in Nat /\ Len(all) \in Nat
      /\ \A i \in 1 .. m : left[i] = all[n + i]
  OBVIOUS
<1> HIDE DEF left
<1>2. ASSUME text = <<>>
      PROVE  n = Len(all)
  <2>1. left = <<>>
    BY <1>2, LinesOfNothing DEF left
  <2> QED
    BY <1>1, <2>1
<1>3. ASSUME text # <<>>
      PROVE  /\ n + 1 \in 1 .. Len(all)
             /\ all[n + 1] = Line(text)
             /\ Lines(AfterLine(text)) = SubSeq(all, n + 2, Len(all))
  <2> DEFINE line == Line(text)
             rest == Lines(AfterLine(text))
             tail == SubSeq(all, n + 2, Len(all))
  <2>1. line \in Seq(B) /\ AfterLine(text) \in Seq(B)
    BY LineFacts
  <2>2. rest \in Seq(Seq(B))
    BY <2>1, LinesType
  <2>3. left = <<line>> \o rest
    BY <1>3, LinesStep DEF left
  <2> HIDE DEF line, rest
  <2>4. /\ Len(left) = 1 + Len(rest) /\ Len(rest) \in Nat /\ left[1] = line
        /\ \A i \in 1 .. Len(rest) : left[i + 1] = rest[i]
    BY <2>1, <2>2, <2>3
  <2>5. n + 1 \in 1 .. Len(all) /\ Len(rest) = m - 1 /\ 1 \in 1 .. m
    <3>1. Len(left) = m /\ m \in Nat /\ Len(left) = 1 + Len(rest) /\ Len(rest) \in Nat
      BY <1>1, <2>4
    <3>2. m >= 1 /\ Len(rest) = m - 1
      <4> HIDE DEF m
      <4> QED
        BY <3>1
    <3>3. n \in Nat /\ n + 1 <= Len(all)
      BY <1>1, <3>2
    <3> QED
      BY <1>1, <3>2, <3>3
  <2>6. /\ tail \in Seq(Seq(B)) /\ Len(tail) = m - 1
        /\ \A i \in 1 .. m - 1 : tail[i] = all[n + i + 1]
    <3> DEFINE k == n + 1
    <3>1. k \in 0 .. Len(all) /\ k + 1 = n + 2 /\ Len(all) - k = m - 1
      BY <1>1, <2>5
    <3>2. \A i \in 1 .. m - 1 : k + i = n + i + 1
      BY <1>1
    <3> HIDE DEF k, m
    <3>3. /\ SubSeq(all, k + 1, Len(all)) \in Seq(Seq(B))
          /\ Len(SubSeq(all, k + 1, Len(all))) = Len(all) - k
          /\ \A i \in 1 .. Len(all) - k : SubSeq(all, k + 1, Len(all))[i] = all[k + i]
      BY <3>1
    <3> QED
      BY <3>1, <3>2, <3>3
  <2> HIDE DEF tail
  <2>7. \A i \in 1 .. Len(rest) : rest[i] = tail[i]
    <3> SUFFICES ASSUME NEW i \in 1 .. m - 1 PROVE rest[i] = tail[i]
      BY <2>5
    <3>1. i + 1 \in 1 .. m /\ n + (i + 1) = n + i + 1
      BY <1>1
    <3> QED
      BY <1>1, <2>4, <2>5, <2>6, <3>1
  <2>8. rest = tail
    BY <2>2, <2>5, <2>6, <2>7, SeqEqual
  <2> QED
    BY <1>1, <2>4, <2>5, <2>8 DEF line, rest, tail
<1> QED
  BY <1>2, <1>3

------------------------------------------------------------------------------
(* What the parser has read, by the records of the file. *)
Bytes == 0 .. 255

RowOf(i) == ParseRow([f \in Fields |-> Cell(Records[i], f)])

(* The records before and with the n-th that are played. *)
Played(n) == {i \in 1 .. n : Plays(RowOf(i))}

Collected(n) ==
  /\ Len(data) = Cardinality(Played(n))
  /\ \A i \in Played(n) : data[Cardinality({j \in Played(n) : j <= i})] = RowOf(i)

FullUpTo(n) ==
  /\ n \in 0 .. Len(Records)
  /\ \A i \in 1 .. n : Len(Records[i]) = Width

ReadUpTo(n) == FullUpTo(n) /\ (Named => Collected(n))

LeftAfter(n) ==
  LET lines == Lines(file.body) IN Lines(current) = SubSeq(lines, n + 1, Len(lines))

EndsAfter(n) == n = Len(Records) \/ Len(Records[n + 1]) < Width

Caused ==
  \/ \E i \in DOMAIN Records : Len(Records[i]) > Width
  \/ ~Named
  \/ \E i \in DOMAIN GoodRecords : Len(Cell(GoodRecords[i], "close")) < Cut
  \/ Len(data) < 2

ParsingInv ==
  /\ file \in Files /\ current \in Seq(Bytes)
  /\ phase = "parse" => \E n \in Nat : ReadUpTo(n) /\ LeftAfter(n)
  /\ phase = "serve" => \E n \in Nat : ReadUpTo(n) /\ EndsAfter(n)
  /\ phase = "crashed" => Caused

(* The records of a file are the cells of its lines, one per line. *)
LEMMA RecordsFacts ==
  ASSUME file \in Files
  PROVE  /\ file.header \in Seq(STRING) /\ Width \in Nat /\ DOMAIN file.header = 1 .. Width
         /\ file.body \in Seq(Bytes)
         /\ Lines(file.body) \in Seq(Seq(Bytes))
         /\ Len(Records) = Len(Lines(file.body)) /\ Len(Records) \in Nat
         /\ DOMAIN Records = 1 .. Len(Records)
         /\ \A i \in 1 .. Len(Records) :
              /\ Records[i] = Parts(Lines(file.body)[i], Separator)
              /\ Len(Records[i]) \in Nat /\ DOMAIN Records[i] = 1 .. Len(Records[i])
<1> DEFINE L == Lines(file.body)
           R == [i \in DOMAIN L |-> Parts(L[i], Separator)]
<1>1. file.header \in Seq(STRING) /\ Width \in Nat /\ DOMAIN file.header = 1 .. Width
  <2>1. file.header \in Seq(STRING)
    BY FilesAssumption
  <2> QED
    BY <2>1 DEF Width
<1>2. file.body \in Seq(Bytes)
  BY FilesAssumption DEF Bytes
<1>3. L \in Seq(Seq(Bytes))
  BY <1>2, LinesType
<1> HIDE DEF L
<1>4. Len(L) \in Nat /\ DOMAIN L = 1 .. Len(L) /\ \A i \in 1 .. Len(L) : L[i] \in Seq(Bytes)
  BY <1>3
<1>5. ASSUME NEW i \in 1 .. Len(L)
      PROVE  Parts(L[i], Separator) \in Seq(Seq(Bytes))
  <2> DEFINE line == L[i]
  <2>1. line \in Seq(Bytes)
    BY <1>4
  <2> HIDE DEF line
  <2>2. ByRank(Parts(line, Separator), Ends(line, Separator), line, Bytes)
    BY <2>1, PartsByRank, Zenon
  <2> QED
    BY <2>2 DEF ByRank, line
<1>6. R \in [1 .. Len(L) -> Seq(Seq(Bytes))] /\ \A i \in 1 .. Len(L) : R[i] = Parts(L[i], Separator)
  BY <1>4, <1>5
<1>7. Records = R
  BY DEF Records, L
<1> HIDE DEF R
<1>8. R \in Seq(Seq(Seq(Bytes))) /\ Len(R) = Len(L)
  BY <1>4, <1>6, TupleOfFunction
<1>9. \A i \in 1 .. Len(L) : R[i] \in Seq(Seq(Bytes))
  BY <1>6
<1>10. \A i \in 1 .. Len(L) : Len(R[i]) \in Nat /\ DOMAIN R[i] = 1 .. Len(R[i])
  BY <1>9
<1> QED
  BY <1>1, <1>2, <1>3, <1>4, <1>6, <1>7, <1>8, <1>10 DEF L

(* The good records are the first ones. *)
LEMMA GoodFacts ==
  ASSUME file \in Files
  PROVE  \E m \in 0 .. Len(Records) :
           /\ \A i \in 1 .. m : Len(Records[i]) >= Width
           /\ m < Len(Records) => Len(Records[m + 1]) < Width
           /\ DOMAIN GoodRecords = 1 .. m
           /\ \A i \in 1 .. m : GoodRecords[i] = Records[i]
<1> DEFINE N == Len(Records)
           short == {i \in DOMAIN Records : Len(Records[i]) < Width}
           S == short \cup {N + 1}
           m == Min(S) - 1
           good == SubSeq(Records, 1, m)
<1>1. /\ N \in Nat /\ DOMAIN Records = 1 .. N /\ Width \in Nat
      /\ \A i \in 1 .. N : Len(Records[i]) \in Nat
  BY RecordsFacts
<1>2. S \in SUBSET Nat /\ S # {}
  BY <1>1
<1>3. Min(S) \in S /\ \A i \in S : Min(S) <= i
  <2> HIDE DEF S
  <2> QED
    BY <1>2, MinFacts
<1>4. GoodRecords = good
  BY DEF GoodRecords
<1> HIDE DEF good
<1>5. m \in 0 .. N /\ Min(S) = m + 1
  BY <1>1, <1>3
<1>6. \A i \in 1 .. m : Len(Records[i]) >= Width
  <2> TAKE i \in 1 .. m
  <2>1. i \in 1 .. N /\ ~(Min(S) <= i)
    BY <1>1, <1>5
  <2>2. i \notin S
    BY <1>3, <2>1
  <2>3. ~(Len(Records[i]) < Width)
    BY <1>1, <2>1, <2>2
  <2> QED
    BY <1>1, <2>1, <2>3
<1>7. m < N => Len(Records[m + 1]) < Width
  BY <1>1, <1>3, <1>5
<1> HIDE DEF m
<1>8. DOMAIN good = 1 .. m /\ \A i \in 1 .. m : good[i] = Records[i]
  BY <1>1, <1>5 DEF good
<1> QED
  BY <1>4, <1>5, <1>6, <1>7, <1>8

(* Lines that are as wide as the header are good records, and with a *)
(* shorter line or the end after them they are all.                  *)
LEMMA GoodReaches ==
  ASSUME file \in Files, NEW n \in Nat, FullUpTo(n)
  PROVE  /\ \A i \in 1 .. n : i \in DOMAIN GoodRecords /\ GoodRecords[i] = Records[i]
         /\ EndsAfter(n) => DOMAIN GoodRecords = 1 .. n
<1>1. PICK m \in 0 .. Len(Records) :
        /\ \A i \in 1 .. m : Len(Records[i]) >= Width
        /\ m < Len(Records) => Len(Records[m + 1]) < Width
        /\ DOMAIN GoodRecords = 1 .. m
        /\ \A i \in 1 .. m : GoodRecords[i] = Records[i]
  BY GoodFacts
<1>2. /\ Len(Records) \in Nat /\ Width \in Nat
      /\ \A i \in 1 .. Len(Records) : Len(Records[i]) \in Nat
  BY RecordsFacts
<1>3. n <= m
  <2> SUFFICES ASSUME m < n PROVE FALSE
    BY <1>1
  <2>1. m + 1 \in 1 .. n /\ m < Len(Records)
    BY <1>1, <1>2 DEF FullUpTo
  <2>2. Len(Records[m + 1]) = Width /\ Len(Records[m + 1]) < Width
    BY <1>1, <2>1 DEF FullUpTo
  <2> QED
    BY <1>2, <2>2
<1>4. ASSUME EndsAfter(n)
      PROVE  n = m
  <2> SUFFICES ASSUME n < m PROVE FALSE
    BY <1>1, <1>3
  <2>1. n + 1 \in 1 .. m /\ n + 1 \in 1 .. Len(Records) /\ n # Len(Records)
    BY <1>1, <1>2
  <2>2. Len(Records[n + 1]) >= Width /\ Len(Records[n + 1]) < Width
    BY <1>1, <1>4, <2>1 DEF EndsAfter
  <2> QED
    BY <1>2, <2>1, <2>2
<1>5. \A i \in 1 .. n : i \in 1 .. m
  BY <1>1, <1>3
<1> QED
  BY <1>1, <1>4, <1>5

(* A row with a cell for every column has the cell of each field. *)
LEMMA RowStored ==
  ASSUME file \in Files, Named, NEW i \in 1 .. Len(Records), Len(Records[i]) = Width
  PROVE  Stored(row, Dest, Records[i]) = [f \in Fields |-> Cell(Records[i], f)]
<1>1. /\ Width \in Nat /\ DOMAIN file.header = 1 .. Width
      /\ DOMAIN Records[i] = 1 .. Width
  BY RecordsFacts
<1>2. DOMAIN Dest = 1 .. Width
  BY <1>1 DEF Dest, Destination
<1>3. ASSUME NEW f \in Fields
      PROVE  LET at == {k \in DOMAIN Records[i] \cap DOMAIN Dest : Dest[k] = f}
                 columns == {k \in 1 .. Width : file.header[k] = f}
             IN  at = columns /\ columns # {}
  <2>1. \A k \in 1 .. Width : Dest[k] = f <=> file.header[k] = f
    BY <1>1, FieldsAssumption DEF Dest, Destination
  <2>2. \E k \in 1 .. Width : file.header[k] = f
    BY <1>1 DEF Named, ToSet
  <2> QED
    BY <1>1, <1>2, <2>1, <2>2
<1> QED
  BY <1>3 DEF Stored, Cell

(* There is a destination for every column. *)
LEMMA DestLength ==
  ASSUME file \in Files
  PROVE  Len(Dest) = Width /\ Width \in Nat
<1>1. Width \in Nat /\ DOMAIN file.header = 1 .. Width
  BY RecordsFacts
<1>2. Dest \in [1 .. Width -> Fields \cup {NoField}]
  BY <1>1 DEF Dest, Destination
<1> QED
  BY <1>1, <1>2, TupleOfFunction

(* Another row goes to the end of those collected. *)
InOrder(rows, P, g) ==
  /\ Len(rows) = Cardinality(P)
  /\ \A i \in P : rows[Cardinality({j \in P : j <= i})] = g[i]

(* A row whose number is above all others is appended behind them. *)
LEMMA CollectMore ==
  ASSUME NEW T, NEW rows \in Seq(T), NEW n \in Nat, NEW P \in SUBSET (1 .. n), NEW g,
         InOrder(rows, P, g)
  PROVE  InOrder(Append(rows, g[n + 1]), P \cup {n + 1}, g)
<1> USE DEF InOrder
<1> DEFINE Q == P \cup {n + 1}
           more == Append(rows, g[n + 1])
           c == Cardinality(P)
<1>1. IsFiniteSet(P) /\ c \in Nat /\ n + 1 \notin P /\ \A i \in P : i \in Nat /\ i <= n
  <2>1. IsFiniteSet(1 .. n)
    BY FS_Interval
  <2>2. IsFiniteSet(P) /\ c \in Nat
    BY <2>1, FS_Subset, FS_CardinalityType
  <2>3. \A i \in P : i \in 1 .. n
    OBVIOUS
  <2>4. \A i \in P : i \in Nat /\ i <= n /\ i # n + 1
    BY <2>3
  <2> QED
    BY <2>2, <2>4
<1>2. Cardinality(Q) = c + 1
  BY <1>1, FS_AddElement
<1>3. /\ Len(more) = c + 1 /\ more[c + 1] = g[n + 1]
      /\ \A k \in 1 .. c : more[k] = rows[k]
  BY <1>1
<1> HIDE DEF more
<1>4. more[Cardinality({j \in Q : j <= n + 1})] = g[n + 1]
  <2>1. {j \in Q : j <= n + 1} = Q
    <3>1. \A j \in P : j <= n + 1
      BY <1>1
    <3>2. n + 1 <= n + 1
      OBVIOUS
    <3> QED
      BY <3>1, <3>2
  <2> QED
    BY <1>2, <1>3, <2>1
<1>5. ASSUME NEW i \in P
      PROVE  more[Cardinality({j \in Q : j <= i})] = g[i]
  <2> DEFINE below == {j \in P : j <= i}
  <2>1. {j \in Q : j <= i} = below
    <3>1. ~(n + 1 <= i)
      BY <1>1
    <3> QED
      BY <3>1
  <2>2. below \in SUBSET P /\ i \in below
    BY <1>1
  <2> HIDE DEF below
  <2>3. IsFiniteSet(below) /\ Cardinality(below) \in Nat /\ Cardinality(below) <= c
    BY <1>1, <2>2, FS_Subset, FS_CardinalityType
  <2>4. Cardinality(below) # 0
    BY <2>2, <2>3, FS_EmptySet
  <2>5. Cardinality(below) \in 1 .. c
    BY <1>1, <2>3, <2>4
  <2> QED
    BY <1>3, <2>1, <2>5 DEF below
<1> QED
  BY <1>2, <1>3, <1>4, <1>5 DEF more

(* Nothing was read of the file at the start. *)
LEMMA InitParsing == Init => ParsingInv
<1> SUFFICES ASSUME Init PROVE ParsingInv
  OBVIOUS
<1>1. file \in Files /\ current = file.body /\ phase = "parse" /\ data = <<>>
  BY DEF Init
<1>2. /\ current \in Seq(Bytes) /\ Lines(current) \in Seq(Seq(Bytes)) /\ Len(Records) \in Nat
  BY <1>1, RecordsFacts
<1>3. LeftAfter(0)
  <2> DEFINE L == Lines(current)
  <2>1. L \in Seq(Seq(Bytes))
    BY <1>2
  <2> HIDE DEF L
  <2>2. SubSeq(L, 1, Len(L)) = L
    BY <2>1, SubSeqFull
  <2> QED
    BY <1>1, <2>2 DEF LeftAfter, L
<1>4. FullUpTo(0)
  BY <1>2 DEF FullUpTo
<1>5. Collected(0)
  <2>1. Played(0) = {}
    BY DEF Played
  <2> QED
    BY <1>1, <2>1, FS_EmptySet DEF Collected
<1> QED
  BY <1>1, <1>2, <1>3, <1>4, <1>5 DEF ParsingInv, ReadUpTo

(* What is said of the slice depends on nothing but the slice and the      *)
(* inputs.                                                                 *)
LEMMA SameInputs ==
  ASSUME UNCHANGED <<file, offset>>
  PROVE  /\ Records' = Records /\ Width' = Width /\ Named' = Named
         /\ GoodRecords' = GoodRecords
         /\ \A n : Played(n)' = Played(n)
         /\ \A n : FullUpTo(n)' = FullUpTo(n)
         /\ \A n : EndsAfter(n)' = EndsAfter(n)
         /\ \A i : RowOf(i)' = RowOf(i)
         /\ UNCHANGED data => \A n : ReadUpTo(n)' = ReadUpTo(n)
<1>1. Records' = Records /\ Width' = Width /\ Named' = Named
  BY DEF Records, Width, Named
<1>2. \A r, f : Cell(r, f)' = Cell(r, f)
  BY <1>1 DEF Cell
<1>3. GoodRecords' = GoodRecords
  BY <1>1 DEF GoodRecords
<1>4. \A i : RowOf(i)' = RowOf(i)
  BY <1>1, <1>2 DEF RowOf
<1>5. \A n : Played(n)' = Played(n)
  BY <1>4 DEF Played, Plays
<1>6. \A n : FullUpTo(n)' = FullUpTo(n) /\ EndsAfter(n)' = EndsAfter(n)
  BY <1>1 DEF FullUpTo, EndsAfter
<1>7. UNCHANGED data => \A n : ReadUpTo(n)' = ReadUpTo(n)
  BY <1>1, <1>4, <1>5, <1>6 DEF ReadUpTo, Collected
<1> QED
  BY <1>1, <1>3, <1>4, <1>5, <1>6, <1>7

(* The line that is next, and its cells. *)
LEMMA NextRecord ==
  ASSUME file \in Files, current \in Seq(Bytes), NEW n \in Nat, FullUpTo(n), LeftAfter(n)
  PROVE  /\ current = <<>> => n = Len(Records)
         /\ current # <<>> => /\ n + 1 \in 1 .. Len(Records)
                              /\ Cells(Line(current)) = Records[n + 1]
                              /\ Lines(AfterLine(current)) =
                                   SubSeq(Lines(file.body), n + 2, Len(Lines(file.body)))
<1> DEFINE L == Lines(file.body)
<1>1. /\ L \in Seq(Seq(Bytes)) /\ Len(Records) = Len(L)
      /\ \A i \in 1 .. Len(L) : Records[i] = Parts(L[i], Separator)
  BY RecordsFacts
<1> HIDE DEF L
<1>2. n \in 0 .. Len(L) /\ Lines(current) = SubSeq(L, n + 1, Len(L))
  BY <1>1 DEF FullUpTo, LeftAfter, L
<1>3. /\ current = <<>> => n = Len(L)
      /\ current # <<>> => /\ n + 1 \in 1 .. Len(L)
                           /\ L[n + 1] = Line(current)
                           /\ Lines(AfterLine(current)) = SubSeq(L, n + 2, Len(L))
  BY <1>1, <1>2, LinesAdvance
<1>4. Cells(Line(current)) = Parts(Line(current), Separator)
  <2>1. Line(current) \in Seq(Bytes)
    BY LineFacts
  <2> QED
    BY <2>1, CellsAreParts
<1> QED
  BY <1>1, <1>3, <1>4 DEF L

(* A row that is scanned is the next record, and is kept unless its time *)
(* is before the offset.                                                 *)
LEMMA ScanRowStep ==
  ASSUME IndexInv, ParsingInv, ScanRow
  PROVE  ParsingInv'
<1>1. file \in Files /\ current \in Seq(Bytes) /\ phase = "parse"
  BY DEF ParsingInv, ScanRow
<1>2. PICK n \in Nat : ReadUpTo(n) /\ LeftAfter(n)
  BY <1>1 DEF ParsingInv
<1>3. FullUpTo(n)
  BY <1>2 DEF ReadUpTo
<1>4. UNCHANGED <<file, offset>>
  BY DEF ScanRow
<1>5. /\ current # <<>> /\ n + 1 \in 1 .. Len(Records)
      /\ Cells(Line(current)) = Records[n + 1] /\ Len(Records[n + 1]) = Width
      /\ Lines(current') = SubSeq(Lines(file.body), n + 2, Len(Lines(file.body)))
  <2>1. current # <<>> /\ current' = AfterLine(current)
    BY DEF ScanRow, Scans
  <2>2. /\ n + 1 \in 1 .. Len(Records) /\ Cells(Line(current)) = Records[n + 1]
        /\ Lines(AfterLine(current)) = SubSeq(Lines(file.body), n + 2, Len(Lines(file.body)))
    BY <1>1, <1>2, <1>3, <2>1, NextRecord
  <2>3. Len(Records[n + 1]) >= Width /\ ~(Len(Records[n + 1]) > Width)
    BY <1>1, <2>1, <2>2, DestLength DEF ScanRow, Scans, Overruns
  <2>4. Len(Records[n + 1]) \in Nat /\ Width \in Nat
    BY <1>1, <2>2, RecordsFacts
  <2> QED
    BY <2>1, <2>2, <2>3, <2>4
<1>6. n + 1 \in Nat /\ FullUpTo(n + 1)
  <2>1. \A i \in 1 .. n + 1 : i \in 1 .. n \/ i = n + 1
    OBVIOUS
  <2>2. \A i \in 1 .. n + 1 : Len(Records[i]) = Width
    BY <1>3, <1>5, <2>1 DEF FullUpTo
  <2>3. n + 1 \in 0 .. Len(Records)
    BY <1>5
  <2> QED
    BY <2>2, <2>3 DEF FullUpTo
<1>7. Named => row' = [f \in Fields |-> Cell(Records[n + 1], f)]
  BY <1>1, <1>5, RowStored DEF ScanRow
<1>8. current' \in Seq(Bytes) /\ file' \in Files
  BY <1>1, <1>4, LineFacts DEF ScanRow
<1>9. CASE phase' = "crashed"
  <2>1. Len(row'["close"]) < Cut
    BY <1>1, <1>9 DEF ScanRow
  <2>2. n + 1 \in DOMAIN GoodRecords /\ GoodRecords[n + 1] = Records[n + 1]
    BY <1>1, <1>6, GoodReaches
  <2>3. Named => Len(Cell(GoodRecords[n + 1], "close")) < Cut
    BY <1>7, <2>1, <2>2, FieldsAssumption
  <2>4. \A r, f : Cell(r, f)' = Cell(r, f)
    BY <1>4 DEF Cell, Width
  <2>5. Caused'
    BY <1>4, <2>2, <2>3, <2>4, SameInputs DEF Caused
  <2> QED
    BY <1>8, <1>9, <2>5 DEF ParsingInv
<1>10. CASE phase' = "parse"
  <2>1. data' = IF Plays(ParseRow(row')) THEN Append(data, ParseRow(row')) ELSE data
    <3>1. ~(Len(row'["close"]) < Cut)
      BY <1>10 DEF ScanRow
    <3> QED
      BY <3>1 DEF ScanRow
  <2>2. LeftAfter(n + 1)'
    <3>1. (n + 1) + 1 = n + 2
      OBVIOUS
    <3> QED
      BY <1>4, <1>5, <3>1 DEF LeftAfter
  <2>3. Named => Collected(n + 1)'
    <3> SUFFICES ASSUME Named PROVE Collected(n + 1)'
      OBVIOUS
    <3> DEFINE g == [i \in 1 .. n + 1 |-> RowOf(i)]
    <3>1. ParseRow(row') = RowOf(n + 1) /\ n + 1 \in 1 .. n + 1
      BY <1>7 DEF RowOf
    <3>2. Collected(n)
      BY <1>2 DEF ReadUpTo
    <3>3. PICK T : data \in Seq(T)
      BY DEF IndexInv
    <3>4. CASE Plays(RowOf(n + 1))
      <4>1. Played(n + 1) = Played(n) \cup {n + 1}
        <5>1. 1 .. n + 1 = (1 .. n) \cup {n + 1}
          OBVIOUS
        <5> QED
          BY <3>4, <5>1 DEF Played
      <4>2. data' = Append(data, g[n + 1])
        BY <2>1, <3>1, <3>4
      <4>3. Played(n) \in SUBSET (1 .. n) /\ \A i \in Played(n + 1) : g[i] = RowOf(i)
        BY DEF Played
      <4> HIDE DEF g
      <4>4. \A i \in Played(n) : data[Cardinality({j \in Played(n) : j <= i})] = g[i]
        BY <3>2, <4>1, <4>3 DEF Collected
      <4>5. Len(data) = Cardinality(Played(n))
        BY <3>2 DEF Collected
      <4> DEFINE P == Played(n)
                 Q == P \cup {n + 1}
      <4>6. P \in SUBSET (1 .. n) /\ InOrder(data, P, g)
        BY <4>3, <4>4, <4>5 DEF InOrder
      <4> HIDE DEF P
      <4>7. InOrder(Append(data, g[n + 1]), P \cup {n + 1}, g)
        BY <3>3, <4>6, CollectMore, Zenon
      <4>8. /\ Len(data') = Cardinality(Q)
            /\ \A i \in Q : data'[Cardinality({j \in Q : j <= i})] = g[i]
        BY <4>2, <4>7 DEF InOrder
      <4>9. Q = Played(n + 1)
        BY <4>1 DEF P
      <4> HIDE DEF Q
      <4>10. /\ Len(data') = Cardinality(Played(n + 1))
             /\ \A i \in Played(n + 1) : data'[Cardinality({j \in Played(n + 1) : j <= i})] = RowOf(i)
        BY <4>3, <4>8, <4>9
      <4> QED
        BY <1>4, <4>10, SameInputs DEF Collected
    <3>5. CASE ~Plays(RowOf(n + 1))
      <4>1. Played(n + 1) = Played(n)
        <5>1. 1 .. n + 1 = (1 .. n) \cup {n + 1}
          OBVIOUS
        <5> QED
          BY <3>5, <5>1 DEF Played
      <4>2. data' = data
        BY <2>1, <3>1, <3>5
      <4> QED
        BY <1>4, <3>2, <4>1, <4>2, SameInputs DEF Collected
    <3> QED
      BY <3>4, <3>5
  <2>4. ReadUpTo(n + 1)'
    BY <1>4, <1>6, <2>3, SameInputs DEF ReadUpTo
  <2> QED
    BY <1>6, <1>8, <1>10, <2>2, <2>4 DEF ParsingInv
<1>11. phase' \in {"crashed", "parse"}
  BY <1>1 DEF ScanRow
<1> QED
  BY <1>9, <1>10, <1>11

(* The scan ends at the end of the file or at a short line, and panics *)
(* for its cause.                                                      *)
LEMMA ParserStops ==
  ASSUME ParsingInv, ScanEnds \/ ScanPanics \/ OpenFails
  PROVE  ParsingInv'
<1>1. file \in Files /\ current \in Seq(Bytes) /\ phase = "parse" /\ UNCHANGED <<file, offset, current, data>>
  BY DEF ParsingInv, ScanEnds, ScanPanics, OpenFails, parseVars
<1>2. PICK n \in Nat : ReadUpTo(n) /\ LeftAfter(n)
  BY <1>1 DEF ParsingInv
<1>3. /\ FullUpTo(n) /\ Len(Dest) = Width
      /\ current = <<>> => n = Len(Records)
      /\ current # <<>> => /\ n + 1 \in 1 .. Len(Records)
                           /\ Cells(Line(current)) = Records[n + 1]
                           /\ Len(Records[n + 1]) \in Nat /\ Width \in Nat
  <2>1. FullUpTo(n)
    BY <1>2 DEF ReadUpTo
  <2> QED
    BY <1>1, <1>2, <2>1, NextRecord, DestLength, RecordsFacts
<1>4. CASE ScanEnds
  <2>1. phase' = "serve" /\ ~Scans(current, Dest)
    BY <1>4 DEF ScanEnds
  <2>2. EndsAfter(n)
    BY <1>3, <2>1 DEF Scans, EndsAfter
  <2>3. ReadUpTo(n)' /\ EndsAfter(n)'
    BY <1>1, <1>2, <2>2, SameInputs
  <2> QED
    BY <1>1, <2>1, <2>3 DEF ParsingInv
<1>5. CASE ScanPanics
  <2>1. phase' = "crashed" /\ Overruns(current, Dest)
    BY <1>5 DEF ScanPanics
  <2>2. n + 1 \in DOMAIN Records /\ Len(Records[n + 1]) > Width
    <3>1. n + 1 \in 1 .. Len(Records) /\ Len(Records[n + 1]) > Width
      BY <1>3, <2>1 DEF Overruns
    <3> QED
      BY <1>1, <3>1, RecordsFacts
  <2>3. Caused'
    BY <1>1, <2>2, SameInputs DEF Caused
  <2> QED
    BY <1>1, <2>1, <2>3 DEF ParsingInv
<1>6. CASE OpenFails
  BY <1>1, <1>6 DEF OpenFails, ParsingInv
<1> QED
  BY <1>4, <1>5, <1>6

(* The player does not touch what was parsed, and panics for its cause. *)
LEMMA PlayStep ==
  ASSUME HistoryInv, ParsingInv, Next, ~Parse
  PROVE  ParsingInv'
<1>1. phase = "serve" /\ UNCHANGED parseVars
  BY DEF Next, ReadPanics, Listen, Exchange, Control, StaysAway, ContextEnds, FirstState, Tick,
     ListenerStops, Receive, SendFails, Match, StatesEnd, ContextDone, Serving
<1>2. phase' = "serve" \/ (phase' = "crashed" /\ Caused)
  <2>1. CASE ReadPanics
    <3>1. idx >= Len(data) /\ phase' = "crashed"
      BY <2>1 DEF ReadPanics
    <3>2. idx \in Nat /\ Len(data) \in Nat /\ (idx > 1 => idx < Len(data))
      BY <1>1, PlayTypes DEF HistoryInv, StateInv
    <3>3. Len(data) < 2
      BY <3>1, <3>2
    <3> QED
      BY <3>1, <3>3 DEF Caused
  <2>2. CASE ~ReadPanics
    BY <1>1, <2>2 DEF Next, Listen, Exchange, Control, StaysAway, ContextEnds, FirstState, Tick,
       ListenerStops, Receive, SendFails, Match, StatesEnd, ContextDone
  <2> QED
    BY <2>1, <2>2
<1>3. UNCHANGED <<file, offset, current, data>>
  BY <1>1 DEF parseVars
<1>4. PICK n \in Nat : ReadUpTo(n) /\ EndsAfter(n)
  BY <1>1 DEF ParsingInv
<1>5. ReadUpTo(n)' /\ EndsAfter(n)'
  BY <1>3, <1>4, SameInputs
<1>6. Caused => Caused'
  <2>1. \A r, f : Cell(r, f)' = Cell(r, f)
    BY <1>3 DEF Cell, Width
  <2> QED
    BY <1>3, <2>1, SameInputs DEF Caused
<1> QED
  BY <1>2, <1>3, <1>5, <1>6 DEF ParsingInv

(* Both invariants hold in every reachable state. *)
LEMMA ParsingInvariant == Spec => [](HistoryInv /\ ParsingInv)
<1>1. ASSUME HistoryInv, ParsingInv, Next
      PROVE  ParsingInv'
  <2>1. CASE ScanRow
    BY <1>1, <2>1, ScanRowStep DEF HistoryInv
  <2>2. CASE ScanEnds \/ ScanPanics \/ OpenFails
    BY <1>1, <2>2, ParserStops
  <2>3. CASE ~Parse
    BY <1>1, <2>3, PlayStep
  <2> QED
    BY <2>1, <2>2, <2>3 DEF Parse
<1>2. ASSUME ParsingInv, UNCHANGED vars
      PROVE  ParsingInv'
  <2>1. UNCHANGED <<file, offset, current, data, phase>>
    BY <1>2 DEF vars, parseVars
  <2>2. \A r, f : Cell(r, f)' = Cell(r, f)
    BY <2>1 DEF Cell, Width
  <2>3. Caused' = Caused
    BY <2>1, <2>2, SameInputs DEF Caused
  <2>4. \A n : ReadUpTo(n)' = ReadUpTo(n) /\ EndsAfter(n)' = EndsAfter(n)
    BY <2>1, SameInputs
  <2>5. \A n : LeftAfter(n)' = LeftAfter(n)
    BY <2>1 DEF LeftAfter
  <2> QED
    BY <1>2, <2>1, <2>3, <2>4, <2>5 DEF ParsingInv
<1> QED
  BY <1>1, <1>2, InitParsing, HistoryInvariant, PTL DEF Spec

------------------------------------------------------------------------------
(* The reader panics, and the process with it (fastcsv.go: Scan, state.go: *)
(* Parse, listener.go: the select), for no other file than one with a line *)
(* too long, a price too short or fewer than two rows to play.             *)
THEOREM CrashesForCause == Spec => []PanicsForCause
<1>1. HistoryInv /\ ParsingInv => PanicsForCause
  BY DEF ParsingInv, PanicsForCause, Caused
<1> QED
  BY <1>1, ParsingInvariant, PTL

(* For any file that names the fields, whatever the bytes after its        *)
(* header, the slice that the process serves has the rows of the file, in  *)
(* order, from the offset on and before the first line that is too short   *)
(* (parser.go: New, fastcsv.go: Scan).                                     *)
THEOREM FileIsRead == Spec => []ReadsTheFile
<1>1. HistoryInv /\ ParsingInv => ReadsTheFile
  <2> SUFFICES ASSUME ParsingInv, phase = "serve", Named
               PROVE  LET good == GoodRecords
                          rows == [i \in DOMAIN good |-> ParseRow([f \in Fields |-> Cell(good[i], f)])]
                          played == {i \in DOMAIN rows : rows[i].unix >= offset}
                      IN  /\ Len(data) = Cardinality(played)
                          /\ \A i \in played : data[Cardinality({j \in played : j <= i})] = rows[i]
    BY DEF ReadsTheFile
  <2> DEFINE rows == [i \in DOMAIN GoodRecords |-> ParseRow([f \in Fields |-> Cell(GoodRecords[i], f)])]
             played == {i \in DOMAIN rows : rows[i].unix >= offset}
  <2>1. PICK n \in Nat : ReadUpTo(n) /\ EndsAfter(n)
    BY DEF ParsingInv
  <2>2. DOMAIN GoodRecords = 1 .. n /\ \A i \in 1 .. n : GoodRecords[i] = Records[i]
    BY <2>1, GoodReaches DEF ReadUpTo, ParsingInv
  <2>3. DOMAIN rows = 1 .. n /\ \A i \in 1 .. n : rows[i] = RowOf(i)
    BY <2>2 DEF RowOf
  <2> HIDE DEF rows
  <2>4. played = Played(n)
    BY <2>3 DEF Played, Plays
  <2>5. Collected(n)
    BY <2>1 DEF ReadUpTo
  <2>6. \A i \in Played(n) : rows[i] = RowOf(i)
    BY <2>3 DEF Played
  <2> HIDE DEF played
  <2>7. /\ Len(data) = Cardinality(played)
        /\ \A i \in played : data[Cardinality({j \in played : j <= i})] = rows[i]
    BY <2>4, <2>5, <2>6 DEF Collected
  <2> QED
    BY <2>7 DEF played, rows
<1> QED
  BY <1>1, ParsingInvariant, PTL
=============================================================================
