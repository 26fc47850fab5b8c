------------------------------- MODULE History -------------------------------
(***************************************************************************)
(* The price history, from the text of its file to the klines of a client: *)
(* the parser fills a slice when the process starts                        *)
(* (internal/parser/parser.go), and every client has a listener that plays *)
(* the slice to its exchange goroutine (internal/parser/listener.go,       *)
(* internal/exchange/exchange.go).                                         *)
(*                                                                         *)
(* Of the columns there are the time and one price: the four prices are    *)
(* parsed alike, the others are not used.  The client is one of many; they *)
(* share the slice, which nobody writes any more.  Its actions, orders and *)
(* connections are left out, but for the outcome of the send of a price,   *)
(* after which the client's orders are matched, and but for this: an       *)
(* action or a match may never end (see Lifecycle: Stuck, DrainsForever).  *)
(***************************************************************************)
EXTENDS FastCSV, DecimalText

CONSTANTS
  Files,     \* the files: the names of the header, the text after it
  Offsets,   \* the configured offset: the first time to be played
  Cut        \* the trailing characters of a price that are cut off: 6

ASSUME CutAssumption == Cut \in Nat

ASSUME FieldsAssumption == {"unix", "close"} \subseteq Fields /\ NoField \notin Fields

ASSUME FilesAssumption ==
  \A f \in Files : f.header \in Seq(STRING) /\ f.body \in Seq(0 .. 255)

VARIABLES
  file, offset,  \* the inputs
  phase,         \* "parse", "serve"; "refused" or "crashed": no process
  current,       \* the text that was not read yet
  row,           \* the struct the reader stores its cells in
  data,          \* Parser.data
  idx,           \* Listener: the rows sent so far
  listener,      \* "first", "tick" or "send"; "closed": no more rows
  loop,          \* the exchange goroutine: "first", "select", "match", "gone";
                 \* "away": it will not come back to its select
  feed,          \* currentStates # nil
  ended,         \* the client's context is done
  lastState,     \* the index of the row in lastState; 0: none
  matched,       \* the rows the orders were matched against, by index
  told           \* what the cancel handler got: lastState; -1: not called

parseVars == <<file, offset, current, row, data>>
playVars == <<idx, listener, loop, feed, ended, lastState, matched, told>>
vars == <<parseVars, phase, playVars>>

Init ==
  /\ file \in Files /\ offset \in Offsets
  /\ phase = "parse"
  /\ current = file.body
  /\ row = [f \in Fields |-> <<>>]
  /\ data = <<>>
  /\ idx = 0 /\ listener = "first" /\ loop = "first"
  /\ feed = FALSE /\ ended = FALSE
  /\ lastState = 0 /\ matched = <<>> /\ told = -1

------------------------------------------------------------------------------
(* The parser. *)

(* A file without a newline has no header, and none of its text is taken;  *)
(* an empty file cannot be mapped.                                         *)
Dest == Destination(file.header)
Refused == file.header = <<>> /\ file.body = <<>>

(* exchangeState.Parse *)
Price(cell) == SubSeq(cell, 1, Len(cell) - Cut)
ParseRow(r) ==
  [unix |-> ParseUint(r["unix"]).value,
   close |-> LET d == ParseDecimal(Price(r["close"])) IN [coef |-> d.coef, exp |-> d.exp]]

Plays(line) == line.unix >= offset

(* Scan, Parse and the append; the price's cut is a slice out of range if  *)
(* the cell is too short.                                                  *)
ScanRow ==
  /\ phase = "parse" /\ ~Refused
  /\ Scans(current, Dest) /\ ~Overruns(current, Dest)
  /\ row' = Stored(row, Dest, Cells(Line(current)))
  /\ current' = AfterLine(current)
  /\ IF Len(row'["close"]) < Cut
       THEN phase' = "crashed" /\ UNCHANGED data
       ELSE /\ UNCHANGED phase
            /\ data' = IF Plays(ParseRow(row')) THEN Append(data, ParseRow(row')) ELSE data
  /\ UNCHANGED <<file, offset, playVars>>

ScanEnds ==
  /\ phase = "parse" /\ ~Refused
  /\ ~Scans(current, Dest)
  /\ phase' = "serve"
  /\ UNCHANGED <<parseVars, playVars>>

ScanPanics ==
  /\ phase = "parse" /\ ~Refused
  /\ Overruns(current, Dest)
  /\ phase' = "crashed"
  /\ UNCHANGED <<parseVars, playVars>>

OpenFails ==
  /\ phase = "parse" /\ Refused
  /\ phase' = "refused"
  /\ UNCHANGED <<parseVars, playVars>>

------------------------------------------------------------------------------
(* The listener and the exchange goroutine, once there is a client. *)
Serving == phase = "serve" /\ UNCHANGED parseVars

(* The select evaluates l.data[idx] before it looks at the context. *)
ReadPanics ==
  /\ Serving
  /\ listener \in {"first", "send"} /\ idx >= Len(data)
  /\ phase' = "crashed"
  /\ UNCHANGED playVars

(* The first row is waited for outside of the exchange's select: it is the *)
(* state that actions see, and no kline.                                   *)
FirstState ==
  /\ Serving
  /\ listener = "first" /\ loop = "first" /\ idx < Len(data)
  /\ idx' = 1 /\ listener' = "tick" /\ loop' = "select"
  /\ UNCHANGED <<phase, feed, ended, lastState, matched, told>>

(* Mutant of AtEnd: the last row is sent, too. *)
AtEndAfterLast == idx = Len(data)

(* The listener compares the next row's index, from 0, with the last one. *)
AtEnd == idx = Len(data) - 1

(* Mutant of Tick: the listener goes on waiting at the end. *)
TickForever ==
  /\ Serving
  /\ listener = "tick"
  /\ listener' = IF AtEnd THEN "tick" ELSE "send"
  /\ UNCHANGED <<phase, idx, loop, feed, ended, lastState, matched, told>>

Tick ==
  /\ Serving
  /\ listener = "tick"
  /\ listener' = IF AtEnd THEN "closed" ELSE "send"
  /\ UNCHANGED <<phase, idx, loop, feed, ended, lastState, matched, told>>

ListenerStops ==
  /\ Serving
  /\ listener \in {"first", "send"} /\ idx < Len(data) /\ ended
  /\ listener' = "closed"
  /\ UNCHANGED <<phase, idx, loop, feed, ended, lastState, matched, told>>

(* Mutant of Receive: lastState keeps the row before. *)
ReceiveLate ==
  /\ Serving
  /\ listener = "send" /\ loop = "select" /\ feed /\ idx < Len(data)
  /\ idx' = idx + 1 /\ listener' = "tick"
  /\ lastState' = idx
  /\ loop' = "match"
  /\ UNCHANGED <<phase, feed, ended, matched, told>>

Receive ==
  /\ Serving
  /\ listener = "send" /\ loop = "select" /\ feed /\ idx < Len(data)
  /\ idx' = idx + 1 /\ listener' = "tick"
  /\ lastState' = idx + 1
  /\ loop' = "match"
  /\ UNCHANGED <<phase, feed, ended, matched, told>>

(* The kline goes to the price subscriber; if that fails, it is dropped    *)
(* before the orders see it.                                               *)
SendFails ==
  /\ Serving
  /\ loop = "match"
  /\ loop' = "select"
  /\ UNCHANGED <<phase, idx, listener, feed, ended, lastState, matched, told>>

Match ==
  /\ Serving
  /\ loop = "match"
  /\ matched' = Append(matched, lastState)
  /\ loop' = "select"
  /\ UNCHANGED <<phase, idx, listener, feed, ended, lastState, told>>

(* The exchange waits for a tracker, during a match or an action, that has *)
(* stopped or that waits for it to read a signal; or there is always one   *)
(* more action to run.                                                     *)
StaysAway ==
  /\ Serving
  /\ loop \in {"select", "match"}
  /\ loop' = "away"
  /\ UNCHANGED <<phase, idx, listener, feed, ended, lastState, matched, told>>

(* The order tracker's signal. *)
Control ==
  /\ Serving
  /\ loop = "select"
  /\ feed' = ~feed
  /\ UNCHANGED <<phase, idx, listener, loop, ended, lastState, matched, told>>

(* The closed channel: before the first row, or while the feed is on; then *)
(* the handler of the notification server gets the last state.             *)
StatesEnd ==
  /\ Serving
  /\ listener = "closed"
  /\ loop = "first" \/ (loop = "select" /\ feed)
  /\ loop' = "gone"
  /\ feed' = FALSE
  /\ told' = IF loop = "select" THEN lastState ELSE told
  /\ UNCHANGED <<phase, idx, listener, ended, lastState, matched>>

(* The context: of the stream that created the client, or of the process. *)
ContextEnds ==
  /\ Serving
  /\ ~ended /\ ended' = TRUE
  /\ UNCHANGED <<phase, idx, listener, loop, feed, lastState, matched, told>>

ContextDone ==
  /\ Serving
  /\ ended /\ loop = "select"
  /\ loop' = "gone"
  /\ UNCHANGED <<phase, idx, listener, feed, ended, lastState, matched, told>>

------------------------------------------------------------------------------
Parse == ScanRow \/ ScanEnds \/ ScanPanics \/ OpenFails
Listen == FirstState \/ Tick \/ ListenerStops \/ Receive
Exchange == SendFails \/ Match \/ StatesEnd \/ ContextDone

Next == Parse \/ ReadPanics \/ Listen \/ Exchange \/ StaysAway \/ Control \/ ContextEnds

Spec == Init /\ [][Next]_vars

(* Fairness.  The parser, the listener's ticks and selects and the work on *)
(* a kline go on, unless the exchange goroutine stays away; its select     *)
(* takes a row and the closed channel that stay ready or become ready      *)
(* again and again.                                                        *)
Fairness ==
  /\ WF_vars(Parse)
  /\ WF_vars(ReadPanics \/ FirstState \/ Tick \/ ListenerStops)
  /\ WF_vars(SendFails \/ Match)
  /\ SF_vars(Receive)
  /\ SF_vars(StatesEnd)
  /\ SF_vars(ContextDone)

FairSpec == Spec /\ Fairness

------------------------------------------------------------------------------
(* Types of the player's state, and what ties it to the slice. *)
HistoryTypeOK ==
  /\ phase \in {"parse", "serve", "refused", "crashed"}
  /\ idx \in 0 .. Len(data)
  /\ listener \in {"first", "tick", "send", "closed"}
  /\ loop \in {"first", "select", "match", "gone", "away"}
  /\ feed \in BOOLEAN /\ ended \in BOOLEAN
  /\ lastState \in 0 .. idx
  /\ \A i \in DOMAIN matched : matched[i] \in 1 .. lastState
  /\ told \in -1 .. lastState

(* What the file holds, by the positions of its separators: the records    *)
(* before the first one that has fewer cells than the header.              *)
Records == LET lines == Lines(file.body)
           IN  [i \in DOMAIN lines |-> Parts(lines[i], Separator)]
Width == Len(file.header)
Named == Fields \subseteq ToSet(file.header)
Cell(record, f) == record[Max({k \in 1 .. Width : file.header[k] = f})]
GoodRecords ==
  LET records == Records
      short == {i \in DOMAIN records : Len(records[i]) < Width}
  IN  SubSeq(records, 1, Min(short \cup {Len(records) + 1}) - 1)

(* When the process begins to serve, the slice holds the rows of the file, *)
(* in their order, from the offset on: all of them if every line has a     *)
(* cell for each column, and else - without an error - those before the    *)
(* first line that has not.  A last line without a newline counts.         *)
ReadsTheFile ==
  phase = "serve" /\ idx = 0 /\ Named =>
    LET good == GoodRecords
        rows == [i \in DOMAIN good |-> ParseRow([f \in Fields |-> Cell(good[i], f)])]
        played == {i \in DOMAIN rows : rows[i].unix >= offset}
    IN  /\ Len(data) = Cardinality(played)
        /\ \A i \in played : data[Cardinality({j \in played : j <= i})] = rows[i]

(* A panic ends the process only when a line has more cells than the       *)
(* header, a price is shorter than what is cut off it, or fewer than two   *)
(* rows are left to play - which the first client finds out.               *)
PanicsForCause ==
  phase = "crashed" =>
    \/ \E i \in DOMAIN Records : Len(Records[i]) > Width
    \/ ~Named
    \/ \E i \in DOMAIN GoodRecords : Len(Cell(GoodRecords[i], "close")) < Cut
    \/ Len(data) < 2

(* The orders of a client are matched against a row at most once and in    *)
(* the order of the history; against the first row, which arrives outside  *)
(* of the select, and the last row, which the listener keeps, never.       *)
MatchedInOrder ==
  /\ \A i, j \in DOMAIN matched : i < j => matched[i] < matched[j]
  /\ \A i \in DOMAIN matched : matched[i] \in 2 .. Len(data) - 1

(* At the end of the history the subscriber is told the price of the last  *)
(* row that was delivered - the last but one of the history - and a zero   *)
(* price when that was the first row, whether or not the rows in between   *)
(* reached the price subscriber.                                           *)
ToldLastPrice ==
  told # -1 =>
    /\ told = IF idx = 1 THEN 0 ELSE idx
    /\ ~ended => idx = Len(data) - 1

(* A history of two rows or more is played to its end, unless the feed     *)
(* stays off or the exchange goroutine gets stuck in an action or a match. *)
PlaysToEnd ==
  [](phase = "serve" /\ Len(data) >= 2 =>
       <>(loop = "gone") \/ <>[]~feed \/ <>(loop = "away"))
=============================================================================
