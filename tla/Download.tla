------------------------------ MODULE Download ------------------------------
(***************************************************************************)
(* The tool that makes the price history (tools/binance/get_data.go): main *)
(* downloads one file per day and copies it into a pipe, a goroutine reads *)
(* the pipe line by line and appends the formatted rows to the history.    *)
(*                                                                         *)
(* A text is a sequence of rows and newlines.  A row stands for its bytes: *)
(* what matters of it is whether its time is an integer and how many       *)
(* fields it has.  A line can hold several rows, when a file does not end  *)
(* with a newline.  A formatted line is written as the line it comes from. *)
(***************************************************************************)
EXTENDS TextLines

CONSTANTS
  Rows,       \* rows, numbers that are no newline
  Untimed,    \* the rows whose first field is not an integer
  Width,      \* the number of fields of a row
  Histories   \* the downloaded files, one sequence of texts per call

ASSUME RowsAssumption == Newline \notin Rows /\ Untimed \subseteq Rows /\ Width \in [Rows -> Nat \ {0}]

Units == Rows \cup {Newline}

ASSUME HistoriesAssumption == Histories \subseteq Seq(Seq(Units))

VARIABLES
  days,    \* the files to download
  main,    \* "fetch", "copy", "closed"; how it ended: "exited", "panicked"
  rest,    \* what io.Copy has not yet written of the day's file
  chunk,   \* the write to the pipe that is not yet read
  fmt,     \* the goroutine: "create", "scan" or "returned"
  buf,     \* what the scanner read and did not yet return
  out,     \* the lines in the history after its header
  torn,    \* a piece of a row follows them
  full     \* history: everything that main wrote to the pipe

vars == <<days, main, rest, chunk, fmt, buf, out, torn, full>>

Init ==
  /\ days \in Histories
  /\ main = "fetch" /\ fmt = "create"
  /\ rest = <<>> /\ chunk = <<>> /\ buf = <<>> /\ out = <<>> /\ full = <<>>
  /\ torn = FALSE

Running == main \in {"fetch", "copy", "closed"}

------------------------------------------------------------------------------
(* main *)
Fetch ==
  /\ main = "fetch" /\ days # <<>>
  /\ rest' = Head(days) /\ days' = Tail(days)
  /\ main' = "copy"
  /\ UNCHANGED <<chunk, fmt, buf, out, full, torn>>

(* No connection, no file for the day, no zip file: main panics, and so it *)
(* does when the copy breaks off.                                          *)
FetchFails ==
  /\ \/ main = "fetch" /\ days # <<>>
     \/ main = "copy" /\ chunk = <<>>
  /\ main' = "panicked"
  /\ UNCHANGED <<days, rest, chunk, fmt, buf, out, full, torn>>

(* A write to the pipe returns when all of it was read. *)
WriteChunk ==
  /\ main = "copy" /\ rest # <<>> /\ chunk = <<>>
  /\ \E n \in DOMAIN rest :
       /\ chunk' = SubSeq(rest, 1, n)
       /\ rest' = SubSeq(rest, n + 1, Len(rest))
       /\ full' = full \o SubSeq(rest, 1, n)
  /\ UNCHANGED <<days, main, fmt, buf, out, torn>>

DayCopied ==
  /\ main = "copy" /\ rest = <<>> /\ chunk = <<>>
  /\ main' = "fetch"
  /\ UNCHANGED <<days, rest, chunk, fmt, buf, out, full, torn>>

(* Mutant of CloseW: main waits for the goroutine first. *)
CloseWAfterReturn ==
  /\ main = "fetch" /\ days = <<>> /\ fmt = "returned"
  /\ main' = "closed"
  /\ UNCHANGED <<days, rest, chunk, fmt, buf, out, full, torn>>

CloseW ==
  /\ main = "fetch" /\ days = <<>>
  /\ main' = "closed"
  /\ UNCHANGED <<days, rest, chunk, fmt, buf, out, full, torn>>

(* main returns, and the process with it. *)
Exit ==
  /\ main = "closed"
  /\ main' = "exited"
  /\ UNCHANGED <<days, rest, chunk, fmt, buf, out, full, torn>>

------------------------------------------------------------------------------
(* The goroutine *)

(* The output file is created and gets its header, or the process panics. *)
Create ==
  /\ Running /\ fmt = "create"
  /\ \/ fmt' = "scan" /\ UNCHANGED main
     \/ main' = "panicked" /\ UNCHANGED fmt
  /\ UNCHANGED <<days, rest, chunk, buf, out, full, torn>>

HasLine == Contains(buf, Newline)

(* Mutant of Read: what was left in the buffer is overwritten. *)
ReadOver ==
  /\ Running /\ fmt = "scan" /\ ~HasLine /\ chunk # <<>>
  /\ \E n \in DOMAIN chunk :
       /\ buf' = SubSeq(chunk, 1, n)
       /\ chunk' = SubSeq(chunk, n + 1, Len(chunk))
  /\ UNCHANGED <<days, main, rest, fmt, out, full, torn>>

(* The scanner reads when it has no whole line. *)
Read ==
  /\ Running /\ fmt = "scan" /\ ~HasLine /\ chunk # <<>>
  /\ \E n \in DOMAIN chunk :
       /\ buf' = buf \o SubSeq(chunk, 1, n)
       /\ chunk' = SubSeq(chunk, n + 1, Len(chunk))
  /\ UNCHANGED <<days, main, rest, fmt, out, full, torn>>

(* The closed pipe is empty: what is left is the last line. *)
AtEnd == main = "closed" /\ chunk = <<>>

(* The first field must be an integer, and there must be nine fields. *)
Timed(line) == line # <<>> /\ Head(line) \notin Untimed
FieldCount(line) == FoldLeft(LAMBDA n, row : n + Width[row] - 1, 1, line)

FormatLine ==
  /\ Running /\ fmt = "scan"
  /\ HasLine \/ (AtEnd /\ buf # <<>>)
  /\ LET line == Line(buf)
     IN  \/ /\ ~Timed(line)
            /\ fmt' = "returned"
            /\ UNCHANGED <<main, buf, out>>
         \/ /\ Timed(line) /\ FieldCount(line) < 9
            /\ main' = "panicked"
            /\ UNCHANGED <<fmt, buf, out>>
         \/ /\ Timed(line) /\ FieldCount(line) >= 9
            /\ buf' = AfterLine(buf)
            /\ out' = Append(out, line)
            /\ UNCHANGED <<main, fmt>>
  /\ UNCHANGED <<days, rest, chunk, full, torn>>

(* The history cannot be written, or only a piece of the row: the          *)
(* goroutine returns.                                                      *)
WriteFails ==
  /\ Running /\ fmt = "scan"
  /\ HasLine \/ (AtEnd /\ buf # <<>>)
  /\ Timed(Line(buf)) /\ FieldCount(Line(buf)) >= 9
  /\ fmt' = "returned"
  /\ torn' \in BOOLEAN
  /\ UNCHANGED <<days, main, rest, chunk, buf, out, full>>

ScanEnds ==
  /\ fmt = "scan" /\ AtEnd /\ buf = <<>>
  /\ fmt' = "returned"
  /\ UNCHANGED <<days, main, rest, chunk, buf, out, full, torn>>

------------------------------------------------------------------------------
Main == Fetch \/ FetchFails \/ WriteChunk \/ DayCopied \/ CloseW \/ Exit
Formatter == Create \/ Read \/ FormatLine \/ WriteFails \/ ScanEnds
Next == Main \/ Formatter

Spec == Init /\ [][Next]_vars

(* The two goroutines go on while they can. *)
FairSpec == Spec /\ WF_vars(Main) /\ WF_vars(Formatter)

------------------------------------------------------------------------------
(* However the pipe cuts the files, the history has the first lines of     *)
(* what was downloaded, whole, in order and none twice; only a write that  *)
(* failed can leave a piece of the next one, which then is the end of the  *)
(* history.  main returns without waiting for the goroutine; what the      *)
(* history lacks then is no more than what the goroutine had read and was  *)
(* working on: a row that was still on its way is not lost.                *)
LosesOnlyRead ==
  /\ IsPrefix(out, Lines(full))
  /\ torn => fmt = "returned"
  /\ main = "exited" =>
       chunk = <<>> /\ rest = <<>> /\ out \o Lines(buf) = Lines(full)

(* The tool ends, if the goroutine does not: when it returns because of a  *)
(* row without a time, nobody reads the pipe, and main may wait for ever.  *)
MainEnds == [](Running => <>(~Running \/ (fmt = "returned" /\ chunk # <<>>)))
=============================================================================
