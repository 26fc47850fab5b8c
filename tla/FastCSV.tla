------------------------------ MODULE FastCSV ------------------------------
(***************************************************************************)
(* The reader of comma separated values (pkg/fastcsv/fastcsv.go).          *)
(*                                                                         *)
(* A text is a sequence of bytes.  The first line names the columns; Scan  *)
(* takes the next line and stores its cells in the fields of the caller's  *)
(* struct, by the name of the column.  The bytes are mapped memory, which  *)
(* nothing writes.                                                         *)
(***************************************************************************)
EXTENDS TextLines

CONSTANTS
  Separator,  \* the byte between two cells
  Fields      \* the names of the struct's fields

(* The cells of a line, one byte after the other. *)
Cells(line) ==
  FoldLeft(LAMBDA cells, byte :
             IF byte = Separator
               THEN Append(cells, <<>>)
               ELSE [cells EXCEPT ![Len(cells)] = Append(@, byte)],
           << <<>> >>, line)

(* NewFileReader: the field that each column is stored in, None if it has  *)
(* no such field.  The tagged fields need not be there, and the program's  *)
(* struct has no others.                                                   *)
NoField == "noField"

Destination(header) ==
  [i \in DOMAIN header |-> IF header[i] \in Fields THEN header[i] ELSE NoField]

(* The fields of a row after its cells were stored: a column that occurs   *)
(* twice is overwritten, fields without a cell keep their value.           *)
Stored(row, dest, cells) ==
  [f \in Fields |->
     LET at == {i \in DOMAIN cells \cap DOMAIN dest : dest[i] = f}
     IN  IF at = {} THEN row[f] ELSE cells[Max(at)]]

(* Mutant of Overruns: a short line is an index out of range, too. *)
OverrunsOrShort(text, dest) == text # <<>> /\ Len(Cells(Line(text))) # Len(dest)

(* A line with more cells than the header has columns is an index out of   *)
(* range.                                                                  *)
Overruns(text, dest) == text # <<>> /\ Len(Cells(Line(text))) > Len(dest)

(* The outcome of Scan: a line with fewer cells than columns ends it, as   *)
(* the end of the text does.                                               *)
Scans(text, dest) == text # <<>> /\ Len(Cells(Line(text))) >= Len(dest)
=============================================================================
