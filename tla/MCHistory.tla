------------------------------ MODULE MCHistory ------------------------------
(***************************************************************************)
(* Small files for History.                                                *)
(***************************************************************************)
EXTENDS History

CONSTANTS
  MaxLines,   \* bound of the files made of typical lines
  MaxBytes    \* bound of the files made of arbitrary bytes

Comma == 44
StructFields == {"unix", "close"}

Headers == {<<"unix", "close">>, <<"close", "trades", "unix">>, <<"unix">>, <<>>}

(* "1,11" and "3,1.3" are rows of the first header, "3,,1" is one of the   *)
(* second and too long for the first; a line of one cell, an empty line, a *)
(* bad time.                                                               *)
RowLines == {<<49, Comma, 49, 49>>, <<51, Comma, 49, 46, 51>>, <<51, Comma, Comma, 49>>,
             <<49>>, <<>>, <<45, Comma, 49>>}

Joined(lines) == FoldLeft(LAMBDA text, line : text \o line \o <<Newline>>, <<>>, lines)

Typical ==
  LET texts == {Joined(lines) : lines \in BoundedSeq(RowLines, MaxLines)}
  IN  texts \cup {Front(t) : t \in texts \ {<<>>}}

Arbitrary == BoundedSeq({49, Comma, Newline}, MaxBytes)

(* Without a header there is no newline at all. *)
MCFiles ==
  {f \in [header : Headers, body : Typical \cup Arbitrary] :
     f.header = <<>> => \A i \in DOMAIN f.body : f.body[i] # Newline}
=============================================================================
