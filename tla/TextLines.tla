----------------------------- MODULE TextLines -----------------------------
(***************************************************************************)
(* The lines of a text, a sequence of bytes or of larger units: as a       *)
(* reader takes them from its front, one after the other, and by the       *)
(* positions of the newlines, the reference.                               *)
(***************************************************************************)
EXTENDS Integers, FiniteSets, SequencesExt

Newline == 10

------------------------------------------------------------------------------
(* A line is what stands before the next newline, or the rest of the text. *)
LineEnd(text) ==
  Min({i \in 1 .. Len(text) : text[i] = Newline} \cup {Len(text) + 1})

Line(text) == SubSeq(text, 1, LineEnd(text) - 1)

(* Mutant of AfterLine: a newline is skipped even when it is another row.  *)
AfterLineTwice(text) == SubSeq(text, LineEnd(text) + 2, Len(text))

AfterLine(text) == SubSeq(text, LineEnd(text) + 1, Len(text))

------------------------------------------------------------------------------
(* The reference: lines and cells by the positions of what separates them. *)
Parts(text, byte) ==
  LET ends == {0, Len(text) + 1} \cup {i \in DOMAIN text : text[i] = byte}
      End(k) == CHOOSE i \in ends : Cardinality({j \in ends : j < i}) = k
  IN  [k \in 1 .. Cardinality(ends) - 1 |-> SubSeq(text, End(k - 1) + 1, End(k) - 1)]

(* A text that ends with a newline has no further line after it. *)
Lines(text) ==
  IF text = <<>> THEN <<>>
  ELSE IF Last(text) = Newline THEN Front(Parts(text, Newline))
  ELSE Parts(text, Newline)
=============================================================================
