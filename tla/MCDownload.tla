----------------------------- MODULE MCDownload -----------------------------
(***************************************************************************)
(* Files of a few rows and newlines.                                       *)
(***************************************************************************)
EXTENDS Download

CONSTANTS
  MaxDays,
  MaxText

(* A row as the exchange publishes it, one without a time, a short one. *)
Kline == 1
NoTime == 2
Short == 3

Widths == [r \in {Kline, NoTime, Short} |-> IF r = Short THEN 4 ELSE 12]

SmallTexts == BoundedSeq({Kline, NoTime, Short, Newline}, MaxText)
SmallHistories == BoundedSeq(SmallTexts, MaxDays)
=============================================================================
