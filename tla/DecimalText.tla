----------------------------- MODULE DecimalText -----------------------------
(***************************************************************************)
(* Integers and decimals as text (pkg/utils/utils.go), and the form in     *)
(* which a price goes to its subscriber (internal/parser/state.go).        *)
(*                                                                         *)
(* A text is a sequence of bytes, a decimal is a coefficient and the       *)
(* exponent of ten that it is multiplied with.  Arithmetic has the width   *)
(* of the machine's integers: 2 * Half values, -Half to Half - 1 if signed.*)
(***************************************************************************)
EXTENDS Integers, SequencesExt

CONSTANT Half   \* half the number of values of an integer: 2^63

ASSUME HalfAssumption == Half \in Nat \ {0}

Zero == 48
Dot == 46

(* Subtracting '0' from a byte wraps. *)
Digit(byte) == (byte - Zero) % 256
IsDigit(byte) == Digit(byte) <= 9

Unsigned(n) == n % (2 * Half)
Signed(n) == ((n + Half) % (2 * Half)) - Half

------------------------------------------------------------------------------
(* ParseUint, ParseUintBytes. *)

(* Where the digits that text begins with end. *)
Digits(text) == Max({n \in 0 .. Len(text) : \A i \in 1 .. n : IsDigit(text[i])})

(* Mutant of Overflows: no test, the conversion wraps to negative values. *)
OverflowsNever(value, n) == FALSE

(* The test is made on the wrapped value, digit by digit. *)
Overflows(value, n) == \E i \in 1 .. n : value[i] < value[i - 1]

(* Characters after the digits, and an overflow, are both reported as a    *)
(* trailing character.                                                     *)
ParseUint(text) ==
  LET n == Digits(text)
      value[i \in 0 .. n] ==
        IF i = 0 THEN 0 ELSE Signed(10 * value[i - 1] + Digit(text[i]))
  IN  IF text = <<>> THEN [value |-> -1, err |-> "emptyInt"]
      ELSE IF n < Len(text) \/ Overflows(value, n)
        THEN [value |-> -1, err |-> "trailingChar"]
      ELSE [value |-> value[n], err |-> "none"]

(* Mutant of Exponent: the dot itself is counted as a decimal. *)
ExponentWithDot(text, dots) == IF dots = {} THEN 0 ELSE Max(dots) - 1 - Len(text)

Exponent(text, dots) == IF dots = {} THEN 0 ELSE Max(dots) - Len(text)

(* ParseDecimalBytes.  Of several dots the last one counts; a character    *)
(* that is none of a number makes the result zero, and only as the first   *)
(* one an error.                                                           *)
ParseDecimal(text) ==
  LET bad == {i \in DOMAIN text : text[i] # Dot /\ ~IsDigit(text[i])}
      dots == {i \in DOMAIN text : text[i] = Dot}
      num[i \in 0 .. Len(text)] ==
        IF i = 0 THEN 0
        ELSE IF text[i] = Dot THEN num[i - 1]
        ELSE Unsigned(10 * num[i - 1] + Digit(text[i]))
  IN  IF text = <<>> THEN [coef |-> 0, exp |-> 0, err |-> "emptyInt"]
      ELSE IF bad # {}
        THEN [coef |-> 0, exp |-> 0, err |-> IF 1 \in bad THEN "firstChar" ELSE "none"]
      ELSE [coef |-> num[Len(text)],
            exp |-> Exponent(text, dots),
            err |-> "none"]

------------------------------------------------------------------------------
(* AppendUint, WriteUint: digits from the last to the first; the length of *)
(* the buffer is the widest integer's.                                     *)
AppendUint(n) ==
  LET text[m \in Nat] ==
        IF m < 10 THEN <<Zero + m>> ELSE Append(text[m \div 10], Zero + (m % 10))
  IN  text[n]

(* Mutant of DotFits: the first two digits are written outside the loop.   *)
DotFitsLate(digits, exp) == exp < 0 /\ -exp <= digits - 3

(* AppendDecimal.  The dot is set inside the loop that writes all digits   *)
(* but the first: it needs two digits before it.                           *)
DotFits(digits, exp) == exp < 0 /\ -exp <= digits - 2

AppendDecimal(coef, exp) ==
  LET text == AppendUint(coef)
      before == Len(text) + exp
  IN  IF DotFits(Len(text), exp)
        THEN SubSeq(text, 1, before) \o <<Dot>> \o SubSeq(text, before + 1, Len(text))
      ELSE IF exp > 0 THEN Append(text, Zero)
      ELSE text

(* appendZeroExponent: a whole price gets two decimals. *)
PriceText(coef, exp) ==
  AppendDecimal(coef, exp) \o (IF exp = 0 THEN <<Dot, Zero, Zero>> ELSE <<>>)
=============================================================================
