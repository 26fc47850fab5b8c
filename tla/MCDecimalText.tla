---------------------------- MODULE MCDecimalText ----------------------------
(***************************************************************************)
(* DecimalText over every text up to a length, byte by byte, with integers *)
(* of a few bits.                                                          *)
(***************************************************************************)
EXTENDS DecimalText

CONSTANTS
  Alphabet,   \* the bytes of the texts
  MaxLen      \* bound of the texts

ASSUME AlphabetAssumption == Alphabet \subseteq 0 .. 255 /\ MaxLen \in Nat

VARIABLE text

Init == text = <<>>
Next == Len(text) < MaxLen /\ \E byte \in Alphabet : text' = Append(text, byte)
Spec == Init /\ [][Next]_text

------------------------------------------------------------------------------
(* References, by the weight of each digit. *)
Tens[n \in Nat] == IF n = 0 THEN 1 ELSE 10 * Tens[n - 1]

Weigh(digits) ==
  SumFunction([i \in DOMAIN digits |-> Digit(digits[i]) * Tens[Len(digits) - i]])

OnlyDigits(t) == t # <<>> /\ \A i \in DOMAIN t : IsDigit(t[i])
Plain(t) == OnlyDigits(t) /\ (Len(t) = 1 \/ t[1] # Zero)

(* A decimal as price data has it: digits, a dot, digits. *)
Whole(t) == SubSeq(t, 1, Min({i \in DOMAIN t : t[i] = Dot} \cup {Len(t) + 1}) - 1)
Fraction(t) == SubSeq(t, Len(Whole(t)) + 2, Len(t))
IsPrice(t) == Plain(Whole(t)) /\ (Len(t) = Len(Whole(t)) \/ OnlyDigits(Fraction(t)))
Fits(t) == Weigh(Whole(t) \o Fraction(t)) < Half

------------------------------------------------------------------------------
(* ParseUint accepts nothing but digits, returns every number that fits    *)
(* its integers, and what does not fit is an error or - when the wrapped   *)
(* value grew with every digit, which the test for overflow takes for no   *)
(* overflow - the number modulo the width.                                 *)
UintParsed ==
  LET r == ParseUint(text)
  IN  /\ r.err = "none" =>
           OnlyDigits(text) /\ r.value >= 0 /\ r.value = Signed(Weigh(text))
      /\ OnlyDigits(text) /\ Weigh(text) < Half => r.err = "none"

(* A price that fits is parsed to its value, whatever zeros it begins or   *)
(* ends with.                                                              *)
PriceParsed ==
  LET r == ParseDecimal(text)
  IN  OnlyDigits(Whole(text)) /\ (Fraction(text) = <<>> \/ OnlyDigits(Fraction(text))) /\ Fits(text)
        => /\ r.err = "none"
           /\ r.coef = Weigh(Whole(text) \o Fraction(text))
           /\ r.exp = -Len(Fraction(text))

(* The price subscriber gets the text that was parsed, digit for digit:    *)
(* prices of ten and more as they were, whole numbers with two decimals.   *)
(* Below ten the dot is lost: 1.9 is printed as 19, 0.9 as 9.              *)
PricePrinted ==
  LET r == ParseDecimal(text)
      sent == PriceText(r.coef, r.exp)
  IN  IsPrice(text) /\ Fits(text) =>
        IF Fraction(text) = <<>>
          THEN Whole(sent) = text /\ Fraction(sent) = <<Zero, Zero>>
          ELSE IF Len(Whole(text)) >= 2
            THEN sent = text
            ELSE sent = AppendUint(r.coef)
=============================================================================
