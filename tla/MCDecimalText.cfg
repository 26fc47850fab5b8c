\* Every text of up to six bytes, with integers of nine bits:
\* the dot, the digits 0, 1 and 9, and the sign.
CONSTANTS
  Half = 256
  Alphabet = {46, 48, 49, 57, 45}
  MaxLen = 6
SPECIFICATION Spec
\* The texts end at the bound.
CHECK_DEADLOCK FALSE
INVARIANTS
  UintParsed
  PriceParsed
  PricePrinted
