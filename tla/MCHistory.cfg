\* Files of up to four lines or five arbitrary bytes, from two offsets.
CONSTANTS
  Separator = 44
  Fields <- StructFields
  Files <- MCFiles
  Offsets = {0, 3}
  Cut = 1
  Half = 256
  MaxLines = 4
  MaxBytes = 5
SPECIFICATION FairSpec
\* Histories end, goroutines return and processes panic: the system stops.
CHECK_DEADLOCK FALSE
INVARIANTS
  ReadsTheFile
  PanicsForCause
  MatchedInOrder
  ToldLastPrice
PROPERTIES
  PlaysToEnd
