\* Two files of up to three rows and newlines.
CONSTANTS
  Rows = {1, 2, 3}
  Untimed = {2}
  Width <- Widths
  Histories <- SmallHistories
  MaxDays = 2
  MaxText = 3
SPECIFICATION FairSpec
\* The tool ends, panics, or waits for ever: the system stops.
CHECK_DEADLOCK FALSE
INVARIANTS
  LosesOnlyRead
PROPERTIES
  MainEnds
