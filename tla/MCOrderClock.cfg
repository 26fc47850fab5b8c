\* The clock with klines so close that it runs past them.
CONSTANTS
  Rows <- CloseRows
  MaxBatch = 2
  MaxTicks = 4
  MaxStamps = 4
SPECIFICATION ClockSpec
\* The bounds stop the clock.
CHECK_DEADLOCK FALSE
INVARIANTS
  OnlyBatchesCollide
