\* Half and whole milliseconds of a sample on both sides of every comparison, and
\* ratios at and around the one that leaves less than half a sample.
SPECIFICATION EngineSpec
CHECK_DEADLOCK FALSE
CONSTANTS
  Rates = {0, 500, 1000, 1500}
  Milliseconds = {0, 1, 2, 3, 4, 5, 7, 8, 9}
  Unit = 16
  Parts = {0, 1, 6, 8, 11, 12, 14, 15, 16}
INVARIANTS
  AcceptedWindowsAdvance
  EngineFitsTheModel
