\* Two runs, the second beside the orphaned worker of the first; three attempts
\* with delays 1, 2 and a Retry-After below and above the deadline.
SPECIFICATION Spec
CONSTANTS
  MaxRuns = 2
  Attempts = 3
  Deadline = 3
  MaxFallback = 10
  MaxRetryDelay = 4
  RetryAfters = {0, 1, 5}
INVARIANTS
  NothingLeftBehind
PROPERTIES
  ImplementsCache
  SupervisedCallReturns
CHECK_DEADLOCK FALSE
