\* Three turns over two proxies; a window of six tokens and a budget of two
\* per turn, so that turns end for every reason.
SPECIFICATION Spec
CONSTANTS
  Proxies = {p1, p2}
  MaxNumTokens = 6
  MaxOutputTokens = 2
  MaxTurns = 3
INVARIANTS
  ReasonIsTrue
  UnknownOnlyWhenRaced
  NothingIsLostSilently
CHECK_DEADLOCK FALSE
