\* One search whose writers owe nobody an answer and whose aborts.log may fail;
\* weights that may come back; one handler, the watchdog, one review, one kill.
SPECIFICATION ServerSpec
CONSTANTS
  Rid = {r1}
  AbortMayFail = TRUE
  Weights = {w1, w2}
  Card = {c1}
  MaxStarts = 3
  Rollbacks = TRUE
  Handlers = {h1}
  Watchdog = Watchdog
  Startup = Startup
  Reviewer = {v1}
  DueAfter = 2
  DueCount = 1
  Grace = 1
  ClockSteps = FALSE
  MaxClock = 2
  MaxQueries = 1
  MaxReviews = 1
  MaxFaults = 1
  None = None
  NoWeights = NoWeights
INVARIANTS
  RowIsOfOneStart
  HeededNoticeLifts
PROPERTIES
  RequestEnds
  EveryCallReturns
  EveryCallLeaves
  DownServerComesUp
CHECK_DEADLOCK FALSE
