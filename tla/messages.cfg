\* Two threads receive, in both ways; texts and empty messages arrive too, and
\* the channel may be closed at any time.
SPECIFICATION PollingSpec
CONSTANTS
  r1 = r1  r2 = r2
  Receivers <- TwoReceivers
  Sizes = {0, 1, 2}
  Capacities = {0, 1}
  MaxMessages = 2
INVARIANTS BufferIsMessage NothingLost NegativeIsPendingSize
PROPERTY EveryMessageReceived
\* A channel that is deleted ends the run.
CHECK_DEADLOCK FALSE
