\* Two messages, of which either may be a text, also an empty one, or a part of
\* a buffer of two bytes, for two listeners.
SPECIFICATION FairSpec
CONSTANTS
  Capacity = 2
  TextLengths = {0, 1}
  Thresholds = {0, 1}
  ListenerCount = 2
  MaxMessages = 2
INVARIANTS SentWithinBuffer SeenAsSent
PROPERTY SenderProceeds
\* The bound on messages ends the run.
CHECK_DEADLOCK FALSE
