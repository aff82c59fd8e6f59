\* All the closing is done by one application thread, or by the listeners of one
\* native thread; two listeners per event.
SPECIFICATION FairSpec
CONSTANTS
  p1 = p1  c1 = c1  c2 = c2  a1 = a1  n1 = n1  n2 = n2
  Peers <- OnePeer
  Channels <- Both
  Owner <- OwnedByP1
  Remote <- SecondRemote
  AppThreads <- OneApp
  NativeThreads <- TwoNative
  Clients <- CloseClients
  ListenerCount = 2
  StackDepth = 1
  LateOpens = FALSE
  LostOpens = TRUE
  DeleteMayFail = FALSE
  None = None
INVARIANT CloseAlwaysReleases
PROPERTIES QuietAfterClose CloseReturns ClosedIsReleased
\* Once every object is deleted nobody has anything left to do.
CHECK_DEADLOCK FALSE
