\* The remote side opens a channel while the peer is closed.
SPECIFICATION Spec
CONSTANTS
  p1 = p1  c1 = c1  c2 = c2  a1 = a1  n1 = n1  n2 = n2
  Peers <- OnePeer
  Channels <- Local
  Owner <- OwnedByP1
  Remote <- AllRemote
  AppThreads <- OneApp
  NativeThreads <- OneNative
  Clients <- OneClient
  ListenerCount = 1
  StackDepth = 1
  LateOpens = TRUE
  LostOpens = FALSE
  DeleteMayFail = FALSE
  None = None
INVARIANT AllChannelsClosed
