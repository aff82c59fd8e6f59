\* Every listener may close every object and the application thread the peer, with
\* its channels; one peer, a local and a remote channel.
SPECIFICATION Spec
CONSTANTS
  p1 = p1  c1 = c1  c2 = c2  a1 = a1  n1 = n1  n2 = n2
  Peers <- OnePeer
  Channels <- Both
  Owner <- OwnedByP1
  Remote <- SecondRemote
  AppThreads <- OneApp
  NativeThreads <- TwoNative
  Clients <- AnyClient
  ListenerCount = 1
  StackDepth = 1
  LateOpens = FALSE
  LostOpens = FALSE
  DeleteMayFail = TRUE
  None = None
SYMMETRY NativeSymmetry
INVARIANTS NoCallOnDeleted RecordNotLeaked NoDeadEntry AllChannelsClosed BlockedAcross
PROPERTY OwnershipSpec
