\* An application thread and the listeners of two native threads change the
\* container, one after the other or at once, while it is dispatched and closed.
SPECIFICATION FairSpec
CONSTANTS
  a1 = a1  a2 = a2  n1 = n1  n2 = n2  l1 = l1  l2 = l2
  AppThreads <- MCOne
  NativeThreads <- MCNative
  Listeners <- MCListeners
  MaxListeners = 3
INVARIANT SerialisedSlot
PROPERTIES ClosedGainsNoListener DispatchEnds SlotSpec
