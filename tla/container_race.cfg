\* Two application threads change the listeners.
SPECIFICATION Spec
CONSTANTS
  a1 = a1  a2 = a2  n1 = n1  n2 = n2  l1 = l1  l2 = l2
  AppThreads <- MCApp
  NativeThreads <- MCOneNative
  Listeners <- MCListeners
  MaxListeners = 2
INVARIANT ListenerIsHeard
