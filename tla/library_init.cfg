\* Three threads call initialize() and native methods; steps of it fail twice.
SPECIFICATION FairSpec
CONSTANTS
  t1 = t1  t2 = t2  t3 = t3
  Threads <- ThreeThreads
  NoThread = NoThread
  MaxFailures = 2
INVARIANT LoadedOnceBeforeUse
PROPERTY CallsReturn
