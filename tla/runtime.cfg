\* Attachments in a fiber-local slot, and in thread-local objects.  The library is loaded twice.
SPECIFICATION FairSpec
CONSTANTS
  b1 = b1  w1 = w1  w2 = w2  j1 = j1
  Workers <- TwoWorkers
  JavaThreads <- OneJava
  MaxLoads = 2
  Blocks <- OneBlock
INVARIANTS FreedByOwner EndedIsDetached OwnersKept CallsWhileBound UnloadLeavesNobody
PROPERTY UnloadEnds
\* The bound on loads ends the run.
CHECK_DEADLOCK FALSE
