\* Two threads ask and close, while strings are replaced; one of the lengths
\* does not fit the buffers of the candidate pair.
SPECIFICATION Spec
CONSTANTS
  t1 = t1  t2 = t2
  Threads <- TwoThreads
  Lengths = {0, 2}
  PairRoom = 2
  MaxChanges = 2
SYMMETRY ThreadSymmetry
INVARIANTS StringIsWhole BuffersOwned TooSmallIsStale ClosedIsFinal DeletedOnceAndDropped
\* A deleted track ends the run.
CHECK_DEADLOCK FALSE
