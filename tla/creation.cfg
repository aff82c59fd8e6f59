\* Up to three ICE servers; every acquisition may fail.  Settings in the
\* ranges of the C integers, with their boundaries.
SPECIFICATION FairSpec
CONSTANTS
  MaxServers = 3
  HalfRange = 16
  StreamRange = 8
  Lifetimes <- BoundaryLifetimes
  Retransmits <- BoundaryCounts
  Streams <- BoundaryStreams
INVARIANTS
  NothingKept LibrarySeesStrings RecordGoesWithHandle
  StreamIsHonoured ReliabilityReadsBack
PROPERTY FailedCreationIsUndone
\* A peer that is forgotten or deleted ends the run.
CHECK_DEADLOCK FALSE
