\* A peer that is forgotten without being closed.
SPECIFICATION FairSpec
CONSTANTS
  MaxServers = 1
  HalfRange = 16
  StreamRange = 8
  Lifetimes <- OneLifetime
  Retransmits <- OneCount
  Streams <- NoStream
PROPERTY ForgottenIsDeleted
CHECK_DEADLOCK FALSE
