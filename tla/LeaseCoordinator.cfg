SPECIFICATION Spec
CONSTANTS
  Client = {c1, c2, c3}
  NoLease = NoLease
  NoClient = NoClient
  LeaseSeconds = 2
  MaxTime = 5
  MaxTokens = 4
SYMMETRY ClientSymmetry
PROPERTIES WritesInAcquisitionOrder NoEarlyTakeover ImplementsWriterLease
CHECK_DEADLOCK FALSE
