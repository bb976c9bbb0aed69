SPECIFICATION Spec
CONSTANTS
  Order = {o1, o2}
  BrokerId = {o1, o2}
  Session = {s1, s2}
  Quantity = 1
  MaxRecoveries = 2
  MaxFacts = 1
  NoId = NoId
  NoSession = NoSession
  NoOrder = NoOrder
  NoReply = NoReply
SYMMETRY SessionSymmetry
INVARIANTS SnapshotCurrent AtMostOneBrokerCall ReservedBeforeCall
PROPERTIES NoExposureBeforeReconciliation
CHECK_DEADLOCK FALSE
