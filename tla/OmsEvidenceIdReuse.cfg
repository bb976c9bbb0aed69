SPECIFICATION Spec
CONSTANTS
  Order = {o1}
  BrokerId = {o1}
  Session = {s1, s2}
  Quantity = 1
  MaxRecoveries = 2
  MaxFacts = 2
  NoId = NoId
  NoSession = NoSession
  NoOrder = NoOrder
  NoReply = NoReply
SYMMETRY SessionSymmetry
PROPERTIES RecoveryResolves
CHECK_DEADLOCK FALSE
