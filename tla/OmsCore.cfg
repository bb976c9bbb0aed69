SPECIFICATION FairSpec
CONSTANTS
  Order = {o1}
  BrokerId = {o1}
  Session = {s1, s2}
  Quantity = 2
  MaxRecoveries = 1
  MaxFacts = 4
  NoId = NoId
  NoSession = NoSession
  NoOrder = NoOrder
  NoReply = NoReply
INVARIANTS TypeOK NoInternalFault BrokerTruth
PROPERTIES LifecycleMonotone RecoveryResolves ImplementsWriterLease RecoveryCompletes
CHECK_DEADLOCK FALSE
