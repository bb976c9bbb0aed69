SPECIFICATION PathSpec
CONSTANTS
  o1 = o1
  o2 = o2
  h1 = h1
  Order = {o1, o2}
  BrokerId = {o1, o2}
  Quantity = 1
  NoId = NoId
  Command <- AllCommands
  Scenario <- Scenarios
  NoCommand = NoCommand
  Host = {h1}
  NoHost = NoHost
INVARIANTS PathTypeOK AtMostOneCall SideEffectReported OneResultPerCommand ResultsAccepted
  SessionFuse CallsAreReserved HistoryComplete
PROPERTIES InboxDrains
CHECK_DEADLOCK FALSE
