SPECIFICATION EventSpec
CONSTANTS
  Order = {o1}
  BrokerId = {b1}
  Quantity = 3
  NoId = NoId
  NoEvent = NoEvent
  MaxDay = 2
  Plan <- Plans
INVARIANTS EventsTypeOK NothingLost HealthyViewComplete SnapshotConfirmsFills
PROPERTY EventsDelivered
CHECK_DEADLOCK FALSE
