SPECIFICATION Spec
CONSTANTS
  o1 = o1
  o2 = o2
  b1 = b1
  b2 = b2
  NoId = NoId
  Order = {o1, o2}
  BrokerId = {b1, b2}
  Quantity = 2
  Evidence <- AnyEvidence
  MaxOffers = 3
  StartStatus = {"UNKNOWN", "CANCEL_PENDING"}
INVARIANTS ContradictionFailsClosed
