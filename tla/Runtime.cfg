SPECIFICATION RuntimeSpec
CONSTANTS
  Plan <- Plans
  Policy <- SmallPolicy
  HealthAge = 2
  None = None
  RequestId = {r1, r2, r3}
SYMMETRY RequestSymmetry
INVARIANTS RuntimeTypeOK AuditTellsMode AlertsCurrent AcceptedIsHarmless HaltTakesEffect
PROPERTIES TickHalts NewestWins
CHECK_DEADLOCK FALSE
