SPECIFICATION RuntimeSpec
CONSTANTS
  Plan <- HaltPlans
  Policy <- SmallPolicy
  HealthAge = 2
  None = None
  RequestId = {r1, r2, r3}
SYMMETRY RequestSymmetry
INVARIANT AutoHaltReported
CHECK_DEADLOCK FALSE
