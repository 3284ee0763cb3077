SPECIFICATION Spec
CONSTANTS
  CounterModulus = 1000000
  Tables <- TwoEvenRoutes
  Sample = 1000
INVARIANTS WithinFivePercent
CHECK_DEADLOCK FALSE
