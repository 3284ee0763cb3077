SPECIFICATION Spec
CONSTANTS
  CounterModulus = 1000000
  Tables <- SingleRoutes
  Sample = 45
INVARIANTS WholeCyclesAreExact NeverFarOff
CHECK_DEADLOCK FALSE
