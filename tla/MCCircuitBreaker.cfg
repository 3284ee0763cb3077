SPECIFICATION FairSpec
CONSTANTS
  Providers = {p1}
  Slots = {1, 2, 3, 4}
  WindowDuration = 2
  MinRequests = 2
  FailureThreshold = 40
  OpenTtl = 2
  MaxTtl = 5
  BackoffNum = 3
  BackoffDen = 2
INVARIANTS TypeOK ClosedIsHealthy FailuresAreRequests BackoffBounded
PROPERTIES OpensOnlyOnEvidence KeepsGate OpenIsProbed HealsForGood
