SPECIFICATION Spec
CONSTANTS
  p1 = p1
  p2 = p2
  p3 = p3
  p4 = p4
  r1 = r1
  Requests = {r1}
  Providers = {p1, p2, p3, p4}
  Routes <- LongRoute
  Streaming = {FALSE}
  Answers = {"ok", "rateLimited"}
  AdcProviders = {}
  TranslatedProviders = {}
  Slots = {1}
  WindowDuration = 1
  MinRequests = 1
  FailureThreshold = 50
  OpenTtl = 2
  MaxTtl = 2
  BackoffNum = 1
  BackoffDen = 1
  CounterModulus = 4
PROPERTIES FallsBackToHealthy
