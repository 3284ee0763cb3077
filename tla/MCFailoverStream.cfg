SPECIFICATION Spec
CONSTANTS
  p1 = p1
  p2 = p2
  p3 = p3
  p4 = p4
  r1 = r1
  Requests = {r1}
  Providers = {p1, p2, p3}
  Routes <- ShortRoutes
  Streaming = {FALSE, TRUE}
  Answers = {"ok", "badBody", "rateLimited", "serverError", "network", "timeout", "badRequest", "authError", "otherStatus"}
  AdcProviders = {p2}
  TranslatedProviders = {p2, p3}
  Slots = {1}
  WindowDuration = 1
  MinRequests = 1
  FailureThreshold = 50
  OpenTtl = 1
  MaxTtl = 1
  BackoffNum = 1
  BackoffDen = 1
  CounterModulus = 4
PROPERTIES ClosesOnlyOnAnswer
