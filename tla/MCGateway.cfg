SPECIFICATION LateSpec
CONSTANTS
  p1 = p1
  p2 = p2
  p3 = p3
  r1 = r1
  r2 = r2
  Requests = {r1, r2}
  Providers = {p1, p2}
  Routes <- TwoProviders
  Streaming = {FALSE}
  AdcProviders = {}
  TranslatedProviders = {}
  Slots = {1, 2}
  WindowDuration = 1
  MinRequests = 2
  FailureThreshold = 50
  OpenTtl = 1
  MaxTtl = 2
  BackoffNum = 2
  BackoffDen = 1
  CounterModulus = 2
  Answers = {"ok", "rateLimited", "serverError"}

PROPERTIES NoNewCallsWhileOpen ClosesOnCallAnswer OnlyOvertakenCallsArriveLate
SYMMETRY ConnectionSymmetry
