\* Three callers that race for one key through two refreshes, or three requests.
SPECIFICATION FlightSpec
CONSTANTS
  Parts = {"calls", "requests"}
  Callers = {c1, c2, c3}
  Keys = {k1}
  FlightIds = {f1, f2, f3}
  NoFlight = NoFlight
  NoToken = NoToken
  Skew = 1
  ExpiresIn = {0, 3}
  Elapsed = {0, 1}
  MaxGeneration = 2
  Workloads <- MCWorkloads
SYMMETRY FlightSymmetry
INVARIANTS
  SingleFetch
  RegisteredIsLive
  NoLostWakeup
  RefreshIsFresh
  CacheIsCurrent
  RetryIsFresh
