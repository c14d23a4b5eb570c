\* Two callers whose refreshes cancel each other; two clients with If-Match and a
\* single writer, whose tag may be deleted; uploads with every strategy and every
\* fault. Fair scheduling.
SPECIFICATION ClientSpec
CONSTANTS
  Parts = {"auth", "cas", "upload"}
  Callers = {a1, a2}
  Keys = {k1, k2}
  FlightIds = {f1, f2}
  NoFlight = NoFlight
  NoToken = NoToken
  Skew = 1
  ExpiresIn = {1}
  Elapsed = {0}
  MaxGeneration = 4
  Workloads <- MCWorkloads
  Clients = {c1, c2, c3}
  Capable = {c1, c2}
  MaxRetries = 2
  MaxDeletes = 3
  Sizes = {0, 1, 3, 4, 5, 6, 7, 9}
  Pieces = {1, 2}
  ChunkLimit = 3
  Threshold = 4
  UploadRetries = 2
  Strategies = {"two_step", "monolithic", "chunked"}
  Conducts <- AnyConduct
  NoRange = NoRange  Invalid = Invalid
INVARIANTS
  AckedKept
  ConflictsExplained
  FinishWhole
  OkMeansStored
  InterruptionsSurvived
PROPERTIES
  RequestsReturn
  ImplementsAtomic
  CallsReturn
  Returns
CHECK_DEADLOCK FALSE
