SPECIFICATION BeatSpec
CONSTANTS
    Schedules = {s1}
    Dispatchers = {d1, d2}
    Callers = {c1, c2}
    OneCaller = c1
    Runs = {r1, r2}
    MaxInFlight = 1
    MaxFireRetries = 1
    MaxPending = 1
    NoopPatches = FALSE
    RateLimited = FALSE
    Faults = FALSE
    LossyBroker = TRUE
    Requests = {q1, q2}
    Janitor = Janitor
    None = None
    PartNumbers = {1, 2}
    MaxRequests = 4
    MaxPuts = 4
    MaxFaults = 2
CHECK_DEADLOCK FALSE
INVARIANTS
  EnabledIsProjected
  UploadIsWhole
PROPERTIES
  KeepsFiring
  SessionEnds
