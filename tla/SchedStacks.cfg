SPECIFICATION Spec
CONSTANTS
    Schedules = {s1}
    Dispatchers = {d1, d2}
    Callers = {c1}
    Runs = {r1, r2}
    MaxInFlight = 1
    MaxFireRetries = 1
    MaxPending = 2
    NoopPatches = FALSE
    RateLimited = FALSE
    Faults = FALSE
    LossyBroker = FALSE
CHECK_DEADLOCK FALSE
INVARIANTS
  SkipNeverStacks
