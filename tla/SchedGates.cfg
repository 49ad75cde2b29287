SPECIFICATION Spec
CONSTANTS
    Schedules = {s1}
    Dispatchers = {d1, d2}
    Callers = {c1}
    Runs = {r1, r2, r3}
    MaxInFlight = 1
    MaxFireRetries = 1
    MaxPending = 1
    NoopPatches = TRUE
    RateLimited = TRUE
    Faults = TRUE
    LossyBroker = TRUE
SYMMETRY SlotSymmetry
CHECK_DEADLOCK FALSE
INVARIANTS
  FiresDoNotStack
