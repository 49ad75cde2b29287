SPECIFICATION FairSpec
CONSTANTS
    Deliveries = {d1, d2}
    Resyncs = {r1}
    Batches = {b1}
    MaxRetries = 0
    MaxFaults = 1
    MaxLapses = 1
    MaxRequests = 1
CHECK_DEADLOCK FALSE
INVARIANTS
  ReadyOwnsRows
  IndexFollowsRows
PROPERTIES
  DocumentSettles
