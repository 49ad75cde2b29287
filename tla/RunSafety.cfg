SPECIFICATION FairSpec
CONSTANTS
    Workers = {w1, w2}
    Controllers = {c1}
    Users = {u1, u2}
    Seqs = {1}
    MaxRetries = 1
    MonotoneClock = TRUE
    Faults = TRUE
    MaxResets = 1
    MaxRedeliveries = 1
CHECK_DEADLOCK FALSE
INVARIANTS
  AuditLedger
  ExclusiveExecution
  NeverDoubleNotifies
PROPERTIES
  ImplementsContract
  HandoffOfHolder
  ClaimedRunTerminates
