SPECIFICATION FairSpec
CONSTANTS
    Runs = {r1, r2}
    TaskRuns = {r2}
    Execs = {1, 2}
    None = None
    MaxConcurrency = 1
    Reserved = 1
    DailyCap = 1
    LastDay = 1
    MaxGen = 3
    MaxFaults = 1
CHECK_DEADLOCK FALSE
INVARIANTS
  AccountsHold
PROPERTIES
  ReleaseAfterStop
  RunsSettle
