SPECIFICATION RunnerSpec
CONSTANTS
  Generations = {1, 2}
  Executions = {1, 2}
  MaxCachedResults = 2
  MaxCachedResultBytes = 3
  MaxResultBytes = 2
  MaxRequests = 4
  MaxCloses = 1
  NoJob = NoJob
CHECK_DEADLOCK FALSE
INVARIANTS
  EvictsOnlyWhenFull
