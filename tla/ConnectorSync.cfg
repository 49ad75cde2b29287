SPECIFICATION FairSpec
CONSTANTS
  Files = {f1, f2}
  Folder = {f2}
  Bodies = {b1, b2}
  FirstBody = b1
  None = None
  Workers = {w1}
  MaxLog = 2
  MaxQueue = 1
  MaxConnects = 2
  MaxFaults = 1
CHECK_DEADLOCK FALSE
INVARIANTS
  MirrorIsSound
PROPERTIES
  GrantChangesAtRest
  SyncsProgress
