SPECIFICATION WorkspaceSpec
CONSTANTS
  a1 = a1
  a2 = a2
  m = m
  p = p
  s = s
  u1 = u1
  u2 = u2
  k1 = k1
  k2 = k2
  None = None
  Clear = Clear
  Users = {a1, a2, m}
  Admins = {a1, a2}
  Rows = {p, s}
  Providers = {p}
  Urls = {u1, u2}
  Values = {k1, k2}
  MaxOps = 3
  a = a
  o = o
  Nobody = Nobody
  Members = {a, o}
  Managers = {a}
  Sessions = {1}
  MaxVersions = 3
  MaxWrites = 4
  owner = owner
  reader = reader
  People = {owner, reader}
  Administrators = {owner}
  Readers = {reader}
  Team = Team
  Everyone = Everyone
  MaxChanges = 5
  Deliveries = {1, 2, 3}
  Sweepers = {1, 2}
  DigestBatch = 2
  Calls = {1}
  Captures = {2, 3}
  Shared = Shared
  Generations = {1, 2}
  Executions = {1, 2}
  MaxCachedResults = 2
  MaxCachedResultBytes = 3
  MaxResultBytes = 2
  MaxRequests = 4
  MaxCloses = 1
  NoJob = NoJob
  Setters = {1, 2}
  TopLevel = 2
  FallbackModels = {11}
  MaxFallbacks = 2
  Logos = {21}
  MaxSettings = 3
  NoSetting = NoSetting
CHECK_DEADLOCK FALSE
INVARIANTS
  CredentialsAreSound
  VersionsAreSound
  AccessIsExact
  RefusalRecordedOnce
  InboxIsHonest
  ArtifactsMatchObjects
  RunnerIsContained
  PolicyIsHonest
