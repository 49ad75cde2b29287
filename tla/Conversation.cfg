SPECIFICATION ServingSpec
CONSTANTS
  SystemCost = 1
  MemoryCost = 1
  DigestCost = 1
  SnippetCost = 1
  ChunkSize = 1
  Kept = 3
  Near = {2}
  KeepMessages = 2
  MinBatch = 1
  MaxBatch = 4
  MaxSends = 2
  Tasks = {t1, t2}
  MaxFaults = 1
  Window <- MCWindow
  MaxTurns = 2
  MaxAttempts = 2
  MaxCalls = 4
  QuestionSizes = {1, 8, 9}
  Results <- MCResults
  Tags = {t1, t2}
  MaxNesting = 1
  ToolIndexes = {1, 2}
  MaxPieces = 5
  MaxToolText = 1
  MaxModelCalls = 2
  Embedders = {1, 2}
  Texts = {x, y}
  Tenants = {n1}
  MaxCached = 1
  TimeToLive = 1
  LastTime = 2
  NoNamespace = NoNamespace
  RowIds = {1, 2, 3}
  Times = {0, 1, 2}
  PageLimit = 1
  MaxRowEdits = 2
  NoCursor = NoCursor
CHECK_DEADLOCK FALSE
INVARIANTS
  MemoryIsWhole
  RequestIsFit
  StreamIsFaithful
  EmbeddingsAreRight
  ListIsExact
