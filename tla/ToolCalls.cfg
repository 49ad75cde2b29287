SPECIFICATION ToolSpec
CONSTANTS
  N = 3
  Plans <- MCPlans
  Concurrency = 2
  MaxExternal = 2
  MaxEdits = 1
  MaxMishaps = 1
CHECK_DEADLOCK FALSE
INVARIANTS
  TraceIsFaithful
  EffectsAreContained
PROPERTIES
  AnswerEnds
