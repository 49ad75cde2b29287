SPECIFICATION FairStream
CONSTANTS
  Clients = {c1}
  NoTerm = NoTerm
  MaxChunks = 2
  MaxTurns = 1
  MaxReplay = 8
  MaxJoins = 1
  MaxFaults = 1
CHECK_DEADLOCK FALSE
INVARIANTS
  AnswerIsSettled
  ReplayIsLive
PROPERTIES
  StreamEnds
