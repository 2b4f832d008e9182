SPECIFICATION DiagramSpec
CONSTANTS
  None = None
  Captures <- AllCaptures
  StartModes = {"keys"}
  ReducedMotion = FALSE
  MaxHighlit = 1
  MaxActs = 2
INVARIANTS StatementTellsTheTruth JoinsFollowOverrides CardsMatchEdges RemedyReconnects
CHECK_DEADLOCK FALSE
