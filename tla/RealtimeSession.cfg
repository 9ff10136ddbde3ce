SPECIFICATION FairSpec
CONSTANTS
  Connections = {c1, c2}
  None = None
  MaxTurns = 2
  MaxFailures = 1
  MaxDrops = 2
  MaxRenewals = 2
  MaxWire = 3
INVARIANTS TypeOK LossIsKnown AnswerIsInTurn
PROPERTIES LiveAnswerIsKept Reconnects LinkSpec
CHECK_DEADLOCK FALSE
