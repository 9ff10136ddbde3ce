SPECIFICATION FairSpec
CONSTANTS
  MaxDetections = 2
  MaxRequests = 1
  MaxDrops = 1
  MaxErrors = 0
  MaxPieces = 1
  MaxInbox = 2
PROPERTY InterruptionEnds
PROPERTY AnswerEnds
CHECK_DEADLOCK FALSE
