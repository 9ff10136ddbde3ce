SPECIFICATION FairSpec
CONSTANTS
  MaxDetections = 2
  MaxRequests = 1
  MaxDrops = 0
  MaxErrors = 0
  MaxPieces = 1
  MaxInbox = 2
PROPERTY AnswerBelongsToItsTurn
CHECK_DEADLOCK FALSE
