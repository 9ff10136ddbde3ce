SPECIFICATION Spec
CONSTANTS
  MaxDetections = 2
  MaxRequests = 2
  MaxDrops = 1
  MaxErrors = 1
  MaxPieces = 2
  MaxInbox = 2
INVARIANT TypeOK
INVARIANT StreamsOnlyWhileCapturing
INVARIANT TimersOnlyWhileCapturing
INVARIANT SoundsOnlyWhileSpeaking
INVARIANT InterruptionIsAttended
INVARIANT ListeningHasNoOpenTurn
PROPERTY CancelledAnswerIsIgnored
CHECK_DEADLOCK FALSE
