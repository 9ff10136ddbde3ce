SPECIFICATION FairSpec
CONSTANTS
  MaxDetections = 2
  MaxRequests = 0
  MaxDrops = 0
  MaxErrors = 0
  MaxPieces = 1
  MaxInbox = 2
PROPERTY CaptureEnds
CHECK_DEADLOCK FALSE
