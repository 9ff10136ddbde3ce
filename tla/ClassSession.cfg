SPECIFICATION FairSpec
CONSTANTS
  Windows = {w1}
  Modes = {TRUE}
  MaxRequests = 6
  MaxDetections = 1
INVARIANT
  ClassHasItsSession
CHECK_DEADLOCK FALSE
