SPECIFICATION FairSpec
CONSTANTS
  Windows = {w1, w2}
  Modes = {TRUE}
  MaxRequests = 6
  MaxDetections = 1
INVARIANT
  IndicatorIsHonest
CHECK_DEADLOCK FALSE
