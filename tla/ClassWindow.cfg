SPECIFICATION FairSpec
CONSTANTS
  Windows = {w1}
  Modes = {TRUE, FALSE}
  MaxRequests = 8
  MaxDetections = 3
INVARIANT
  LosesSessionOnlyRobbed
PROPERTY
  ActivationEnds
CHECK_DEADLOCK FALSE
