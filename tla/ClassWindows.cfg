SPECIFICATION FairSpec
CONSTANTS
  Windows = {w1, w2}
  Modes = {TRUE, FALSE}
  MaxRequests = 5
  MaxDetections = 2
INVARIANTS
  TypeOK
  OpenMicIsAnnounced
  OneMicrophone
  ClosedMicIsQuiet
  SilentOnlyWhenTorn
  NoSessionWithoutClass
PROPERTY
  RequestsAreAnswered
CHECK_DEADLOCK FALSE
