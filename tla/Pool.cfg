\* Two workers, four jobs and a buffer of two, so that the buffer fills while
\* both workers are busy; both ways of stopping.
SPECIFICATION FairSpec
CONSTANTS
  Workers = {w1, w2}
  Jobs = {j1, j2, j3, j4}
  QueueCap = 2
  Stops = {"hard", "soft"}
INVARIANTS
  TypeOK
  EachJobOnce
  SoftStopDrains
  PanicsOnlyInStragglers
PROPERTIES
  AcceptedIsRun
  StopEnds
CHECK_DEADLOCK FALSE
