\* Heights around every rung and both encoders; a job of two runs with a
\* deadline, a kill and a failing removal at any point.
SPECIFICATION FairSpec
CONSTANTS
  Heights = {0, 1, 2, 3, 479, 480, 719, 720, 721, 1079, 1080, 1081, 2160}
  Durations = {0, 4}
  MaxTicks = 5
  HWAccels = {"auto", "videotoolbox", "none"}
  MaxCalls = 2
  MaxFaults = 1
INVARIANTS
  TypeOK
  EndsClean
  LadderFits
PROPERTIES
  ProgressClimbs
  CallsEnd
CHECK_DEADLOCK FALSE
