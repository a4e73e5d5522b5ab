\* Two sessions and a janitor that takes one per pass: every row and every
\* staging file goes in the end.
SPECIFICATION FairSpec
CONSTANTS
  Sessions = {s1, s2}
  Requests = {r1}
  Chunks = {c1}
  LastChunk = c1
  JanitorLimit = 1
  MaxCrashes = 1
  MaxFaults = 1
  MaxLost = 1
PROPERTIES
  RowsReclaimed
  StagingReclaimed
CHECK_DEADLOCK FALSE
