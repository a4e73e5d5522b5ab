\* A completion cut off by a crash between the rename and the insert.
SPECIFICATION Spec
CONSTANTS
  Sessions = {s1}
  Requests = {r1, r2}
  Chunks = {c1, c2}
  LastChunk = c2
  JanitorLimit = 1
  MaxCrashes = 1
  MaxFaults = 0
  MaxLost = 0
INVARIANT Resumable
CHECK_DEADLOCK FALSE
