\* Three overlapping handlers and the janitor on one two-chunk session, with a
\* crash, a failed statement and an unseen commit in any order.
SPECIFICATION Spec
CONSTANTS
  Sessions = {s1}
  Requests = {r1, r2, r3}
  Chunks = {c1, c2}
  LastChunk = c2
  JanitorLimit = 1
  MaxCrashes = 1
  MaxFaults = 1
  MaxLost = 1
SYMMETRY Symmetry
INVARIANTS
  TypeOK
  AtMostOneItem
  ItemIsWholeFile
  AckedChunksKept
  AbortLeavesNothingStaged
  NoOrphanFile
PROPERTY ImplementsContract
CHECK_DEADLOCK FALSE
