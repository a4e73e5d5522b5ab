\* A delete overlaps the processing of the item; nothing fails.
SPECIFICATION Spec
CONSTANTS
  Workers = {w1}
  Jobs = {m1}
  QueueCap = 1
  Videos = {}
  Audios = {}
  Breakable = {}
  Requests = {r1}
  MaxEdits = 1
  MaxRestarts = 0
  MaxFaults = 0
INVARIANT DeleteRemovesAll
CHECK_DEADLOCK FALSE
