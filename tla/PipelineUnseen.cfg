\* The INSERT of one upload is carried out and reports an error.
SPECIFICATION Spec
CONSTANTS
  Workers = {w1}
  Jobs = {m1}
  QueueCap = 1
  Videos = {}
  Audios = {}
  Breakable = {}
  Requests = {r1}
  MaxEdits = 0
  MaxRestarts = 0
  MaxFaults = 1
INVARIANT RowsNameFiles
CHECK_DEADLOCK FALSE
