\* One video under two workers and two handlers: uploads, edits and deletes
\* race the processing, with one restart and two failures anywhere.
SPECIFICATION Spec
CONSTANTS
  Workers = {w1, w2}
  Jobs = {m1}
  QueueCap = 1
  Videos = {m1}
  Audios = {}
  Breakable = {m1}
  Requests = {r1, r2}
  MaxEdits = 2
  MaxRestarts = 1
  MaxFaults = 2
INVARIANTS
  TypeOK
  RowsPointAtFiles
  ReadyIsComplete
  NothingForgotten
  FavoriteKept
PROPERTIES
  FinishedStays
CHECK_DEADLOCK FALSE
