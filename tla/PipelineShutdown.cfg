\* A worker is on a photo when SIGTERM arrives.
SPECIFICATION Spec
CONSTANTS
  Workers = {w1}
  Jobs = {m1}
  QueueCap = 1
  Videos = {}
  Audios = {}
  Breakable = {}
  Requests = {r1}
  MaxEdits = 0
  MaxRestarts = 1
  MaxFaults = 0
INVARIANT InterruptedIsRequeued
CHECK_DEADLOCK FALSE
