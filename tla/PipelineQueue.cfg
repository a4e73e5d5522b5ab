\* More items than the queue takes, and two workers: who queues what, and
\* that everything queued is finished.
SPECIFICATION FairSpec
CONSTANTS
  Workers = {w1, w2}
  Jobs = {m1, m2}
  QueueCap = 1
  Videos = {}
  Audios = {m2}
  Breakable = {m1, m2}
  Requests = {r1}
  MaxEdits = 0
  MaxRestarts = 2
  MaxFaults = 1
INVARIANT
  OneWorkerPerItem
PROPERTY
  Settles
CHECK_DEADLOCK FALSE
