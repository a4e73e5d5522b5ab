\* One upload, and a page that opens its socket twice, or changes its view
\* twice, or does each once, with a channel of one event: the first two lists
\* are of the library, the third of a view without the item.
SPECIFICATION FairSpec
CONSTANTS
  MaxConns = 2
  Notifiers <- MCNotifiers
  Buffer = 1
  MaxLoads = 2
  Library = {0, 1}
  MaxTrouble = 1
INVARIANTS
  TypeOK
  NoPanic
  ViewConverges
  NothingInvented
PROPERTIES
  PumpsEnd
  BroadcastEnds
CHECK_DEADLOCK FALSE
