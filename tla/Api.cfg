\* Two users, one of whom may be promoted or demoted once, two overlapping
\* handlers on one collection and two items, one exit of the process.
SPECIFICATION Spec
CONSTANTS
  NFiles = 2
  MaxStops = 1
  Users = {u1, u2}
  Names = {n1, n2}
  Cols = {k1}
  Media = {m1, m2}
  Labels = {l1}
  Positions = {0}
  Requests = {r1, r2}
  MaxTime = 3
  MaxLogins = 2
  MaxRoleChanges = 1
SYMMETRY Symmetry
INVARIANTS
  TypeOK
  ServesMigrated
  ItemsOfOwner
PROPERTIES
  OnlyOwnersChange
  OrderStable
  SessionsAndRestarts
CHECK_DEADLOCK FALSE
