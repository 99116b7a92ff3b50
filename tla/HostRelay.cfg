CONSTANTS
  Relay = {r1,r2}
  Ensurer = {h1,h2}
  Browser = {b1,b2}
  Shell = {s1,s2}
  Served = s1
  None = None
  Capacity = 1
  MaxChunks = 2
  MaxRequests = 4
SPECIFICATION Spec
SYMMETRY Symmetry
CONSTRAINT Bound
INVARIANTS
  ActiveIsAlive
  SettlesWhenAlone
  NoOrphanInOrder
  ViewsInOrder
CHECK_DEADLOCK FALSE
