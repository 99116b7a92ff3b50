CONSTANTS
  Relay = {r1,r2,r3}
  Ensurer = {relay}
  None = None
  Capacity = 1
  MaxChunks = 2
  MaxWakes = 3
SPECIFICATION FairSpec
INVARIANTS
  NoOrphan
  ActiveIsAlive
PROPERTY RelaysEnd
CHECK_DEADLOCK FALSE
