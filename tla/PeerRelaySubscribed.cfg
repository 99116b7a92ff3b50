CONSTANTS
  Relay = {r1,r2}
  Ensurer = {relay}
  None = None
  Capacity = 1
  MaxChunks = 1
  MaxWakes = 3
SPECIFICATION FairSpec
PROPERTY SubscribedIsRelayed
CHECK_DEADLOCK FALSE
