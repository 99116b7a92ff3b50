CONSTANTS
  Stream = {out,err}
  Subscriber = {u1,u2}
  None = None
  Capacity = 2
  MaxBatch = 2
  MaxChunks = 4
SPECIFICATION FairSpec
INVARIANTS
  TypeOK
  CountExact
  
PROPERTIES
  
  ReaderGoesOn
CHECK_DEADLOCK FALSE
