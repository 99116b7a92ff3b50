CONSTANTS
  Caller = {c1,c2}
  Task = {t1,t2}
  None = None
  MaxTokens = 3
  MaxTake = 2
  MaxCalls = 3
  MaxLost = 1
SPECIFICATION FairSpec
INVARIANTS
  TypeOK
  ReadOnce
  LogWhole
  LinesWhole
PROPERTY CallsEnd
CHECK_DEADLOCK FALSE
