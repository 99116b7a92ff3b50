CONSTANTS
  None = None
  Records = 3
  Shift = 1
  Fit = 2
  MaxRecords = 4
  MaxNews = 1
  MaxResets = 1
  MaxFails = 1
  MaxActs = 2
CONSTRAINT Few
SPECIFICATION FairSpec
INVARIANTS
  TypeOK
  ViewConsecutive
  NoStalePartial
PROPERTIES
  PagesMove
  FollowerCatchesUp
CHECK_DEADLOCK FALSE
