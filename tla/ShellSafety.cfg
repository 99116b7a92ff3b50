CONSTANTS
  Shell = {s1,s2}
  Piped = {s1}
  Client = {c1,c2}
  None = None
  MaxGen = 2
  MaxFaults = 1
  SharedGroup = FALSE
SPECIFICATION Spec
SYMMETRY ClientSymmetry
CONSTRAINT Small
INVARIANTS
  ExitedIsDead
  RunningIsWatched
  DiskNotStale
  KillScope
PROPERTY ExitIsFinal
CHECK_DEADLOCK FALSE
