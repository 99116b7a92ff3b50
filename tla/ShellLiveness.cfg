CONSTANTS
  Shell = {s1}
  Piped = {s1}
  Client = {c1}
  None = None
  MaxGen = 2
  MaxFaults = 1
  SharedGroup = FALSE
SPECIFICATION FairSpec
INVARIANT PlansAreSound
PROPERTIES
  ImplementsContract
  EveryExitPublished
  TerminateKills
  CallsReturn
CHECK_DEADLOCK FALSE
