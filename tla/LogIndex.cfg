CONSTANTS
  Appends = FALSE
  MaxLen = 3
  MaxWrites = 3
  MaxResets = 2
  MaxWindows = 3
SPECIFICATION Spec
INVARIANTS
  TypeOK
  OneGenerationOneContent
CHECK_DEADLOCK FALSE
