CONSTANTS
  SpecId = {p1,p2}
  Shell = {s1,s2,s3,s4}
  Applier = {a1,a2}
  None = None
  MaxCalls = 3
CONSTRAINT LastAlone
SPECIFICATION Spec
SYMMETRY ApplySymmetry
INVARIANTS
  OnePerSpec
  Pruned
CHECK_DEADLOCK FALSE
