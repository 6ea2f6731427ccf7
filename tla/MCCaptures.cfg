SPECIFICATION Spec
CONSTANTS
  p1 = p1
  p2 = p2
  Procs = {p1, p2}
  Nothing = Nothing
  MaxCaptures = 2
  MaxOperations = 5
  MaxCrashes = 2
SYMMETRY Symmetry
INVARIANTS
  AppearsWhole
  RedactionIsBound
CHECK_DEADLOCK FALSE
