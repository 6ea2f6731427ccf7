SPECIFICATION MCSpec
CONSTANTS
  Procs = {p1, p2, p3}
  Versions = 3
  Statements = 2
  MaxCrashes = 2
INVARIANT
  MigrationsAreTransactional
CHECK_DEADLOCK FALSE
