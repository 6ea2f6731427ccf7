SPECIFICATION Spec
CONSTANTS
  c1 = c1
  c2 = c2
  Nothing = Nothing
  Contents = {"hi", "x", "y", "search", "long", "key"}
  Clients = {c1, c2}
  Modes = {"strict", "parity", "extreme"}
  Secrets = {"key"}
  Usages = {0, 1}
  KeptRuns = 1
  MaxRestarts = 1
  SizeOf <- MCSizeOf
  Requests <- MCRequests
INVARIANT
  ExclusionsArePreserved
CHECK_DEADLOCK FALSE
