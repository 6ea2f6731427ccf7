SPECIFICATION MCSpec
CONSTANTS
  b1 = b1
  b2 = b2
  v1 = v1
  v2 = v2
  lf = lf
  crlf = crlf
  MaxBuilds = 3
  MaxChanges = 3
  Builders = {b1, b2}
  Paths = {"file"}
  Contents = {lf, crlf}
  Text <- MCText
  Versions = {v1, v2}
  Nothing = Nothing
SYMMETRY Symmetry
INVARIANTS
  SettledAreCurrent
  UnchangedIsServed
CHECK_DEADLOCK FALSE
