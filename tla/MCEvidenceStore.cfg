SPECIFICATION Spec
CONSTANTS
  p1 = p1
  p2 = p2
  plain = plain
  secret = secret
  text = text
  masked = masked
  r1 = r1
  r2 = r2
  k1 = k1
  Nothing = Nothing
  Procs = {p1, p2}
  Contents = {plain, secret}
  Texts = {text, masked}
  Persisted <- MCPersisted
  Owners = {k1}
  Revisions = {r1, r2}
  Checkpoints <- MCCheckpoints
  MaxClock = 1
SYMMETRY Symmetry
INVARIANTS
  TypeOK
  CheckpointEvidenceRetained
  LoadNeverMissing
  ReadsAreVerified
PROPERTY
  ImplementsRetention
