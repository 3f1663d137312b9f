CONSTANTS
  a = a
  b = b
  Users = {a, b}
  Slugs = {s1, s2}
  Reqs = {q1, q2, q3}
  AdminIDs = {a}
  NoSlug = NoSlug
  Nobody = Nobody
SPECIFICATION AccountsSpec
CONSTRAINT Bound
SYMMETRY Symmetry
INVARIANTS
  AccountsTypeOK
  ClaimHolds
  AuditTellsBans
PROPERTIES
  SlugsOnlyClaimed
  AdminRemains
CHECK_DEADLOCK FALSE
