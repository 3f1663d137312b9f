CONSTANTS
  Users = {u1, u2}
  Nobody = Nobody
  Requests = {q1, q2}
  MaxTokens = 3
  MaxNonces = 2
SPECIFICATION SessionsSpec
CONSTRAINT Bound
SYMMETRY Symmetry
INVARIANTS
  SessionsTypeOK
  ConfirmedOnly
  AsLastAnswered
  TokenNamesOne
  EndedForGood
CHECK_DEADLOCK FALSE
