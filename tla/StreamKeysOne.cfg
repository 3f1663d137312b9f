CONSTANTS
  u1 = u1
  q1 = q1
  q2 = q2
  q3 = q3
  Users = {u1}
  Reqs = {q1, q2, q3}
  Owner <- MCOwner
  NoIngress = NoIngress
SPECIFICATION KeysSpec
SYMMETRY Symmetry
INVARIANTS
  OneIngress
CHECK_DEADLOCK FALSE
