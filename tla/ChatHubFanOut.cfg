CONSTANTS
  s1 = s1
  s2 = s2
  m1 = m1
  m2 = m2
  m3 = m3
  Slugs = {s1, s2}
  Chans = {c1, c2, c3}
  Msgs = {m1, m2, m3}
  Room <- MCRoom
  BufCap = 1
SPECIFICATION HubSpec
SYMMETRY Symmetry
INVARIANTS
  FanOut
