CONSTANTS
  c1 = c1
  c2 = c2
  Users = {u1, u2}
  Channels = {c1, c2}
  NoChannel = NoChannel
  Goroutines = {g1, g2}
  MaxWire = 1
  Paths <- MCPaths
SPECIFICATION VoiceSpec
CONSTRAINT Bound
SYMMETRY Symmetry
INVARIANTS
  VoiceTypeOK
  ListsOrdered
  ViewHolds
