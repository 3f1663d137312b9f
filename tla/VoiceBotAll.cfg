CONSTANTS
  c1 = c1
  c2 = c2
  Users = {u1}
  Channels = {c1, c2}
  NoChannel = NoChannel
  Goroutines = {g1, g2}
  MaxWire = 1
  Paths <- MCPaths
SPECIFICATION VoiceSpec
INVARIANTS
  ListsAll
