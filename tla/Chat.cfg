CONSTANTS
  s1 = s1
  p1 = p1
  p2 = p2
  m1 = m1
  m2 = m2
  Slugs = {s1}
  Chans = {c1, c2}
  Msgs = {m1, m2}
  Pages = {p1}
  Room <- MCRoom
  Author <- MCAuthor
  Watching <- MCWatching
  BufCap = 1
  Limit = 1
  NoChan = NoChan
SPECIFICATION ChatFairSpec
CONSTRAINT InTurn
INVARIANTS
  ChatTypeOK
  ConnectedIsSubscribed
  AckedReaches
PROPERTIES
  KeepsPromise
  NeverDeaf
  Answered
  NoLeak
  ShownOrCut
