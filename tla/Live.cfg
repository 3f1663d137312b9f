CONSTANTS
  Slugs = {s1, s2}
  Owners = {s1}
  Texts = {t, long}
  TooLong = {long}
  Requests = {r}
  Nothing = Nothing
SPECIFICATION LiveSpec
CONSTRAINT Bound
INVARIANTS
  LiveTypeOK
  ListedWasLive
  LiveIsListed
  HiddenStays
  SavesHold
CHECK_DEADLOCK FALSE
