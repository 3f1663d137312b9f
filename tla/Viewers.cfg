CONSTANT MaxIds = 5
SPECIFICATION ViewersSpec
INVARIANTS
  ViewersTypeOK
  OfflineShown
  VideoUncovered
  ButtonTellsSound
CHECK_DEADLOCK FALSE
