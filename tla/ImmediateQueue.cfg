SPECIFICATION Spec
CONSTANTS
  Size = 8
  Startup <- NoStartup
  Lengths = {2, 3, 5}
  Misread = {0, 2, 7}
  EmptyReturns = {TRUE, FALSE}
  MaxMessages = 4
  MaxFed = 24
INVARIANTS
  FramesWhole
  DamageNeedsSplit
PROPERTIES
  EveryAcceptedPlayed
