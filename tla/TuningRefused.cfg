SPECIFICATION Spec
CONSTANTS
  Keys = {60}
  Velocities = {}
  Compressions = {100}
  Temperaments = {"equal", "lehman"}
  Channels = {0}
  OddBytes = {255}
  Capacity = 511
  MaxChanges = 24
  MaxEvents = 0
INVARIANTS
  TunedAsChosen
