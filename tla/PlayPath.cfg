SPECIFICATION Spec
CONSTANTS
  Keys = {60, 127}
  Velocities = {100}
  Compressions = {40, 100}
  Temperaments = {"equal", "lehman"}
  Channels = {0, 1}
  OddBytes = {0, 255}
  Capacity = 63
  MaxChanges = 1
  MaxEvents = 3
INVARIANTS
  TypeOK
  TunedAsChosen
  HeldSounds
  ReleasedFades
PROPERTIES
  TuningArrives
