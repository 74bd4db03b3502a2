SPECIFICATION Spec
CONSTANTS
  Size <- ProgramSize
  Startup <- TuningMessages
  Lengths = {3}
  Misread = {0, 127}
  EmptyReturns = {FALSE}
  MaxMessages = 121
  MaxFed = 124
INVARIANT WholeInOrder
