SPECIFICATION Spec
CONSTANTS
  Size = 4
  Requested = 3
  MaxBytes = 12
INVARIANTS
  PointersCount
  InOrder
  NoDataRace
  ClaimsHold
PROPERTY ImplementsFifo
