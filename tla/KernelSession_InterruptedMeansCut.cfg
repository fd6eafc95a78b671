SPECIFICATION Spec
CONSTANTS
  MaxCells = 2
INVARIANTS
  InterruptedMeansCut
