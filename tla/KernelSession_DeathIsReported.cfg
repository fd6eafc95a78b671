SPECIFICATION Spec
CONSTANTS
  MaxCells = 2
PROPERTIES
  DeathIsReported
