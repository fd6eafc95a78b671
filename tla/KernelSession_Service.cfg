\* Two calls: every pair of a failing cell, its respawn, and close().
SPECIFICATION FairSpec
CONSTANTS
  MaxCells = 2
PROPERTIES
  ImplementsCellService
  CloseReturns
  CellReturns
  CloseFreesWorker
  LeftoverDies
