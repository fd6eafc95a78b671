\* One regular round before the reminder, one with it, one of return_budget.
SPECIFICATION FairLoopSpec
CONSTANTS
  MaxTurns = 2
  ReturnBudget = 1
  MaxCalls = 3
INVARIANTS
  LoopTypeOK
  KernelSeesWholeTrajectory
  WireWellFormed
  FailureComesAfterReminder
PROPERTIES
  LoopEnds
