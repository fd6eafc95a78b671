\* Three calls: a cell that fails, the one that pays for it, and one after.
SPECIFICATION Spec
CONSTANTS
  MaxCells = 3
INVARIANTS
  TypeOK
  ReplyAnswersCell
  RerunLeavesNoTrace
  SnapshotNeverRegresses
  LossNeverSilent
  EpochMarksAccumulator
  NoOrphanKernel
  AcceptIsWoken
  SInv
