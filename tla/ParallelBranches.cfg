SPECIFICATION FairSpec
CONSTANTS
  Policies = {predict}
  Classes = {predict}
  MaxCalls = 2
  Width = 2
  Pools = {1, 2}
  MaxEdits = 2
  None = None
INVARIANTS
  EditsSurvive
  NoBranchOutlivesCell
  NothingVanishes
PROPERTIES
  CallsReturn
