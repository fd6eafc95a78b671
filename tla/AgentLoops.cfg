SPECIFICATION FairSpec
CONSTANTS
  RootDepth = 2
  TurnsCap = 1
  ExtraCap = 1
  DefaultBudget = 1
  Requests <- MCRequests
  SubPolicies = {"llm", "react_auto"}
  SubRequests <- MCSubRequests
  MaxCalls = 2
  NoInt = NoInt
  None = None
INVARIANTS
  DepthKept
  ReturnDiesWithCall
  UnansweredOnlyByInterrupt
  VerifiedOncePerError
PROPERTIES
  CallsEnd
