SPECIFICATION Spec
CONSTANTS
  react = react
  verifier = verifier
  plan = plan
  Names <- MCNames
  Boot <- MCBoot
  Sealed <- MCSealed
  BootKind <- MCBootKind
  Bodies = {shipped, edited}
  BootBody = shipped
  Fresh = {o1, o2}
  MaxOps = 2
  MaxHeld = 1
  None = None
  Var = Var
SYMMETRY Identities
INVARIANTS
  TypeOK
  SealHolds
  RegisteredUnderOwnName
  MainAgrees
PROPERTIES
  RestartKeepsPolicies
  DeletedStaysDeleted
  DefineBindsCanonical
  NeverEvictedWhileBound
