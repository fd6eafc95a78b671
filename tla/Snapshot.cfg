SPECIFICATION Spec
CONSTANTS
  None = None
  Vars = {x, y}
  Policies = {predict}
  Specs <- MCSpecs
  Terms <- MCTerms
  Inputs <- MCInputs
  Define <- MCDefine
  Validate <- MCValidate
  Schema <- MCSchema
  ToRecipe <- MCToRecipe
  FromRecipe <- MCFromRecipe
  FunctionsOf <- MCFunctionsOf
  Means <- MCMeans
  Admits <- MCAdmits
  PassesBounds <- MCPassesBounds
  FromLast <- MCFromLast
  FromFirst <- MCFromFirst
  Merged <- MCMerged
  Depth <- MCDepth
SYMMETRY Names
INVARIANTS
  LostIsNamed
  ConstraintsMean
  BoundsExported
