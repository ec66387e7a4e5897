\* Every kind of ad against every pair of arguments and every page of styles.
CONSTANTS
  Letter <- MCLetter
  MakeModels <- MCMakeModels
  Page <- MCPage
  StylePages <- MCStylePages
  MaxMiles = 200000
  KbbModels <- MCKbbModels
  None = None
SPECIFICATION Spec
INVARIANTS NumbersAreWhole SearchesAgree StyleIsPreferred
CHECK_DEADLOCK FALSE
