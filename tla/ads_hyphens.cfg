\* The model that find_model_by_desc returns has spaces.
CONSTANTS
  Letter <- MCLetter
  MakeModels <- MCMakeModels
  Page <- MCPage
  StylePages <- MCStylePages
  MaxMiles = 200000
  KbbModels <- MCKbbModels
  None = None
SPECIFICATION Spec
INVARIANTS ModelIsHyphenated
CHECK_DEADLOCK FALSE
