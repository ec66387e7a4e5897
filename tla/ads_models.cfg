\* An ad of a make given without a model raises in the callback.
CONSTANTS
  Letter <- MCLetter
  MakeModels <- MCMakeModels
  Page <- MCPage
  StylePages <- MCStylePages
  MaxMiles = 200000
  KbbModels <- MCKbbModels
  None = None
SPECIFICATION Spec
INVARIANTS ModelsAreOptional
CHECK_DEADLOCK FALSE
