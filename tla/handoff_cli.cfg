\* The command line: no timeout, the call must return by itself.
CONSTANTS
  Item <- MCItem
  Percent <- MCPercent
  MaxItems = 3
  Capacity = 2
  TimesOut = FALSE
  MaxCalls = 1
  None = None
SPECIFICATION FairSpec
PROPERTIES CallsReturn
CHECK_DEADLOCK FALSE
