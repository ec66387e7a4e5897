\* A warm container serves three invocations under the platform's timeout.
CONSTANTS
  Item <- MCItem
  Percent <- MCPercent
  MaxItems = 3
  Capacity = 2
  TimesOut = TRUE
  MaxCalls = 3
  None = None
SPECIFICATION Spec
INVARIANTS TypeOK AnswerIsThisCrawl ReactorRunsOnce StandstillHasCause
CHECK_DEADLOCK FALSE
