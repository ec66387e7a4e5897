\* Two start requests, two that callbacks make, two downloads at once.
CONSTANTS
  r1 = r1  r2 = r2  r3 = r3  r4 = r4
  Request = {r1, r2, r3, r4}
  Start <- MCStart
  Concurrency = 2
  MaxRedirects = 1
SPECIFICATION FairSpec
INVARIANTS TypeOK InOnePlace DownloadsBounded NoLostWakeup EveryItemIsHeard StopsClean
PROPERTIES RequestsAdvance WorksOffTasks EngineStops RequestsAnswered
CHECK_DEADLOCK FALSE
