\* One crawl, two searches that list the same ads, two ads followed per search.
CONSTANTS
  a1 = a1  a2 = a2  c1 = c1  c2 = c2
  Crawl = {c1}
  Search = {s1, s2}
  Ad = {a1, a2}
  PageLimit = 2
  SearchPage <- OverlapPages
  Price = {115}
  Miles = {1}
  KbbPrice = {0, 100}
  MaxMiles <- OverlapMaxMiles
  ExcessPrice <- DefaultExcess
  None = None
SPECIFICATION Spec
INVARIANTS TypeOK ResultsAreCached CountersAddUp
PROPERTIES LateValuationIsLost JobsNeverGoBack CrawlsWorkOffTasks
CHECK_DEADLOCK FALSE
