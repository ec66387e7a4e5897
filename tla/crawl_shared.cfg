\* Two crawls that value the same ad at once, differ in the odometer they accept, and end.
CONSTANTS
  a1 = a1  a2 = a2  c1 = c1  c2 = c2
  Crawl = {c1, c2}
  Search = {s1}
  Ad = {a1}
  PageLimit = 1
  SearchPage <- SharedPages
  Price = {80, 115}
  Miles = {1, 2}
  KbbPrice = {0, 100}
  MaxMiles <- SharedMaxMiles
  ExcessPrice <- DefaultExcess
  None = None
SPECIFICATION FairSpec
INVARIANTS RowsAreValuations PercentsNeverOverstate
PROPERTIES ExcessMilesAreCached Valued EveryCrawlEnds
CHECK_DEADLOCK FALSE
