\* A car far above its KBB price is reported all the same.
CONSTANTS
  a1 = a1  a2 = a2  c1 = c1  c2 = c2
  Crawl = {c1, c2}
  Search = {s1}
  Ad = {a1}
  PageLimit = 1
  SearchPage <- SharedPages
  Price = {80, 130}
  Miles = {1, 2}
  KbbPrice = {0, 100}
  MaxMiles <- SharedMaxMiles
  ExcessPrice <- DefaultExcess
  None = None
SPECIFICATION Spec
INVARIANTS ExcessRespected
CHECK_DEADLOCK FALSE
