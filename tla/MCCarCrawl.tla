----------------------------- MODULE MCCarCrawl -----------------------------
(* Small instances of CarCrawl for TLC.                                    *)
EXTENDS CarCrawl

CONSTANTS a1, a2, c1, c2

\* One crawl whose searches list an ad twice, and more ads than it follows.
OverlapPages ==
  { [links |-> <<a1, a2>>,     nearby |-> NoMarker],
    [links |-> <<a2, a1, a1>>, nearby |-> NoMarker],
    [links |-> <<a1, a2>>,     nearby |-> 1] }

OverlapMaxMiles == [c \in Crawl |-> 1]

\* Two crawls of the same ad that accept different odometers.
SharedPages == { [links |-> <<a1>>, nearby |-> NoMarker] }

SharedMaxMiles == [c \in Crawl |-> IF c = c1 THEN 1 ELSE 2]

\* The default of --excess_price.
DefaultExcess == [c \in Crawl |-> 15]

=============================================================================
