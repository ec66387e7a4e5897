--------------------------- MODULE CarCrawlProofs ---------------------------
(***************************************************************************)
(* The safety of CarCrawl for every number of crawls, searches and ads:    *)
(* an inductive invariant, what follows from it about the cache and the    *)
(* reports, and that the crawlers implement the store of Valuations.       *)
(***************************************************************************)
EXTENDS CarCrawl, TLAPS

-----------------------------------------------------------------------------
(* The arithmetic of percentages.                                          *)

\* A quotient rounded down, and what it lacks.
LEMMA Division ==
  ASSUME NEW n \in Nat, NEW d \in Nat \ {0}
  PROVE  /\ n \div d \in Nat
         /\ (n \div d) * d =< n /\ n < (n \div d) * d + d
         /\ n % d = 0 => (n \div d) * d = n
<1>1. n \div d \in Nat /\ (n \div d) * d =< n /\ n < (n \div d) * d + d
  OBVIOUS
<1>2. ASSUME n % d = 0 PROVE (n \div d) * d = n
  BY <1>2
<1> QED
  BY <1>1, <1>2

\* What divides a number divides its negation.
LEMMA DivisionOfNegated ==
  ASSUME NEW n \in Nat, NEW d \in Nat \ {0}, (-n) % d = 0
  PROVE  (n \div d) * d = n
<1> DEFINE q == (-n) \div d
           k == n \div d
<1>1. q \in Int /\ q * d = -n
  <2>1. q \in Int
    OBVIOUS
  <2>2. q * d = -n
    OBVIOUS
  <2> QED
    BY <2>1, <2>2
<1>2. k \in Nat /\ k * d =< n /\ n < k * d + d
  BY Division
<1> HIDE DEF q, k
<1>3. (-q) * d = n
  BY <1>1
<1>4. k = -q
  <2>1. (k - (-q)) * d =< 0 /\ ((-q) - k) * d < d
    BY <1>1, <1>2, <1>3
  <2>2. k - (-q) =< 0
    BY <1>1, <1>2, <2>1
  <2>3. (-q) - k =< 0
    BY <1>1, <1>2, <2>1
  <2> QED
    BY <1>1, <1>2, <2>2, <2>3
<1> QED
  BY <1>3, <1>4 DEF k

\* The percentage has the sign of the difference of the prices; it falls short of
\* the exact one, away from zero, by at most one.
LEMMA PercentBounds ==
  ASSUME NEW price \in Nat, NEW kbb \in Nat \ {0}, NEW p \in PercentAbove(price, kbb)
  PROVE  LET n == 100 * (price - kbb)
         IN  /\ p \in Int
             /\ n >= 0 => p >= 0 /\ p * kbb =< n /\ n =< p * kbb + kbb
             /\ n =< 0 => p =< 0 /\ n =< p * kbb /\ p * kbb - kbb =< n
<1> DEFINE n == 100 * (price - kbb)
           t == Truncated(n, kbb)
<1>0. n \in Int
  OBVIOUS
<1>p. p = t \/ (n # 0 /\ n % kbb = 0 /\ p = Towards0(t))
  BY DEF PercentAbove
<1> HIDE DEF n
<1>1. CASE n > 0
  <2>1. t = n \div kbb
    BY <1>0, <1>1 DEF Truncated
  <2>2. t \in Nat /\ t * kbb =< n /\ n < t * kbb + kbb
    BY <1>0, <1>1, <2>1, Division
  <2> HIDE DEF t
  <2>3. CASE p = t
    BY <1>0, <1>1, <2>2, <2>3 DEF n
  <2>4. CASE n % kbb = 0 /\ p = Towards0(t)
    <3>1. t * kbb = n
      BY <1>0, <1>1, <2>1, <2>4, Division
    <3>2. t > 0
      BY <1>0, <1>1, <2>2, <3>1
    <3>3. p = t - 1 /\ p * kbb = n - kbb
      BY <1>0, <2>2, <2>4, <3>1, <3>2 DEF Towards0
    <3> QED
      BY <1>0, <1>1, <2>2, <3>2, <3>3 DEF n
  <2> QED
    BY <1>p, <2>3, <2>4
<1>2. CASE n < 0
  <2> DEFINE m == -n
             k == m \div kbb
  <2>0. m \in Nat /\ -m = n
    BY <1>0, <1>2
  <2>1. t = -k
    BY <1>0, <1>2 DEF Truncated
  <2>2. k \in Nat /\ k * kbb =< m /\ m < k * kbb + kbb
    BY <2>0, Division
  <2>4. n % kbb = 0 => k * kbb = m
    <3> SUFFICES ASSUME n % kbb = 0 PROVE k * kbb = m
      OBVIOUS
    <3>1. (-m) % kbb = 0
      BY <2>0
    <3> HIDE DEF m
    <3> QED
      BY <2>0, <3>1, DivisionOfNegated
  <2> HIDE DEF t, k
  <2>3. t * kbb = -(k * kbb) /\ t \in Int /\ t =< 0
    BY <2>1, <2>2
  <2>5. CASE p = t
    BY <1>0, <1>2, <2>0, <2>2, <2>3, <2>5 DEF n
  <2>6. CASE n % kbb = 0 /\ p = Towards0(t)
    <3>1. t * kbb = n
      BY <1>0, <2>0, <2>2, <2>3, <2>4, <2>6
    <3>2. t < 0
      BY <1>0, <1>2, <2>3, <3>1
    <3>3. p = t + 1 /\ p * kbb = n + kbb
      BY <1>0, <2>3, <2>6, <3>1, <3>2 DEF Towards0
    <3> QED
      BY <1>0, <1>2, <2>3, <3>2, <3>3 DEF n
  <2> QED
    BY <1>p, <2>5, <2>6
<1>3. CASE n = 0
  <2>1. t = 0 /\ p = t
    <3>1. 0 \div kbb = 0
      OBVIOUS
    <3>2. t = 0
      BY <1>3, <3>1 DEF Truncated
    <3> QED
      BY <1>3, <1>p, <3>2
  <2> QED
    BY <1>3, <2>1 DEF n
<1> QED
  BY <1>0, <1>1, <1>2, <1>3

\* Of two cars with the same KBB price the cheaper has no higher percentage.
LEMMA PercentRanks ==
  ASSUME NEW price \in Nat, NEW more \in Nat, price < more, NEW kbb \in Nat \ {0},
         NEW p \in PercentAbove(price, kbb), NEW q \in PercentAbove(more, kbb)
  PROVE  p =< q
<1> DEFINE n == 100 * (price - kbb)
           m == 100 * (more - kbb)
<1>1. n \in Int /\ m \in Int /\ n < m
  OBVIOUS
<1>2. /\ p \in Int
      /\ n >= 0 => p >= 0 /\ p * kbb =< n /\ n =< p * kbb + kbb
      /\ n =< 0 => p =< 0 /\ n =< p * kbb /\ p * kbb - kbb =< n
  BY PercentBounds
<1>3. /\ q \in Int
      /\ m >= 0 => q >= 0 /\ q * kbb =< m /\ m =< q * kbb + kbb
      /\ m =< 0 => q =< 0 /\ m =< q * kbb /\ q * kbb - kbb =< m
  BY PercentBounds
<1> HIDE DEF n, m
<1>4. CASE n =< 0 /\ m >= 0
  BY <1>2, <1>3, <1>4
<1>5. CASE n >= 0 \/ m =< 0
  <2>1. p * kbb < q * kbb + kbb
    <3>1. p * kbb \in Int /\ q * kbb \in Int
      BY <1>2, <1>3
    <3> QED
      BY <1>1, <1>2, <1>3, <1>5, <3>1
  <2>2. (p - q) * kbb < kbb
    BY <1>2, <1>3, <2>1
  <2> QED
    BY <1>2, <1>3, <2>2
<1> QED
  BY <1>1, <1>4, <1>5

-----------------------------------------------------------------------------
(* From here on the constants are what the code makes them.               *)

USE CarCrawlAssumption

-----------------------------------------------------------------------------
(* The inductive invariant.                                                *)

\* A job that waits for an answer knows its ad, and its item is about it.
JobsKnowTheirAd ==
  \A j \in Job :
    /\ stage[j] \in {"ad", "styles", "price"} => ad[j] \in Ad
    /\ stage[j] \in {"styles", "price"} =>
         item[j] \in Car /\ item[j].url = ad[j] /\ item[j].miles <= MaxMiles[j[1]]

\* A job that has not reported has no result.
OnlyReportedHaveResults ==
  \A j \in Job : stage[j] # "reported" => result[j] = None

\* A search that is not answered yet, or not even requested, has no jobs.
UnansweredHaveNoJobs ==
  \A j \in Job :
    status[j[1]] = "idle" \/ j[2] \in searching[j[1]] => stage[j] = "unused"

\* A callback that hangs has its crawler process blocked, until it is killed.
HungBlocks ==
  \A j \in Job : stage[j] = "hung" => status[j[1]] \in {"blocked", "killed"}

IInv ==
  /\ TypeOK
  /\ JobsKnowTheirAd
  /\ OnlyReportedHaveResults
  /\ UnansweredHaveNoJobs
  /\ RowsAreValuations
  /\ ResultsAreCached
  /\ HungBlocks

-----------------------------------------------------------------------------
(* Types of what the actions share.                                        *)

\* The ads parse_start_url follows are ads, at most PageLimit of them.
LEMMA CarsToCrawlType ==
  ASSUME NEW page \in SearchPage
  PROVE  /\ CarsToCrawl(page) \in Seq(Ad)
         /\ Len(CarsToCrawl(page)) <= PageLimit
<1> DEFINE cars == LocalCars(page)
           n == IF Len(cars) < PageLimit THEN Len(cars) ELSE PageLimit
<1>1. page.links \in Seq(Ad) /\ page.nearby \in {-1} \cup 0..Len(page.links)
  BY DEF NoMarker
<1>2. cars \in Seq(Ad)
  BY <1>1 DEF LocalCars, NoMarker
<1>3. n \in Nat /\ n <= Len(cars) /\ n <= PageLimit
  BY <1>2
<1> HIDE DEF cars
<1>4. SubSeq(cars, 1, n) \in Seq(Ad) /\ Len(SubSeq(cars, 1, n)) = n
  BY <1>2, <1>3
<1> QED
  BY <1>3, <1>4 DEF CarsToCrawl, cars

\* What kbb_final_parse stores is a row of its own ad.
LEMMA PricedType ==
  ASSUME NEW car \in Car, NEW kbb \in KbbPrice, kbb # 0,
         NEW percent \in PercentAbove(car.price, kbb)
  PROVE  LET row == Priced(car, kbb, percent)
         IN  /\ row \in Row /\ row.url = car.url /\ row.miles = car.miles
             /\ row.percent \in PercentAbove(row.price, row.kbb)
<1>1. percent \in Percent
  BY DEF Percent, Car
<1> QED
  BY <1>1 DEF Priced, Row, Car

LEMMA CountType ==
  ASSUME TypeOK, NEW c \in Crawl, NEW counters, Count(c, counters)
  PROVE  stats' \in [Crawl -> [Counter -> Nat]]
BY DEF TypeOK, Count

\* The shape of the variables of jobs, after the steps actions share.
JobsOK ==
  /\ stage \in [Job -> Stage]
  /\ ad \in [Job -> Ad \cup {None}]
  /\ item \in [Job -> Car \cup {None}]
  /\ hops \in [Job -> {0, 1}]
  /\ result \in [Job -> Row \cup {None}]

LEMMA EndType ==
  ASSUME TypeOK, NEW j \in Job, NEW how \in Stage, EndWithout(j, how)
  PROVE  JobsOK'
BY DEF TypeOK, JobsOK, EndWithout, End

LEMMA ReportType ==
  ASSUME TypeOK, NEW j \in Job, NEW row \in Row, Report(j, row)
  PROVE  JobsOK'
BY DEF TypeOK, JobsOK, Report, End, Stage

LEMMA FollowType ==
  ASSUME TypeOK, NEW j \in Job, NEW to \in InFlight, NEW car \in Car,
         NEW n \in {0, 1}, Follow(j, to, car, n)
  PROVE  JobsOK'
BY DEF TypeOK, JobsOK, Follow, Stage

-----------------------------------------------------------------------------
(* The forms a step can take: what each action does to the jobs and to the *)
(* cache, with the counters left out.                                      *)

\* The crawl that answers is running; it may be blocked afterwards.
SameSearches(j) ==
  /\ status[j[1]] = "running"
  /\ searching' = searching
  /\ \/ status' = status
     \/ status' = [status EXCEPT ![j[1]] = "blocked"]

\* A row that kbb_final_parse can make of what job j knows.
IsRowOf(j, row) ==
  /\ row.url = ad[j]
  /\ row.percent \in PercentAbove(row.price, row.kbb)
  /\ row.miles <= MaxMiles[j[1]]

\* A job ends with nothing to report; its row may be on its way.
JobEnds(j) ==
  /\ stage[j] \in InFlight
  /\ \E how \in Stage \ (InFlight \cup {"unused", "reported"}) :
       /\ EndWithout(j, how)
       /\ IF how = "hung" THEN status' = [status EXCEPT ![j[1]] = "blocked"]
                          ELSE status' = status
  /\ cache' = cache
  /\ late' = late \/ \E row \in Row : IsRowOf(j, row) /\ late' = late \cup {row}
  /\ SameSearches(j)

\* A job reports the row of the cache for its ad.
JobReuses(j) ==
  /\ stage[j] = "ad"
  /\ cache[ad[j]] # None
  /\ Report(j, cache[ad[j]])
  /\ UNCHANGED <<status, cache, late>>
  /\ SameSearches(j)

\* A job asks for a page of KBB.
JobFollows(j) ==
  /\ stage[j] \in InFlight
  /\ \E to \in {"styles", "price"}, car \in Car, n \in {0, 1} :
       /\ \/ stage[j] = "ad" /\ to = "styles"
          \/ stage[j] = "styles" /\ to = "styles" /\ car = item[j]
          \/ stage[j] = "styles" /\ to = "price"
       /\ car.url = ad[j] /\ car.miles <= MaxMiles[j[1]] /\ Follow(j, to, car, n)
  /\ UNCHANGED <<status, cache, late>>
  /\ SameSearches(j)

\* A job puts a row for its ad into the cache, and reports it.
JobValues(j, row) ==
  /\ stage[j] = "price"
  /\ IsRowOf(j, row)
  /\ cache[row.url] = None
  /\ Store(row)
  /\ Report(j, row)
  /\ UNCHANGED <<status, late>>
  /\ SameSearches(j)

\* When CloseSpider may close a crawl.
NothingLeft(c) ==
  /\ status[c] = "running" /\ searching[c] = {}
  /\ \A j \in Job : j[1] = c => stage[j] \notin InFlight

\* A crawl is started, loses a search, is closed or killed.
CrawlChanges ==
  /\ \/ \E c \in Crawl, t \in {"closed", "killed"} :
          /\ status' = [status EXCEPT ![c] = t] /\ searching' = searching
          /\ IF t = "closed" THEN NothingLeft(c) ELSE status[c] \in {"running", "blocked"}
     \/ \E c \in Crawl : StartCrawl(c)
     \/ \E c \in Crawl, t \in Search :
          /\ status[c] = "running" /\ t \in searching[c]
          /\ status' = status /\ searching' = [searching EXCEPT ![c] = @ \ {t}]
  /\ UNCHANGED <<jobVars, cache, late>>

\* A step of no crawl: the service acts on a row sent earlier, or nothing.
Aside ==
  /\ UNCHANGED <<status, searching, jobVars>>
  /\ UNCHANGED <<cache, late>> \/ \E row \in late : ServiceCreates(row)

StepForm ==
  \/ CrawlChanges
  \/ \E c \in Crawl, s \in Search : ParseStartUrl(c, s)
  \/ \E j \in Job : JobEnds(j) \/ JobReuses(j) \/ JobFollows(j)
  \/ \E j \in Job, row \in Row : JobValues(j, row)
  \/ Aside

\* put_cache: the row is new to the cache, or the job ends without a result.
LEMMA FinalParseForm ==
  ASSUME IInv, NEW j \in Job, NEW kbb \in KbbPrice, NEW percent,
         FinalParse(j, kbb, percent)
  PROVE  JobEnds(j) \/ \E row \in Row : JobValues(j, row)
<1> DEFINE row == Priced(item[j], kbb, percent)
<1>1. /\ stage[j] = "price" /\ status[j[1]] = "running"
      /\ item[j] \in Car /\ item[j].url = ad[j] /\ item[j].miles <= MaxMiles[j[1]]
  BY DEF FinalParse, Waits, CrawlOf, IInv, JobsKnowTheirAd
<1>2. row \in Row /\ IsRowOf(j, row)
  BY <1>1, PricedType DEF FinalParse, IsRowOf
<1>3. SameSearches(j) /\ status' = status
  BY <1>1 DEF FinalParse, SameCrawls, SameSearches
<1>4. PutCache(j, row)
  BY DEF FinalParse
<1>5. stage[j] \in InFlight /\ "raised" \in Stage \ (InFlight \cup {"unused", "reported"})
  BY <1>1 DEF InFlight, Stage
<1> HIDE DEF row
<1>6. CASE EndWithout(j, "raised") /\ late' \in {late, late \cup {row}} /\ UNCHANGED cache
  BY <1>2, <1>3, <1>5, <1>6 DEF JobEnds
<1>7. CASE cache[row.url] = None /\ Store(row) /\ Report(j, row) /\ UNCHANGED late
  BY <1>1, <1>2, <1>3, <1>7 DEF JobValues
<1> QED
  BY <1>4, <1>6, <1>7 DEF PutCache

LEMMA PutHangsForm ==
  ASSUME IInv, NEW j \in Job, NEW kbb \in KbbPrice, NEW percent,
         PutHangs(j, kbb, percent)
  PROVE  JobEnds(j)
<1> DEFINE row == Priced(item[j], kbb, percent)
<1>1. /\ stage[j] = "price" /\ status[j[1]] = "running"
      /\ item[j] \in Car /\ item[j].url = ad[j] /\ item[j].miles <= MaxMiles[j[1]]
  BY DEF PutHangs, Waits, CrawlOf, IInv, JobsKnowTheirAd
<1>2. row \in Row /\ IsRowOf(j, row)
  BY <1>1, PricedType DEF PutHangs, IsRowOf
<1>3. SameSearches(j) /\ status' = [status EXCEPT ![j[1]] = "blocked"]
  BY <1>1 DEF PutHangs, SameSearches, CrawlOf
<1>4. stage[j] \in InFlight /\ "hung" \in Stage \ (InFlight \cup {"unused", "reported"})
  BY <1>1 DEF InFlight, Stage
<1>5. EndWithout(j, "hung") /\ cache' = cache /\ late' \in {late, late \cup {row}}
  BY DEF PutHangs
<1> HIDE DEF row
<1> QED
  BY <1>2, <1>3, <1>4, <1>5 DEF JobEnds

\* Every step has one of the forms.
LEMMA StepHasForm ==
  ASSUME IInv, [Next]_vars
  PROVE  StepForm
<1> USE DEF SameCrawls, CrawlOf
<1>1. \A j \in Job : /\ Waits(j, "ad") => stage[j] \in InFlight
                     /\ Waits(j, "styles") => stage[j] \in InFlight
                     /\ Waits(j, "price") => stage[j] \in InFlight
  BY DEF Waits, InFlight
<1>2. {"skipped", "dropped", "unpriced", "adFailed", "kbbFailed",
       "adRaised", "raised", "hung"} \subseteq Stage \ (InFlight \cup {"unused", "reported"})
  BY DEF Stage, InFlight
<1>3. CASE \E c \in Crawl : CrawlStep(c)
  <2> PICK c \in Crawl : CrawlStep(c)
    BY <1>3
  <2>1. CASE StartCrawl(c)
    BY <2>1 DEF StartCrawl, StepForm, CrawlChanges
  <2>2. CASE CloseSpider(c)
    BY <2>2 DEF CloseSpider, StepForm, CrawlChanges, NothingLeft
  <2>3. CASE Kill(c)
    BY <2>3 DEF Kill, StepForm, CrawlChanges
  <2>4. CASE \E s \in Search : ParseStartUrl(c, s)
    BY <2>4 DEF StepForm
  <2>5. CASE \E s \in Search : SearchFails(c, s)
    BY <2>5 DEF SearchFails, StepForm, CrawlChanges
  <2> QED
    BY <2>1, <2>2, <2>3, <2>4, <2>5 DEF CrawlStep
<1>4. CASE \E j \in Job : AdAnswered(j)
  <2> PICK j \in Job : AdAnswered(j)
    BY <1>4
  <2>1. CASE NoPriceList(j)
    BY <1>1, <1>2, <2>1 DEF NoPriceList, Waits, StepForm, JobEnds, SameSearches
  <2>2. CASE AdPageRaises(j)
    BY <1>1, <1>2, <2>2 DEF AdPageRaises, Waits, StepForm, JobEnds, SameSearches
  <2>3. CASE DropCar(j)
    BY <1>1, <1>2, <2>3 DEF DropCar, Waits, StepForm, JobEnds, SameSearches
  <2>4. CASE AdDownloadFails(j)
    BY <1>1, <1>2, <2>4 DEF AdDownloadFails, Waits, StepForm, JobEnds, SameSearches
  <2>5. CASE \E car \in Car : FindCar(j, car)
    <3> PICK car \in Car : FindCar(j, car)
      BY <2>5
    <3>1. /\ Waits(j, "ad") /\ car.url = ad[j] /\ car.miles <= MaxMiles[j[1]]
          /\ SameSearches(j) /\ UNCHANGED <<status, cache, late>>
      BY DEF FindCar, Waits, SameSearches
    <3>2. CASE EndWithout(j, "raised")
      BY <1>1, <1>2, <3>1, <3>2 DEF StepForm, JobEnds
    <3>3. CASE cache[ad[j]] # None /\ Report(j, cache[ad[j]])
      BY <3>1, <3>3 DEF StepForm, JobReuses, Waits
    <3>4. CASE Follow(j, "styles", car, 0)
      <4>1. stage[j] = "ad"
        BY <3>1 DEF Waits
      <4>2. JobFollows(j)
        BY <1>1, <3>1, <3>4, <4>1 DEF JobFollows
      <4> QED
        BY <4>2 DEF StepForm
    <3> QED
      BY <3>2, <3>3, <3>4 DEF FindCar
  <2> QED
    BY <2>1, <2>2, <2>3, <2>4, <2>5 DEF AdAnswered
<1>5. CASE \E j \in Job : KbbAnswered(j)
  <2> PICK j \in Job : KbbAnswered(j)
    BY <1>5
  <2>1. \A at \in {"styles", "price"} :
          Waits(j, at) => /\ item[j] \in Car /\ item[j].url = ad[j]
                          /\ item[j].miles <= MaxMiles[j[1]]
                          /\ hops[j] \in {0, 1}
    BY DEF Waits, IInv, JobsKnowTheirAd, TypeOK
  <2>2. CASE FollowCategory(j)
    <3>1. 1 - hops[j] \in {0, 1}
      BY <2>1, <2>2 DEF FollowCategory
    <3> QED
      BY <1>1, <2>1, <2>2, <3>1
         DEF FollowCategory, Waits, StepForm, JobFollows, SameSearches
  <2>3. CASE FollowStyle(j)
    BY <1>1, <2>1, <2>3 DEF FollowStyle, Waits, StepForm, JobFollows, SameSearches
  <2>4. CASE StylesPageRaises(j)
    BY <1>1, <1>2, <2>4 DEF StylesPageRaises, Waits, StepForm, JobEnds, SameSearches
  <2>5. CASE NoFinalPrice(j)
    BY <1>1, <1>2, <2>5 DEF NoFinalPrice, Waits, StepForm, JobEnds, SameSearches
  <2>6. CASE FinalPriceRaises(j)
    BY <1>1, <1>2, <2>6 DEF FinalPriceRaises, Waits, StepForm, JobEnds, SameSearches
  <2>7. CASE KbbDownloadFails(j)
    BY <1>1, <1>2, <2>7 DEF KbbDownloadFails, Waits, StepForm, JobEnds, SameSearches
  <2>8. CASE \E kbb \in KbbPrice : \E percent : FinalParse(j, kbb, percent)
    BY <2>8, FinalParseForm DEF StepForm
  <2> QED
    BY <2>2, <2>3, <2>4, <2>5, <2>6, <2>7, <2>8 DEF KbbAnswered
<1>6. CASE \E j \in Job : Hangs(j)
  <2> PICK j \in Job : Hangs(j)
    BY <1>6
  <2>1. CASE LookupHangs(j)
    BY <1>1, <1>2, <2>1 DEF LookupHangs, Waits, StepForm, JobEnds, SameSearches
  <2>2. CASE \E kbb \in KbbPrice : \E percent : PutHangs(j, kbb, percent)
    BY <2>2, PutHangsForm DEF StepForm
  <2> QED
    BY <2>1, <2>2 DEF Hangs
<1>7. CASE \E row \in late : ServiceCreates(row)
  BY <1>7 DEF StepForm, Aside, ServiceCreates
<1>8. CASE UNCHANGED vars
  BY <1>8 DEF vars, StepForm, Aside, jobVars
<1> QED
  BY <1>3, <1>4, <1>5, <1>6, <1>7, <1>8 DEF Next

-----------------------------------------------------------------------------
(* Each part of the invariant is inductive.                                *)

LEMMA InitInv == Init => IInv
<1> SUFFICES ASSUME Init PROVE IInv
  OBVIOUS
<1>1. TypeOK
  BY DEF Init, TypeOK, Stage
<1> QED
  BY <1>1 DEF Init, IInv, JobsKnowTheirAd, OnlyReportedHaveResults,
              UnansweredHaveNoJobs, RowsAreValuations, ResultsAreCached, HungBlocks

LEMMA TypeStep ==
  ASSUME IInv, [Next]_vars, StepForm
  PROVE  TypeOK'
<1> USE DEF IInv
<1>1. stats' \in [Crawl -> [Counter -> Nat]]
  <2>1. \/ \E c \in Crawl, counters \in SUBSET Counter : Count(c, counters)
        \/ UNCHANGED stats
    <3>1. CASE \E c \in Crawl : CrawlStep(c)
      BY <3>1 DEF CrawlStep, StartCrawl, ParseStartUrl, SearchFails, CloseSpider, Kill
    <3>2. CASE \E j \in Job : AdAnswered(j)
      BY <3>2 DEF AdAnswered, CrawlOf, Job, Counter, NoPriceList, AdPageRaises, DropCar,
                  FindCar, AdDownloadFails
    <3>3. CASE \E j \in Job : KbbAnswered(j)
      BY <3>3 DEF KbbAnswered, CrawlOf, Job, Counter, FollowCategory, FollowStyle,
                  StylesPageRaises, NoFinalPrice, FinalPriceRaises, FinalParse,
                  KbbDownloadFails
    <3>4. CASE \E j \in Job : Hangs(j)
      BY <3>4 DEF Hangs, CrawlOf, Job, Counter, LookupHangs, PutHangs
    <3>5. CASE \E row \in late : ServiceCreates(row)
      BY <3>5 DEF ServiceCreates
    <3> QED
      BY <3>1, <3>2, <3>3, <3>4, <3>5 DEF Next, vars
  <2> QED
    BY <2>1, CountType DEF TypeOK
<1>2. status' \in [Crawl -> {"idle", "running", "blocked", "closed", "killed"}]
      /\ searching' \in [Crawl -> SUBSET Search]
  <2>1. CASE CrawlChanges \/ Aside
    <3>1. CASE \E c \in Crawl, t \in {"closed", "killed"} :
                 status' = [status EXCEPT ![c] = t] /\ searching' = searching
      BY <3>1 DEF TypeOK
    <3>2. CASE \E c \in Crawl : StartCrawl(c)
      BY <3>2 DEF StartCrawl, TypeOK
    <3>3. ASSUME NEW c \in Crawl, NEW t \in Search,
                 status' = status /\ searching' = [searching EXCEPT ![c] = @ \ {t}]
          PROVE  /\ status' \in [Crawl -> {"idle", "running", "blocked", "closed", "killed"}]
                 /\ searching' \in [Crawl -> SUBSET Search]
      <4>1. searching[c] \ {t} \in SUBSET Search
        BY DEF TypeOK
      <4> QED
        BY <3>3, <4>1 DEF TypeOK
    <3> QED
      BY <2>1, <3>1, <3>2, <3>3 DEF CrawlChanges, Aside, TypeOK
  <2>2. CASE \E c \in Crawl, s \in Search : ParseStartUrl(c, s)
    BY <2>2 DEF ParseStartUrl, TypeOK
  <2>3. CASE \E j \in Job : SameSearches(j)
    BY <2>3 DEF SameSearches, TypeOK
  <2> QED
    BY <2>1, <2>2, <2>3 DEF StepForm, JobEnds, JobReuses, JobFollows, JobValues
<1>3. JobsOK'
  <2>1. CASE CrawlChanges \/ Aside
    BY <2>1 DEF CrawlChanges, Aside, JobsOK, TypeOK, jobVars
  <2>2. ASSUME NEW c \in Crawl, NEW s \in Search, ParseStartUrl(c, s)
        PROVE  JobsOK'
    <3> PICK page \in SearchPage :
          LET cars == CarsToCrawl(page)
              new(j) == j[1] = c /\ j[2] = s /\ j[3] <= Len(cars)
          IN  /\ stage' = [j \in Job |-> IF new(j) THEN "ad" ELSE stage[j]]
              /\ ad' = [j \in Job |-> IF new(j) THEN cars[j[3]] ELSE ad[j]]
      BY <2>2 DEF ParseStartUrl
    <3>1. CarsToCrawl(page) \in Seq(Ad)
      BY CarsToCrawlType
    <3>2. \A j \in Job : j[3] <= Len(CarsToCrawl(page)) => CarsToCrawl(page)[j[3]] \in Ad
      BY <3>1 DEF Job
    <3> QED
      BY <2>2, <3>2 DEF ParseStartUrl, JobsOK, TypeOK, Stage, InFlight
  <2>3. ASSUME NEW j \in Job, JobEnds(j) \/ JobReuses(j) \/ JobFollows(j)
        PROVE  JobsOK'
    <3>1. CASE JobEnds(j)
      BY <3>1, EndType DEF JobEnds, TypeOK
    <3>2. CASE JobReuses(j)
      <4>1. cache[ad[j]] \in Row
        BY <3>2 DEF JobReuses, TypeOK, JobsKnowTheirAd
      <4> QED
        BY <3>2, <4>1, ReportType DEF JobReuses, TypeOK
    <3>3. CASE JobFollows(j)
      BY <3>3, FollowType DEF JobFollows, TypeOK, InFlight
    <3> QED
      BY <2>3, <3>1, <3>2, <3>3
  <2>4. ASSUME NEW j \in Job, NEW row \in Row, JobValues(j, row)
        PROVE  JobsOK'
    BY <2>4, ReportType DEF JobValues
  <2> QED
    BY <2>1, <2>2, <2>3, <2>4 DEF StepForm
<1>4. cache' \in [Ad -> Row \cup {None}] /\ late' \subseteq Row
  <2>1. CASE UNCHANGED <<cache, late>>
    BY <2>1 DEF TypeOK
  <2>2. ASSUME NEW row \in Row, Store(row) \/ UNCHANGED cache,
               late' \in {late, late \cup {row}, late \ {row}}
        PROVE  cache' \in [Ad -> Row \cup {None}] /\ late' \subseteq Row
    <3>1. cache' \in [Ad -> Row \cup {None}]
      BY <2>2 DEF Store, TypeOK
    <3>2. late' \subseteq late \cup {row} /\ late \subseteq Row
      BY <2>2 DEF TypeOK
    <3> QED
      BY <3>1, <3>2
  <2>3. \A row \in late : row \in Row
    BY DEF TypeOK
  <2>4. CASE Aside
    BY <2>1, <2>2, <2>3, <2>4 DEF Aside, ServiceCreates
  <2>5. ASSUME NEW j \in Job, JobEnds(j)
        PROVE  cache' \in [Ad -> Row \cup {None}] /\ late' \subseteq Row
    BY <2>1, <2>2, <2>5 DEF JobEnds
  <2>6. ASSUME NEW j \in Job, NEW row \in Row, JobValues(j, row)
        PROVE  cache' \in [Ad -> Row \cup {None}] /\ late' \subseteq Row
    BY <2>2, <2>6 DEF JobValues
  <2> QED
    BY <2>1, <2>4, <2>5, <2>6 DEF StepForm, CrawlChanges, ParseStartUrl, JobReuses, JobFollows
<1> QED
  BY <1>1, <1>2, <1>3, <1>4 DEF TypeOK, JobsOK

LEMMA JobsKnowTheirAdStep ==
  ASSUME IInv, StepForm, TypeOK'
  PROVE  JobsKnowTheirAd'
<1> USE DEF IInv, JobsKnowTheirAd
<1>1. CASE CrawlChanges \/ Aside
  BY <1>1 DEF CrawlChanges, Aside, jobVars
<1>2. ASSUME NEW c \in Crawl, NEW s \in Search, ParseStartUrl(c, s)
      PROVE  JobsKnowTheirAd'
  <2> PICK page \in SearchPage :
        LET cars == CarsToCrawl(page)
            new(j) == j[1] = c /\ j[2] = s /\ j[3] <= Len(cars)
        IN  /\ stage' = [j \in Job |-> IF new(j) THEN "ad" ELSE stage[j]]
            /\ ad' = [j \in Job |-> IF new(j) THEN cars[j[3]] ELSE ad[j]]
    BY <1>2 DEF ParseStartUrl
  <2>1. \A j \in Job : j[3] <= Len(CarsToCrawl(page)) => CarsToCrawl(page)[j[3]] \in Ad
    BY CarsToCrawlType DEF Job
  <2> QED
    BY <1>2, <2>1 DEF ParseStartUrl, TypeOK
<1>3. ASSUME NEW j \in Job, JobEnds(j) \/ JobReuses(j) \/ JobFollows(j)
      PROVE  JobsKnowTheirAd'
  <2>1. CASE JobEnds(j)
    BY <2>1 DEF JobEnds, EndWithout, End, TypeOK, InFlight
  <2>2. CASE JobReuses(j)
    BY <2>2 DEF JobReuses, Report, End, TypeOK
  <2>3. CASE JobFollows(j)
    BY <2>3 DEF JobFollows, Follow, TypeOK, InFlight
  <2> QED
    BY <1>3, <2>1, <2>2, <2>3
<1>4. ASSUME NEW j \in Job, NEW row \in Row, JobValues(j, row)
      PROVE  JobsKnowTheirAd'
  <2>1. PICK how \in {"reported", "raised", "hung"} : End(j, how)
    BY <1>4 DEF JobValues, Report, EndWithout
  <2> QED
    BY <2>1 DEF End, TypeOK
<1> QED
  BY <1>1, <1>2, <1>3, <1>4 DEF StepForm

LEMMA OnlyReportedHaveResultsStep ==
  ASSUME IInv, StepForm
  PROVE  OnlyReportedHaveResults'
<1> USE DEF IInv, OnlyReportedHaveResults, TypeOK
<1>1. CASE CrawlChanges \/ Aside
  BY <1>1 DEF CrawlChanges, Aside, jobVars
<1>2. ASSUME NEW c \in Crawl, NEW s \in Search, ParseStartUrl(c, s)
      PROVE  OnlyReportedHaveResults'
  <2>1. \A j \in Job : j[1] = c /\ j[2] = s => result[j] = None
    BY <1>2 DEF ParseStartUrl, UnansweredHaveNoJobs
  <2> QED
    BY <1>2, <2>1 DEF ParseStartUrl
<1>3. ASSUME NEW j \in Job, JobEnds(j) \/ JobReuses(j) \/ JobFollows(j)
      PROVE  OnlyReportedHaveResults'
  BY <1>3 DEF JobEnds, JobReuses, JobFollows, EndWithout, Report, End, Follow, InFlight
<1>4. ASSUME NEW j \in Job, NEW row \in Row, JobValues(j, row)
      PROVE  OnlyReportedHaveResults'
  BY <1>4 DEF JobValues, EndWithout, Report, End
<1> QED
  BY <1>1, <1>2, <1>3, <1>4 DEF StepForm

LEMMA UnansweredHaveNoJobsStep ==
  ASSUME IInv, StepForm
  PROVE  UnansweredHaveNoJobs'
<1> USE DEF IInv, UnansweredHaveNoJobs, TypeOK
<1>1. CASE CrawlChanges \/ Aside
  <2> stage' = stage
    BY <1>1 DEF CrawlChanges, Aside, jobVars
  <2>1. CASE \E c \in Crawl, t \in {"closed", "killed"} :
               status' = [status EXCEPT ![c] = t] /\ searching' = searching
    BY <2>1 DEF Job
  <2>2. CASE \E c \in Crawl : StartCrawl(c)
    BY <2>2 DEF StartCrawl, Job
  <2>3. CASE \E c \in Crawl, t \in Search :
               status' = status /\ searching' = [searching EXCEPT ![c] = @ \ {t}]
    BY <2>3 DEF Job
  <2> QED
    BY <1>1, <2>1, <2>2, <2>3 DEF CrawlChanges, Aside, jobVars
<1>2. ASSUME NEW c \in Crawl, NEW s \in Search, ParseStartUrl(c, s)
      PROVE  UnansweredHaveNoJobs'
  BY <1>2 DEF ParseStartUrl, Job
<1>3. ASSUME NEW j \in Job, SameSearches(j), stage[j] \in InFlight,
             \E to : stage' = [stage EXCEPT ![j] = to]
      PROVE  UnansweredHaveNoJobs'
  BY <1>3 DEF SameSearches, InFlight, Job
<1> QED
  BY <1>1, <1>2, <1>3
     DEF StepForm, JobEnds, JobReuses, JobFollows, JobValues, EndWithout, Report, End,
         Follow, InFlight

LEMMA HungBlocksStep ==
  ASSUME IInv, StepForm
  PROVE  HungBlocks'
<1> USE DEF IInv, HungBlocks, TypeOK
<1>1. CASE CrawlChanges \/ Aside
  BY <1>1 DEF CrawlChanges, StartCrawl, NothingLeft, Aside, jobVars, Job
<1>2. ASSUME NEW c \in Crawl, NEW s \in Search, ParseStartUrl(c, s)
      PROVE  HungBlocks'
  BY <1>2 DEF ParseStartUrl
<1>3. ASSUME NEW j \in Job, JobEnds(j)
      PROVE  HungBlocks'
  <2> PICK how : /\ EndWithout(j, how)
                 /\ IF how = "hung" THEN status' = [status EXCEPT ![j[1]] = "blocked"]
                                    ELSE status' = status
    BY <1>3 DEF JobEnds
  <2>1. j[1] \in Crawl /\ \A k \in Job : k[1] \in Crawl
    BY DEF Job
  <2> QED
    BY <2>1 DEF EndWithout, End
<1>4. ASSUME NEW j \in Job, UNCHANGED status,
             \E to \in {"styles", "price", "reported"} : stage' = [stage EXCEPT ![j] = to]
      PROVE  HungBlocks'
  BY <1>4
<1> QED
  BY <1>1, <1>2, <1>3, <1>4
     DEF StepForm, JobReuses, JobFollows, JobValues, Report, End, Follow

\* The cache changes only where it has no row.
LEMMA CacheGrows ==
  ASSUME IInv, StepForm
  PROVE  \A u \in Ad : cache[u] # None => cache'[u] = cache[u]
<1> USE DEF IInv, TypeOK
<1>1. CASE cache' = cache
  BY <1>1
<1>2. ASSUME NEW row \in Row, cache[row.url] = None, Store(row)
      PROVE  \A u \in Ad : cache[u] # None => cache'[u] = cache[u]
  BY <1>2 DEF Store
<1>3. CASE Aside
  BY <1>1, <1>2, <1>3 DEF Aside, ServiceCreates
<1> QED
  BY <1>1, <1>2, <1>3
     DEF StepForm, CrawlChanges, ParseStartUrl, JobEnds, JobReuses, JobFollows, JobValues

\* What was accepted stays accepted: a crawl that was started is not idle again.
LEMMA ValuationsStay ==
  ASSUME IInv, StepForm, NEW row, IsValuation(row)
  PROVE  IsValuation(row)'
<1>1. \A c \in Crawl : status[c] # "idle" => status'[c] # "idle"
  BY DEF StepForm, CrawlChanges, StartCrawl, ParseStartUrl, JobEnds, JobReuses, JobFollows,
         JobValues, SameSearches, Aside, IInv, TypeOK
<1> QED
  BY <1>1 DEF IsValuation

\* The row a job makes is a valuation.
LEMMA RowOfJob ==
  ASSUME IInv, NEW j \in Job, NEW row \in Row, stage[j] \in InFlight, IsRowOf(j, row)
  PROVE  IsValuation(row)
BY DEF IInv, UnansweredHaveNoJobs, InFlight, IsRowOf, IsValuation, Job

LEMMA RowsAreValuationsStep ==
  ASSUME IInv, StepForm
  PROVE  RowsAreValuations'
<1> USE DEF IInv, RowsAreValuations, TypeOK
<1>1. CASE UNCHANGED <<cache, late>>
  BY <1>1, ValuationsStay
<1>2. ASSUME NEW row \in Row, IsValuation(row), Store(row) \/ UNCHANGED cache,
             late' \in {late, late \cup {row}, late \ {row}}
      PROVE  RowsAreValuations'
  <2>1. \A u \in Ad : cache'[u] = cache[u] \/ (cache'[u] = row /\ u = row.url)
    <3>1. CASE Store(row)
      BY <3>1 DEF Store
    <3>2. CASE UNCHANGED cache
      BY <3>2
    <3> QED
      BY <1>2, <3>1, <3>2
  <2>2. \A r \in late' : r \in late \/ r = row
    BY <1>2
  <2> QED
    BY <1>2, <2>1, <2>2, ValuationsStay
<1>3. CASE Aside
  BY <1>1, <1>2, <1>3 DEF Aside, ServiceCreates
<1>4. ASSUME NEW j \in Job, JobEnds(j)
      PROVE  RowsAreValuations'
  BY <1>1, <1>2, <1>4, RowOfJob DEF JobEnds
<1>5. ASSUME NEW j \in Job, NEW row \in Row, JobValues(j, row)
      PROVE  RowsAreValuations'
  BY <1>2, <1>5, RowOfJob DEF JobValues, InFlight
<1> QED
  BY <1>1, <1>3, <1>4, <1>5 DEF StepForm, CrawlChanges, ParseStartUrl, JobReuses, JobFollows

LEMMA ResultsAreCachedStep ==
  ASSUME IInv, StepForm
  PROVE  ResultsAreCached'
<1> USE DEF IInv, ResultsAreCached, TypeOK
<1>1. CASE result' = result
  <2>1. \A j \in Job : result[j] # None => result[j].url \in Ad
    BY DEF Row
  <2> QED
    BY <1>1, <2>1, CacheGrows
<1>2. ASSUME NEW j \in Job, NEW row \in Row, Report(j, row), cache'[row.url] = row
      PROVE  ResultsAreCached'
  <2>1. \A k \in Job : result[k] # None => result[k].url \in Ad
    BY DEF Row
  <2>2. \A k \in Job : k # j => result'[k] = result[k]
    BY <1>2 DEF Report
  <2>3. result'[j] = row
    BY <1>2 DEF Report
  <2> QED
    BY <1>2, <2>1, <2>2, <2>3, CacheGrows
<1>3. ASSUME NEW j \in Job, JobReuses(j)
      PROVE  ResultsAreCached'
  <2>1. ad[j] \in Ad /\ cache[ad[j]] \in Row /\ cache[ad[j]].url = ad[j]
    BY <1>3 DEF JobReuses, JobsKnowTheirAd, RowsAreValuations
  <2> QED
    BY <1>2, <1>3, <2>1 DEF JobReuses
<1>4. ASSUME NEW j \in Job, NEW row \in Row, JobValues(j, row)
      PROVE  ResultsAreCached'
  <2>1. row.url \in Ad
    BY DEF Row
  <2>2. cache'[row.url] = row
    BY <1>4, <2>1 DEF JobValues, Store
  <2> QED
    BY <1>2, <1>4, <2>2 DEF JobValues
<1> QED
  BY <1>1, <1>3, <1>4
     DEF StepForm, CrawlChanges, ParseStartUrl, JobEnds, JobFollows, Aside, EndWithout,
         Follow, jobVars

-----------------------------------------------------------------------------
(* The tasks of a crawl.                                                   *)

\* The phase of a crawl as the tasks see it, before and after a step.
LEMMA PhaseValue ==
  ASSUME NEW c \in Crawl
  PROVE  /\ status[c] = "idle" => PhaseOf(c) = "new"
         /\ status[c] = "running" => PhaseOf(c) = "open"
         /\ status'[c] = "running" => PhaseOf(c)' = "open"
         /\ status'[c] = "closed" => PhaseOf(c)' = "closed"
         /\ status[c] \in {"blocked", "killed"} => PhaseOf(c) = "cut"
         /\ status'[c] \in {"blocked", "killed"} => PhaseOf(c)' = "cut"
BY DEF PhaseOf

\* A step that does nothing to a crawl's own variables does nothing to its tasks.
LEMMA OtherCrawl ==
  ASSUME NEW c \in Crawl, status'[c] = status[c], searching'[c] = searching[c],
         \A j \in Job : j[1] = c => stage'[j] = stage[j]
  PROVE  UNCHANGED TasksOf(c)!vars
<1>1. JobsMade(c)' = JobsMade(c) /\ JobsDue(c)' = JobsDue(c)
  BY DEF JobsMade, JobsDue, CrawlOf
<1>2. Made(c)' = Made(c) /\ Due(c)' = Due(c) /\ PhaseOf(c)' = PhaseOf(c)
  BY <1>1 DEF Made, Due, PhaseOf
<1> QED
  BY <1>2 DEF TasksOf!vars

\* Work on a task that is due, with the tasks it makes.
LEMMA WorkIsNext ==
  ASSUME NEW c \in Crawl, NEW t \in Due(c), NEW new,
         status[c] = "running", status'[c] = "running",
         new \subseteq (SearchTask(Search) \cup {"job"} \X Job) \ Made(c),
         Made(c)' = Made(c) \cup new, Due(c)' = (Due(c) \ {t}) \cup new
  PROVE  TasksOf(c)!Next
<1>1. PhaseOf(c) = "open" /\ PhaseOf(c)' = "open"
  BY PhaseValue
<1>2. TasksOf(c)!Work(t)
  BY <1>1 DEF TasksOf!Work
<1> QED
  BY <1>2 DEF TasksOf!Next

\* Work on a task that is due and makes none.
LEMMA DoneIsNext ==
  ASSUME NEW c \in Crawl, NEW t \in Due(c),
         status[c] = "running", status'[c] = "running",
         Made(c)' = Made(c), Due(c)' = Due(c) \ {t}
  PROVE  TasksOf(c)!Next
<1>1. Made(c)' = Made(c) \cup {} /\ Due(c)' = (Due(c) \ {t}) \cup {}
  OBVIOUS
<1> QED
  BY <1>1, WorkIsNext

\* A crawl is started, answered about a search, closed or killed.
LEMMA CrawlChangesTasks ==
  ASSUME IInv, CrawlChanges, NEW c \in Crawl
  PROVE  TasksOf(c)!Next \/ UNCHANGED TasksOf(c)!vars
<1> DEFINE goal == TasksOf(c)!Next \/ UNCHANGED TasksOf(c)!vars
<1>1. /\ status \in [Crawl -> {"idle", "running", "blocked", "closed", "killed"}]
      /\ searching \in [Crawl -> SUBSET Search]
  BY DEF IInv, TypeOK
<1>2. stage' = stage /\ JobsMade(c)' = JobsMade(c) /\ JobsDue(c)' = JobsDue(c)
  BY DEF CrawlChanges, jobVars, JobsMade, JobsDue
<1>3. ASSUME NEW d \in Crawl, status' = [status EXCEPT ![d] = "closed"],
             searching' = searching, NothingLeft(d)
      PROVE  goal
  <2>1. CASE d # c
    BY <1>1, <1>2, <1>3, <2>1, OtherCrawl
  <2>2. CASE d = c
    <3>1. JobsDue(c) = {}
      BY <1>3, <2>2 DEF NothingLeft, JobsDue, IInv, HungBlocks, CrawlOf
    <3>2. Due(c) = {}
      BY <1>3, <2>2, <3>1 DEF NothingLeft, Due, SearchTask
    <3>3. Due(c)' = Due(c)
      BY <1>2, <1>3 DEF Due
    <3>4. status[c] = "running" /\ status'[c] = "closed"
      BY <1>1, <1>3, <2>2 DEF NothingLeft
    <3>5. Made(c)' = Made(c)
      BY <1>2, <3>4 DEF Made
    <3> QED
      BY <3>2, <3>3, <3>4, <3>5, PhaseValue DEF TasksOf!Next, TasksOf!Close
  <2> QED
    BY <2>1, <2>2
<1>4. ASSUME NEW d \in Crawl, status' = [status EXCEPT ![d] = "killed"],
             searching' = searching, status[d] \in {"running", "blocked"}
      PROVE  goal
  <2>1. CASE d # c
    BY <1>1, <1>2, <1>4, <2>1, OtherCrawl
  <2>2. CASE d = c
    <3>1. status[c] \in {"running", "blocked"} /\ status'[c] = "killed"
      BY <1>1, <1>4, <2>2
    <3>2. Made(c)' = Made(c) /\ Due(c)' = Due(c)
      BY <1>2, <1>4, <3>1 DEF Made, Due
    <3> QED
      BY <3>1, <3>2, PhaseValue DEF TasksOf!Next, TasksOf!Cut, TasksOf!vars
  <2> QED
    BY <2>1, <2>2
<1>5. ASSUME NEW d \in Crawl, StartCrawl(d)
      PROVE  goal
  <2>1. CASE d # c
    BY <1>1, <1>2, <1>5, <2>1, OtherCrawl DEF StartCrawl
  <2>2. CASE d = c
    <3>1. JobsMade(c) = {} /\ JobsDue(c) = {}
      BY <1>5, <2>2 DEF StartCrawl, JobsMade, JobsDue, InFlight, IInv,
                        UnansweredHaveNoJobs, CrawlOf
    <3>2. status'[c] = "running" /\ searching'[c] = Search /\ status[c] = "idle"
      BY <1>1, <1>5, <2>2 DEF StartCrawl
    <3>3. Made(c)' = SearchTask(Search) /\ Due(c)' = SearchTask(Search)
      BY <1>2, <3>1, <3>2 DEF Made, Due, SearchTask
    <3> QED
      BY <3>2, <3>3, PhaseValue DEF TasksOf!Next, TasksOf!Open
  <2> QED
    BY <2>1, <2>2
<1>6. ASSUME NEW d \in Crawl, NEW s \in Search, status[d] = "running",
             s \in searching[d], status' = status,
             searching' = [searching EXCEPT ![d] = @ \ {s}]
      PROVE  goal
  <2>1. CASE d # c
    BY <1>1, <1>2, <1>6, <2>1, OtherCrawl
  <2>2. CASE d = c
    <3>1. Due(c)' = Due(c) \ {<<"search", s>>} /\ <<"search", s>> \in Due(c)
      <4>1. searching'[c] = searching[c] \ {s} /\ s \in searching[c]
        BY <1>1, <1>6, <2>2
      <4> QED
        BY <1>2, <4>1 DEF Due, SearchTask, JobsDue
    <3>2. Made(c)' = Made(c)
      BY <1>2, <1>6 DEF Made, SearchTask
    <3> QED
      BY <1>6, <2>2, <3>1, <3>2, DoneIsNext
  <2> QED
    BY <2>1, <2>2
<1> QED
  BY <1>3, <1>4, <1>5, <1>6 DEF CrawlChanges

\* A search page is answered: its task is done, and its ads are new tasks.
LEMMA ParseTasks ==
  ASSUME IInv, NEW c \in Crawl, NEW s \in Search, ParseStartUrl(c, s)
  PROVE  TasksOf(c)!Next
<1> PICK page \in SearchPage :
      stage' = [j \in Job |-> IF j[1] = c /\ j[2] = s /\ j[3] <= Len(CarsToCrawl(page))
                             THEN "ad" ELSE stage[j]]
  BY DEF ParseStartUrl
<1> DEFINE new == {"job"} \X {j \in Job : j[1] = c /\ j[2] = s
                                        /\ j[3] <= Len(CarsToCrawl(page))}
<1>1. \A j \in Job : stage'[j] = IF j[1] = c /\ j[2] = s /\ j[3] <= Len(CarsToCrawl(page))
                                 THEN "ad" ELSE stage[j]
  OBVIOUS
<1>2. \A j \in Job : j[1] = c /\ j[2] = s => stage[j] = "unused"
  BY DEF ParseStartUrl, IInv, UnansweredHaveNoJobs
<1>3. /\ JobsMade(c)' = JobsMade(c) \cup new
      /\ JobsDue(c)' = JobsDue(c) \cup new
  BY <1>1, <1>2 DEF JobsMade, JobsDue, InFlight, CrawlOf
<1>4. new \subseteq (SearchTask(Search) \cup {"job"} \X Job) \ Made(c)
  BY <1>2 DEF Made, SearchTask, JobsMade
<1>5. <<"search", s>> \notin new
  OBVIOUS
<1> HIDE DEF new
<1>6. /\ status[c] = "running" /\ status' = status
      /\ searching'[c] = searching[c] \ {s} /\ s \in searching[c]
  BY DEF ParseStartUrl, IInv, TypeOK
<1>7. Made(c)' = Made(c) \cup new
  BY <1>3, <1>6 DEF Made, SearchTask
<1>8. Due(c)' = (Due(c) \ {<<"search", s>>}) \cup new /\ <<"search", s>> \in Due(c)
  <2>1. SearchTask(searching'[c]) = SearchTask(searching[c]) \ {<<"search", s>>}
    BY <1>6 DEF SearchTask
  <2>2. <<"search", s>> \notin JobsDue(c) /\ <<"search", s>> \in SearchTask(searching[c])
    BY <1>6 DEF JobsDue, SearchTask
  <2>3. Due(c)' = SearchTask(searching'[c]) \cup JobsDue(c)'
    BY DEF Due, SearchTask
  <2> QED
    BY <1>3, <1>5, <2>1, <2>2, <2>3 DEF Due
<1> QED
  BY <1>4, <1>6, <1>7, <1>8, WorkIsNext

\* A callback of a job: the job is done, or goes on, or hangs and blocks its crawl.
LEMMA JobTasks ==
  ASSUME IInv, NEW j \in Job, NEW to, to # "unused", SameSearches(j),
         stage[j] \in InFlight, stage' = [stage EXCEPT ![j] = to],
         IF to = "hung" THEN status' = [status EXCEPT ![j[1]] = "blocked"]
                        ELSE status' = status,
         NEW c \in Crawl
  PROVE  TasksOf(c)!Next \/ UNCHANGED TasksOf(c)!vars
<1>1. /\ searching' = searching /\ status[j[1]] = "running"
      /\ \A i \in Job : stage'[i] = IF i = j THEN to ELSE stage[i]
  BY DEF SameSearches, IInv, TypeOK
<1>2. CASE j[1] # c
  <2>1. status'[c] = status[c]
    BY <1>2 DEF IInv, TypeOK
  <2> QED
    BY <1>1, <1>2, <2>1, OtherCrawl
<1>3. CASE j[1] = c
  <2>1. status'[c] = IF to = "hung" THEN "blocked" ELSE "running"
    BY <1>1, <1>3 DEF IInv, TypeOK
  <2>2. JobsMade(c)' = JobsMade(c)
    BY <1>1, <1>3 DEF JobsMade, InFlight, CrawlOf
  <2>3. Made(c)' = Made(c)
    BY <1>1, <1>3, <2>1, <2>2 DEF Made, SearchTask
  <2>4. <<"job", j>> \in JobsDue(c)
    BY <1>3 DEF JobsDue, CrawlOf
  <2>5. CASE to \in InFlight \cup {"hung"}
    <3>1. JobsDue(c)' = JobsDue(c)
      BY <1>1, <1>3, <2>5 DEF JobsDue, CrawlOf, InFlight
    <3>2. Due(c)' = Due(c)
      BY <1>1, <3>1 DEF Due, SearchTask
    <3> QED
      BY <1>1, <1>3, <2>1, <2>3, <3>2, PhaseValue
         DEF TasksOf!Next, TasksOf!Cut, TasksOf!vars
  <2>6. CASE to \notin InFlight \cup {"hung"}
    <3>1. JobsDue(c)' = JobsDue(c) \ {<<"job", j>>}
      BY <1>1, <1>3, <2>6 DEF JobsDue, CrawlOf, InFlight
    <3>2. <<"job", j>> \notin SearchTask(searching[c])
      BY DEF SearchTask
    <3>3. Due(c)' = Due(c) \ {<<"job", j>>} /\ <<"job", j>> \in Due(c)
      BY <1>1, <2>4, <3>1, <3>2 DEF Due, SearchTask
    <3> QED
      BY <1>1, <1>3, <2>1, <2>3, <2>6, <3>3, DoneIsNext
  <2> QED
    BY <2>5, <2>6
<1> QED
  BY <1>2, <1>3

LEMMA TasksStep ==
  ASSUME IInv, StepForm, NEW c \in Crawl
  PROVE  TasksOf(c)!Next \/ UNCHANGED TasksOf(c)!vars
<1> DEFINE goal == TasksOf(c)!Next \/ UNCHANGED TasksOf(c)!vars
<1>1. CASE CrawlChanges
  BY <1>1, CrawlChangesTasks
<1>2. ASSUME NEW d \in Crawl, NEW s \in Search, ParseStartUrl(d, s)
      PROVE  goal
  <2>1. CASE d = c
    BY <1>2, <2>1, ParseTasks
  <2>2. CASE d # c
    <3>1. status'[c] = status[c] /\ searching'[c] = searching[c]
      BY <1>2, <2>2 DEF ParseStartUrl, IInv, TypeOK
    <3>2. \A j \in Job : j[1] = c => stage'[j] = stage[j]
      BY <1>2, <2>2 DEF ParseStartUrl
    <3> QED
      BY <3>1, <3>2, OtherCrawl
  <2> QED
    BY <2>1, <2>2
<1>3. ASSUME NEW j \in Job, JobEnds(j)
      PROVE  goal
  <2> PICK how \in Stage \ (InFlight \cup {"unused", "reported"}) :
        /\ EndWithout(j, how)
        /\ IF how = "hung" THEN status' = [status EXCEPT ![j[1]] = "blocked"]
                           ELSE status' = status
    BY <1>3 DEF JobEnds
  <2> QED
    BY <1>3, JobTasks DEF JobEnds, EndWithout, End
<1>4. ASSUME NEW j \in Job, NEW to \in {"reported", "styles", "price"}, SameSearches(j),
             stage[j] \in InFlight, stage' = [stage EXCEPT ![j] = to], status' = status
      PROVE  goal
  BY <1>4, JobTasks
<1>5. \A j \in Job : JobReuses(j) \/ JobFollows(j) => goal
  BY <1>4 DEF JobReuses, JobFollows, Report, End, Follow, InFlight
<1>6. \A j \in Job, row \in Row : JobValues(j, row) => goal
  BY <1>4 DEF JobValues, Report, End, InFlight
<1>7. CASE Aside
  BY <1>7, OtherCrawl DEF Aside, jobVars
<1> QED
  BY <1>1, <1>2, <1>3, <1>5, <1>6, <1>7 DEF StepForm

-----------------------------------------------------------------------------
(* What changes a job takes it nearer to its end.                          *)

\* A job that a step changes, other than by a page of categories, has fewer
\* answers left to wait for.
LEMMA NeverGoesBackStep ==
  ASSUME IInv, StepForm, TypeOK', NEW j \in Job,
         ~ UNCHANGED <<stage[j], ad[j], item[j], result[j]>>
  PROVE  AnswersLeft(j)' < AnswersLeft(j)
<1>1. /\ stage \in [Job -> Stage] /\ ad \in [Job -> Ad \cup {None}]
      /\ item \in [Job -> Car \cup {None}]
      /\ result \in [Job -> Row \cup {None}]
      /\ stage' \in [Job -> Stage]
  BY DEF IInv, TypeOK
<1>2. AnswersLeft(j) =
        IF stage[j] = "unused" THEN 4
        ELSE IF stage[j] = "ad" THEN 3
        ELSE IF stage[j] = "styles" THEN 2
        ELSE IF stage[j] = "price" THEN 1 ELSE 0
  BY DEF AnswersLeft
<1>3. AnswersLeft(j)' =
        IF stage'[j] = "unused" THEN 4
        ELSE IF stage'[j] = "ad" THEN 3
        ELSE IF stage'[j] = "styles" THEN 2
        ELSE IF stage'[j] = "price" THEN 1 ELSE 0
  BY DEF AnswersLeft
<1>4. CASE \E c \in Crawl, s \in Search : ParseStartUrl(c, s)
  <2> PICK c \in Crawl, s \in Search : ParseStartUrl(c, s)
    BY <1>4
  <2>1. \/ UNCHANGED <<stage[j], ad[j], item[j], result[j]>>
        \/ stage'[j] = "ad" /\ j[1] = c /\ j[2] = s
    BY <1>1 DEF ParseStartUrl
  <2>2. stage'[j] = "ad" /\ stage[j] = "unused"
    BY <2>1 DEF ParseStartUrl, IInv, UnansweredHaveNoJobs
  <2> QED
    BY <1>2, <1>3, <2>2
<1>5. CASE JobEnds(j)
  <2>1. stage[j] \in InFlight /\ stage'[j] \notin InFlight \cup {"unused"}
    BY <1>1, <1>5 DEF JobEnds, EndWithout, End
  <2> QED
    BY <1>2, <1>3, <2>1 DEF InFlight
<1>6. CASE JobReuses(j) \/ \E row \in Row : JobValues(j, row)
  <2>1. stage[j] \in {"ad", "price"} /\ stage'[j] = "reported"
    BY <1>1, <1>6 DEF JobReuses, JobValues, Report, End
  <2> QED
    BY <1>2, <1>3, <2>1
<1>7. CASE JobFollows(j)
  <2>1. \/ stage[j] = "ad" /\ stage'[j] = "styles"
        \/ UNCHANGED <<stage[j], ad[j], item[j], result[j]>>
        \/ stage[j] = "styles" /\ stage'[j] = "price"
    BY <1>1, <1>7 DEF JobFollows, Follow
  <2> QED
    BY <1>2, <1>3, <2>1
<1>8. ASSUME NEW k \in Job, k # j,
             JobEnds(k) \/ JobReuses(k) \/ JobFollows(k) \/ \E row \in Row : JobValues(k, row)
      PROVE  UNCHANGED <<stage[j], ad[j], item[j], result[j]>>
  BY <1>1, <1>8 DEF JobEnds, JobReuses, JobFollows, JobValues, EndWithout, Report, End, Follow
<1> QED
  BY <1>4, <1>5, <1>6, <1>7, <1>8 DEF StepForm, CrawlChanges, Aside, jobVars

-----------------------------------------------------------------------------
(* Theorems.                                                               *)

\* The invariant holds in every state of every run of the crawlers.
THEOREM Invariance == Spec => []IInv
<1>1. IInv /\ [Next]_vars => IInv'
  <2> SUFFICES ASSUME IInv, [Next]_vars PROVE IInv'
    OBVIOUS
  <2>1. StepForm
    BY StepHasForm
  <2>2. TypeOK'
    BY <2>1, TypeStep
  <2>3. JobsKnowTheirAd'
    BY <2>1, <2>2, JobsKnowTheirAdStep
  <2>4. OnlyReportedHaveResults'
    BY <2>1, OnlyReportedHaveResultsStep
  <2>5. UnansweredHaveNoJobs'
    BY <2>1, UnansweredHaveNoJobsStep
  <2>6. RowsAreValuations'
    BY <2>1, RowsAreValuationsStep
  <2>7. ResultsAreCached'
    BY <2>1, ResultsAreCachedStep
  <2>8. HungBlocks'
    BY <2>1, HungBlocksStep
  <2> QED
    BY <2>2, <2>3, <2>4, <2>5, <2>6, <2>7, <2>8 DEF IInv
<1> QED
  BY <1>1, InitInv, PTL DEF Spec

\* Every variable keeps its shape.
THEOREM TypeCorrect == Spec => []TypeOK
BY Invariance, PTL DEF IInv

\* What any job of any crawl reports is, and stays, the cached row of the ad.
THEOREM Consistency == Spec => []ResultsAreCached
BY Invariance, PTL DEF IInv

\* Whatever is in the cache or on its way to it is a valuation of an ad, made for
\* a crawl that accepts the car.
THEOREM Validity == Spec => []RowsAreValuations
BY Invariance, PTL DEF IInv

\* A job that finds its url taken when KBB answers never reports.
THEOREM LateIsLost == Spec => LateValuationIsLost
<1> DEFINE Lost == \A j \in Job : stage[j] \in {"styles", "price"} /\ cache[ad[j]] # None
                                    => result'[j] = None
<1>1. IInv /\ [Next]_vars => [Lost]_vars
  <2> SUFFICES ASSUME IInv, [Next]_vars PROVE Lost
    OBVIOUS
  <2> SUFFICES ASSUME NEW j \in Job,
                      stage[j] \in {"styles", "price"}, cache[ad[j]] # None
               PROVE  result'[j] = None
    OBVIOUS
  <2>1. result[j] = None
    BY DEF IInv, OnlyReportedHaveResults
  <2>2. StepForm
    BY StepHasForm
  <2>3. CASE result' = result
    BY <2>1, <2>3
  <2>4. ASSUME NEW k \in Job, JobReuses(k)
        PROVE  result'[j] = None
    BY <2>1, <2>4 DEF JobReuses, Report, IInv, TypeOK
  <2>5. ASSUME NEW k \in Job, NEW row \in Row, JobValues(k, row)
        PROVE  result'[j] = None
    BY <2>1, <2>5 DEF JobValues, IsRowOf, Report, IInv, TypeOK
  <2> QED
    BY <2>2, <2>3, <2>4, <2>5
       DEF StepForm, CrawlChanges, ParseStartUrl, JobEnds, JobFollows, Aside, EndWithout,
           Follow, jobVars
<1> QED
  BY <1>1, Invariance, PTL DEF Spec, LateValuationIsLost

\* Whatever the number of crawls and ads, whatever changes a job takes it nearer
\* to its end, and nothing brings it back; pages of categories change nothing.
THEOREM OnlyCategoriesKeepJobs == Spec => JobsNeverGoBack
<1> DEFINE Nearer == \A j \in Job :
                       \/ UNCHANGED <<stage[j], ad[j], item[j], result[j]>>
                       \/ AnswersLeft(j)' < AnswersLeft(j)
<1>1. IInv /\ [Next]_vars => [Nearer]_vars
  BY StepHasForm, TypeStep, NeverGoesBackStep
<1> QED
  BY <1>1, Invariance, PTL DEF Spec, JobsNeverGoBack

\* Whichever crawls share the cache and whatever limits they have, a car beyond a
\* crawl's limit is reported by it only if the cache had it before: the crawl has
\* not valued it, and no call of its own or late one slips it in with the report.
THEOREM ExcessIsOfTheCache == Spec => ExcessMilesAreCached
<1> DEFINE Kept == \A j \in Job :
                     result[j] = None /\ result'[j] # None
                       => \/ result'[j].miles <= MaxMiles[CrawlOf(j)]
                          \/ cache[result'[j].url] = result'[j]
<1>1. IInv /\ [Next]_vars => [Kept]_vars
  <2> SUFFICES ASSUME IInv, [Next]_vars, NEW j \in Job, result[j] = None, result'[j] # None
               PROVE  \/ result'[j].miles <= MaxMiles[CrawlOf(j)]
                      \/ cache[result'[j].url] = result'[j]
    OBVIOUS
  <2>1. StepForm
    BY StepHasForm
  <2>2. ASSUME NEW k \in Job, JobReuses(k)
        PROVE  cache[result'[j].url] = result'[j]
    <3>1. ad[k] \in Ad /\ cache[ad[k]] # None
      BY <2>2 DEF JobReuses, IInv, JobsKnowTheirAd
    <3>2. cache[ad[k]].url = ad[k]
      BY <3>1 DEF IInv, RowsAreValuations
    <3>3. result'[j] = cache[ad[k]]
      BY <2>2 DEF JobReuses, Report, IInv, TypeOK
    <3> QED
      BY <3>2, <3>3
  <2>3. ASSUME NEW k \in Job, NEW row \in Row, JobValues(k, row)
        PROVE  result'[j].miles <= MaxMiles[CrawlOf(j)]
    <3>1. k = j /\ result'[j] = row
      BY <2>3 DEF JobValues, Report, IInv, TypeOK
    <3> QED
      BY <2>3, <3>1 DEF JobValues, IsRowOf, CrawlOf
  <2> QED
    BY <2>1, <2>2, <2>3
       DEF StepForm, CrawlChanges, ParseStartUrl, JobEnds, JobFollows, Aside, EndWithout,
           Follow, jobVars
<1> QED
  BY <1>1, Invariance, PTL DEF Spec, ExcessMilesAreCached

\* Whatever is known of a car states its percentage without overstating it, and
\* ranks it among the cars KBB prices the same as the asking prices do.
THEOREM PercentsAreHonest == Spec => []PercentsNeverOverstate
<1>1. IInv => PercentsNeverOverstate
  <2> SUFFICES ASSUME IInv, NEW row \in KnownRows PROVE
        /\ \/ 0 <= row.percent * row.kbb
              /\ row.percent * row.kbb <= 100 * (row.price - row.kbb)
              /\ 100 * (row.price - row.kbb) <= row.percent * row.kbb + row.kbb
           \/ 0 >= row.percent * row.kbb
              /\ row.percent * row.kbb >= 100 * (row.price - row.kbb)
              /\ 100 * (row.price - row.kbb) >= row.percent * row.kbb - row.kbb
        /\ \A dearer \in KnownRows :
             dearer.kbb = row.kbb /\ dearer.price > row.price
               => dearer.percent >= row.percent
    BY DEF PercentsNeverOverstate
  <2>1. \A r \in KnownRows : /\ r.price \in Nat /\ r.kbb \in Nat \ {0}
                             /\ r.percent \in PercentAbove(r.price, r.kbb)
    <3> TAKE r \in KnownRows
    <3>1. r \in Row
      BY DEF KnownRows, IInv, TypeOK
    <3>2. IsValuation(r)
      BY DEF KnownRows, IInv, RowsAreValuations
    <3> QED
      BY <3>1, <3>2 DEF Row, IsValuation
  <2> DEFINE n == 100 * (row.price - row.kbb)
  <2>2. /\ row.percent \in Int /\ n \in Int /\ row.kbb \in Nat
        /\ n >= 0 => /\ row.percent >= 0 /\ row.percent * row.kbb =< n
                     /\ n =< row.percent * row.kbb + row.kbb
        /\ n =< 0 => /\ row.percent =< 0 /\ n =< row.percent * row.kbb
                     /\ row.percent * row.kbb - row.kbb =< n
    BY <2>1, PercentBounds
  <2>3. \/ /\ 0 <= row.percent * row.kbb
           /\ row.percent * row.kbb <= n
           /\ n <= row.percent * row.kbb + row.kbb
        \/ /\ 0 >= row.percent * row.kbb
           /\ row.percent * row.kbb >= n
           /\ n >= row.percent * row.kbb - row.kbb
    <3> HIDE DEF n
    <3>1. CASE n >= 0
      BY <2>2, <3>1
    <3>2. CASE n =< 0
      BY <2>2, <3>2
    <3> QED
      BY <2>2, <3>1, <3>2
  <2>4. ASSUME NEW dearer \in KnownRows, dearer.kbb = row.kbb, dearer.price > row.price
        PROVE  dearer.percent >= row.percent
    <3>1. row.percent =< dearer.percent
      BY <2>1, <2>4, PercentRanks
    <3>2. dearer.percent \in Int
      BY <2>1, PercentBounds
    <3> QED
      BY <2>2, <3>1, <3>2
  <2> QED
    BY <2>3, <2>4
<1> QED
  BY <1>1, Invariance, PTL

\* Two crawls, or two searches of one, never report an ad differently, however
\* far apart in time they are.
THEOREM ReportsAgree ==
  Spec => [](\A i, k \in Job : result[i] # None /\ result[k] # None
                                 /\ result[i].url = result[k].url => result[i] = result[k])
<1>1. IInv => \A i, k \in Job : result[i] # None /\ result[k] # None
                                  /\ result[i].url = result[k].url => result[i] = result[k]
  BY DEF IInv, ResultsAreCached
<1> QED
  BY <1>1, Invariance, PTL

\* Every crawl, among any number of others, works off its searches and jobs.
THEOREM CrawlsImplementTasks == Spec => CrawlsWorkOffTasks
<1> DEFINE Works == \A c \in Crawl : [TasksOf(c)!Next]_(TasksOf(c)!vars)
<1>1. Init => \A c \in Crawl : TasksOf(c)!Init
  BY DEF Init, TasksOf!Init, PhaseOf, Made, Due, SearchTask, JobsDue, InFlight
<1>2. IInv /\ [Next]_vars => [Works]_vars
  BY StepHasForm, TasksStep
<1> QED
  BY <1>1, <1>2, Invariance, PTL DEF Spec, CrawlsWorkOffTasks

\* The crawlers implement the store of valuations: the initial states agree,
\* a row put is a valuation, a cache hit is a reuse, all else is a stutter.
THEOREM Implementation == Spec => Valued
<1>1. Init => Valuation!Init
  BY DEF Init, Valuation!Init
<1>2. IInv /\ [Next]_vars => [Valuation!Next]_(Valuation!vars)
  <2> SUFFICES ASSUME IInv, [Next]_vars
               PROVE  Valuation!Next \/ UNCHANGED Valuation!vars
    OBVIOUS
  <2>1. StepForm
    BY StepHasForm
  <2>2. CASE UNCHANGED <<cache, result>>
    BY <2>2 DEF Valuation!vars
  <2>3. ASSUME NEW j \in Job, JobReuses(j)
        PROVE  Valuation!Next
    <3>1. ad[j] \in Ad /\ result[j] = None
      BY <2>3 DEF JobReuses, IInv, JobsKnowTheirAd, OnlyReportedHaveResults
    <3>2. Valuation!Reuse(j, ad[j])
      BY <2>3, <3>1 DEF JobReuses, Report, Valuation!Reuse
    <3> QED
      BY <3>1, <3>2 DEF Valuation!Next
  <2>4. ASSUME NEW j \in Job, NEW row \in Row, JobValues(j, row)
        PROVE  Valuation!Next
    <3>1. result[j] = None
      BY <2>4 DEF JobValues, IInv, OnlyReportedHaveResults
    <3>2. Valuation!Learn(row)
      BY <2>4, <3>1 DEF JobValues, Store, Report, Valuation!Learn
    <3> QED
      BY <3>2 DEF Valuation!Next
  <2>5. ASSUME NEW row \in late, ServiceCreates(row)
        PROVE  Valuation!Next \/ UNCHANGED <<cache, result>>
    <3>1. row \in Row
      BY DEF IInv, TypeOK
    <3>2. Valuation!Learn(row) \/ UNCHANGED <<cache, result>>
      BY <2>5 DEF ServiceCreates, Store, jobVars, Valuation!Learn
    <3> QED
      BY <3>1, <3>2 DEF Valuation!Next
  <2>6. CASE Aside
    BY <2>2, <2>5, <2>6 DEF Aside, jobVars
  <2> QED
    BY <2>1, <2>2, <2>3, <2>4, <2>6
       DEF StepForm, CrawlChanges, ParseStartUrl, JobEnds, JobFollows, EndWithout, Follow,
           jobVars
<1> QED
  BY <1>1, <1>2, Invariance, PTL DEF Spec, Valued, Valuation!Spec
=============================================================================
