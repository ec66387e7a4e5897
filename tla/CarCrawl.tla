------------------------------ MODULE CarCrawl ------------------------------
(***************************************************************************)
(* The spider of craigslist_sample/spiders/test.py, as run by any number   *)
(* of concurrent invocations that share one GraphQL cache.                 *)
(*                                                                         *)
(* A crawl requests one craigslist search per make_model.  Each of the     *)
(* first PageLimit local ads of a search page becomes a job: the ad is     *)
(* requested, then, unless the cache knows the car, the KBB styles page,   *)
(* through any number of category pages, then the KBB price page.  A job   *)
(* has one request at a time outstanding and requests of different jobs    *)
(* are answered in any order.  A callback is one action: it runs on the    *)
(* reactor thread without interruption, the blocking call of the cache     *)
(* client included.  No request is filtered as a duplicate (dont_filter),  *)
(* so an ad that two searches list is two jobs.                            *)
(***************************************************************************)
EXTENDS Pricing, Sequences, FiniteSets

CONSTANTS
  Crawl,       \* invocations, each with a crawler process of its own
  Search,      \* the make_model entries of an invocation
  Ad,          \* urls of craigslist ads
  PageLimit,   \* how many ads of a search page are followed: cars[:30]
  SearchPage,  \* search pages: links, and how many precede the nearby areas
  Price,       \* asking prices
  Miles,       \* odometer readings
  KbbPrice,    \* KBB good-condition prices
  MaxMiles,    \* MaxMiles[c] is --max_miles of crawl c
  ExcessPrice, \* ExcessPrice[c] is --excess_price of crawl c
  None

Job == Crawl \X Search \X (1..PageLimit)
CrawlOf(j) == j[1]

NoMarker == -1

\* A request in flight, an end with no exception, an end by failure or exception
InFlight == {"ad", "styles", "price"}
Stage == {"unused", "skipped", "dropped", "unpriced", "reported",
          "adFailed", "kbbFailed", "adRaised", "raised", "hung"} \cup InFlight

Counter == {"parsed", "found", "dropped", "kbbParsed", "failures"}

\* The scrapy item before KBB has priced it, and after.
Car == [url : Ad, price : Price, miles : Miles]
Percent ==
  UNION {PercentAbove(price, kbb) : price \in Price, kbb \in KbbPrice \ {0}}
Row == [url : Ad, price : Price, miles : Miles,
        kbb : KbbPrice \ {0}, percent : Percent]

ASSUME CarCrawlAssumption ==
  /\ PageLimit \in Nat \ {0}
  /\ \A page \in SearchPage : /\ page.links \in Seq(Ad)
                              /\ page.nearby \in {NoMarker} \cup 0..Len(page.links)
  /\ Price \subseteq Nat
  /\ Miles \subseteq Nat
  /\ KbbPrice \subseteq Nat
  /\ MaxMiles \in [Crawl -> Nat]
  /\ ExcessPrice \in [Crawl -> 0..99]
  /\ None \notin Ad
  /\ None \notin Car
  /\ None \notin Row

ASSUME SearchAssumption == IsFiniteSet(Search)

VARIABLES
  status,     \* of the crawler process of each crawl
  searching,  \* the start urls of each crawl not answered yet
  stage,      \* the callback each job waits for, or how the job ended
  ad,         \* the ad each job is about
  item,       \* request.meta['item'] of each job
  hops,       \* KBB category pages followed by each job, modulo 2
  cache,      \* the Car rows of the GraphQL service, by their unique url
  late,       \* rows sent to the service in calls it may still act on
  result,     \* the item each job appended to RESULT
  stats       \* PARSED_NUM and the counters of MySpider

jobVars == <<stage, ad, item, hops, result>>
vars == <<status, searching, stage, ad, item, hops, cache, late, result, stats>>

Init ==
  /\ status = [c \in Crawl |-> "idle"]
  /\ searching = [c \in Crawl |-> {}]
  /\ stage = [j \in Job |-> "unused"]
  /\ ad = [j \in Job |-> None]
  /\ item = [j \in Job |-> None]
  /\ hops = [j \in Job |-> 0]
  /\ cache = [u \in Ad |-> None]
  /\ late = {}
  /\ result = [j \in Job |-> None]
  /\ stats = [c \in Crawl |-> [k \in Counter |-> 0]]

-----------------------------------------------------------------------------
(* What the callbacks share.                                               *)

\* A request of job j is outstanding and its crawler process can answer it.
Waits(j, at) == status[CrawlOf(j)] = "running" /\ stage[j] = at

Count(c, counters) ==
  stats' = [stats EXCEPT ![c] =
              [k \in Counter |-> IF k \in counters THEN stats[c][k] + 1
                                                   ELSE stats[c][k]]]

\* No further request is made for job j and its item goes out of reach.
End(j, how) ==
  /\ stage' = [stage EXCEPT ![j] = how]
  /\ ad' = [ad EXCEPT ![j] = None]
  /\ item' = [item EXCEPT ![j] = None]
  /\ hops' = [hops EXCEPT ![j] = 0]

EndWithout(j, how) == End(j, how) /\ UNCHANGED result

\* The item is yielded: scraped_handler appends it to RESULT.
Report(j, row) ==
  /\ End(j, "reported")
  /\ result' = [result EXCEPT ![j] = row]

\* The request is yielded with the item as its meta.
Follow(j, to, car, n) ==
  /\ stage' = [stage EXCEPT ![j] = to]
  /\ item' = [item EXCEPT ![j] = car]
  /\ hops' = [hops EXCEPT ![j] = n]
  /\ UNCHANGED <<ad, result>>

\* The local ads of a search page, without those of nearby areas.
LocalCars(page) ==
  IF page.nearby = NoMarker THEN page.links
                            ELSE SubSeq(page.links, 1, page.nearby)

CarsToCrawl(page) ==
  LET cars == LocalCars(page)
  IN  SubSeq(cars, 1, IF Len(cars) < PageLimit THEN Len(cars) ELSE PageLimit)

-----------------------------------------------------------------------------
(* A crawl and its search pages.                                           *)

StartCrawl(c) ==
  /\ status[c] = "idle"
  /\ status' = [status EXCEPT ![c] = "running"]
  /\ searching' = [searching EXCEPT ![c] = Search]
  /\ UNCHANGED <<jobVars, cache, late, stats>>

ParseStartUrl(c, s) ==
  /\ status[c] = "running"
  /\ s \in searching[c]
  /\ searching' = [searching EXCEPT ![c] = @ \ {s}]
  /\ \E page \in SearchPage :
       LET cars == CarsToCrawl(page)
           new(j) == j[1] = c /\ j[2] = s /\ j[3] <= Len(cars)
       IN  /\ stage' = [j \in Job |-> IF new(j) THEN "ad" ELSE stage[j]]
           /\ ad' = [j \in Job |-> IF new(j) THEN cars[j[3]] ELSE ad[j]]
  /\ UNCHANGED <<status, item, hops, cache, late, result, stats>>

\* A search whose download or parsing fails is only logged.
SearchFails(c, s) ==
  /\ status[c] = "running"
  /\ s \in searching[c]
  /\ searching' = [searching EXCEPT ![c] = @ \ {s}]
  /\ UNCHANGED <<status, jobVars, cache, late, stats>>

\* Mutant: the jobs that wait for KBB are forgotten when the crawl is closed.
CloseSpiderEarly(c) ==
  /\ status[c] = "running"
  /\ searching[c] = {}
  /\ \A j \in Job : CrawlOf(j) = c => stage[j] # "ad"
  /\ status' = [status EXCEPT ![c] = "closed"]
  /\ UNCHANGED <<searching, jobVars, cache, late, stats>>

\* The spider is idle: no request is outstanding.
CloseSpider(c) ==
  /\ status[c] = "running"
  /\ searching[c] = {}
  /\ \A j \in Job : CrawlOf(j) = c => stage[j] \notin InFlight
  /\ status' = [status EXCEPT ![c] = "closed"]
  /\ UNCHANGED <<searching, jobVars, cache, late, stats>>

\* The platform ends the invocation: its process dies, the cache remains.
Kill(c) ==
  /\ status[c] \in {"running", "blocked"}
  /\ status' = [status EXCEPT ![c] = "killed"]
  /\ UNCHANGED <<searching, jobVars, cache, late, stats>>

-----------------------------------------------------------------------------
(* parse_items: the page of an ad arrives.                                 *)

SameCrawls == UNCHANGED <<status, searching>>

NoPriceList(j) ==
  /\ Waits(j, "ad")
  /\ Count(CrawlOf(j), {"parsed"})
  /\ EndWithout(j, "skipped")
  /\ SameCrawls /\ UNCHANGED <<cache, late>>

\* A price that is no number, no picture, no attribute text.
AdPageRaises(j) ==
  /\ Waits(j, "ad")
  /\ Count(CrawlOf(j), {"parsed"})
  /\ EndWithout(j, "adRaised")
  /\ SameCrawls /\ UNCHANGED <<cache, late>>

\* Year, make, model or odometer is missing, or the odometer is too high.
DropCar(j) ==
  /\ Waits(j, "ad")
  /\ Count(CrawlOf(j), {"parsed", "dropped"})
  /\ EndWithout(j, "dropped")
  /\ SameCrawls /\ UNCHANGED <<cache, late>>

\* Mutant: the item built from the page is yielded, without aggregate_item.
FindCarUnaggregated(j, car) ==
  /\ Waits(j, "ad")
  /\ car.url = ad[j]
  /\ car.miles <= MaxMiles[CrawlOf(j)]
  /\ Count(CrawlOf(j), {"parsed", "found"})
  /\ IF cache[ad[j]] # None THEN Report(j, car) ELSE Follow(j, "styles", car, 0)
  /\ UNCHANGED <<status, searching, cache, late>>

\* Mutant: the test of the odometer against max_miles is lost.
FindCarOfAnyMiles(j, car) ==
  /\ Waits(j, "ad")
  /\ car.url = ad[j]
  /\ Count(CrawlOf(j), {"parsed", "found"})
  /\ IF cache[ad[j]] # None THEN Report(j, cache[ad[j]])
                            ELSE Follow(j, "styles", car, 0)
  /\ UNCHANGED <<status, searching, cache, late>>

\* The car matches; what follows depends on the cache.  The first disjunct
\* is also a car whose model or style find_kbb_model or find_style_by_desc
\* does not find among the make_model arguments.
FindCar(j, car) ==
  /\ Waits(j, "ad")
  /\ car.url = ad[j]
  /\ car.miles <= MaxMiles[CrawlOf(j)]
  /\ Count(CrawlOf(j), {"parsed", "found"})
  /\ \/ EndWithout(j, "raised")
     \/ cache[ad[j]] # None /\ Report(j, cache[ad[j]])
     \/ cache[ad[j]] = None /\ Follow(j, "styles", car, 0)
  /\ SameCrawls /\ UNCHANGED <<cache, late>>

-----------------------------------------------------------------------------
(* kbb_parse and kbb_final_parse: the KBB pages of a car arrive.           *)

\* Mutant: kbb_parsed is counted before the test for categories.
FollowCategoryCounted(j) ==
  /\ Waits(j, "styles")
  /\ Count(CrawlOf(j), {"kbbParsed"})
  /\ Follow(j, "styles", item[j], 1 - hops[j])
  /\ UNCHANGED <<status, searching, cache, late>>

\* Mutant: the category is asked for with parse_items as the callback.
FollowCategoryAsAd(j) ==
  /\ Waits(j, "styles")
  /\ Follow(j, "ad", item[j], 0)
  /\ UNCHANGED <<status, searching, cache, late, stats>>

\* kbb_parse on a page of categories asks for the first of them, which may be
\* another such page, and any number of times the same: nothing counts them.
FollowCategory(j) ==
  /\ Waits(j, "styles")
  /\ Follow(j, "styles", item[j], 1 - hops[j])
  /\ SameCrawls /\ UNCHANGED <<cache, late, stats>>

FollowStyle(j) ==
  /\ Waits(j, "styles")
  /\ Count(CrawlOf(j), {"kbbParsed"})
  /\ Follow(j, "price", item[j], 0)
  /\ SameCrawls /\ UNCHANGED <<cache, late>>

\* An unexpected page: no text in a style or title element.
StylesPageRaises(j) ==
  /\ Waits(j, "styles")
  /\ EndWithout(j, "raised")
  /\ SameCrawls /\ UNCHANGED <<cache, late, stats>>

\* Mutant: a page without a price is asked for again.
NoFinalPriceRetried(j) ==
  /\ Waits(j, "price")
  /\ Follow(j, "price", item[j], 1 - hops[j])
  /\ UNCHANGED <<status, searching, cache, late, stats>>

NoFinalPrice(j) ==
  /\ Waits(j, "price")
  /\ EndWithout(j, "unpriced")
  /\ SameCrawls /\ UNCHANGED <<cache, late, stats>>

\* The price is empty or zero: int() or the division raises.
FinalPriceRaises(j) ==
  /\ Waits(j, "price")
  /\ EndWithout(j, "raised")
  /\ SameCrawls /\ UNCHANGED <<cache, late, stats>>

Priced(car, kbb, percent) ==
  [url |-> car.url, price |-> car.price, miles |-> car.miles,
   kbb |-> kbb, percent |-> percent]

Store(row) == cache' = [cache EXCEPT ![row.url] = row]

\* Mutant: an exception of put_cache is caught and the item is yielded.
PutCacheIgnored(j, row) ==
  /\ Report(j, row)
  /\ IF cache[row.url] = None THEN Store(row) ELSE UNCHANGED cache
  /\ UNCHANGED late

\* Mutant: put_cache answers with the row it finds for the url.
PutCacheRereads(j, row) ==
  /\ IF cache[row.url] = None THEN Store(row) /\ Report(j, row)
                              ELSE UNCHANGED cache /\ Report(j, cache[row.url])
  /\ UNCHANGED late

\* put_cache returns when its createCar made the row.  It raises when the
\* service refuses the row, for it has one of that url, or cannot be reached,
\* and when no reply comes back from a service that may yet make the row.
PutCache(j, row) ==
  \/ cache[row.url] = None /\ Store(row) /\ Report(j, row) /\ UNCHANGED late
  \/ EndWithout(j, "raised") /\ late' \in {late, late \cup {row}} /\ UNCHANGED cache

\* Mutant: createCar replaces the row of the url.
ServiceReplaces(row) ==
  /\ row \in late
  /\ late' = late \ {row}
  /\ Store(row)
  /\ UNCHANGED <<status, searching, jobVars, stats>>

\* The service acts on a createCar whose caller has given up, is blocked or
\* is gone: it makes the row unless it has one of that url.
ServiceCreates(row) ==
  /\ row \in late
  /\ late' = late \ {row}
  /\ IF cache[row.url] = None THEN Store(row) ELSE UNCHANGED cache
  /\ UNCHANGED <<status, searching, jobVars, stats>>

FinalParse(j, kbb, percent) ==
  /\ Waits(j, "price")
  /\ kbb # 0
  /\ percent \in PercentAbove(item[j].price, kbb)
  /\ PutCache(j, Priced(item[j], kbb, percent))
  /\ SameCrawls /\ UNCHANGED stats

-----------------------------------------------------------------------------
(* Failures.                                                               *)

\* download_errback of an ad counts, then raises: craigs_url is None.
AdDownloadFails(j) ==
  /\ Waits(j, "ad")
  /\ Count(CrawlOf(j), {"failures"})
  /\ EndWithout(j, "adFailed")
  /\ SameCrawls /\ UNCHANGED <<cache, late>>

KbbDownloadFails(j) ==
  /\ Waits(j, "styles") \/ Waits(j, "price")
  /\ Count(CrawlOf(j), {"failures"})
  /\ EndWithout(j, "kbbFailed")
  /\ SameCrawls /\ UNCHANGED <<cache, late>>

\* The cache client has no timeout: a call that is never answered holds the
\* reactor thread, and with it every other job of the crawl.
LookupHangs(j) ==
  /\ Waits(j, "ad")
  /\ \E miles \in Miles : miles <= MaxMiles[CrawlOf(j)]
  /\ Count(CrawlOf(j), {"parsed", "found"})
  /\ EndWithout(j, "hung")
  /\ status' = [status EXCEPT ![CrawlOf(j)] = "blocked"]
  /\ UNCHANGED <<searching, cache, late>>

PutHangs(j, kbb, percent) ==
  /\ Waits(j, "price")
  /\ kbb # 0
  /\ percent \in PercentAbove(item[j].price, kbb)
  /\ EndWithout(j, "hung")
  /\ status' = [status EXCEPT ![CrawlOf(j)] = "blocked"]
  /\ late' \in {late, late \cup {Priced(item[j], kbb, percent)}}
  /\ UNCHANGED <<searching, cache, stats>>

-----------------------------------------------------------------------------
\* The percentages FinalParse can come to for a car of some price.
Percents(price, kbb) == IF kbb = 0 THEN {} ELSE PercentAbove(price, kbb)

AdAnswered(j) ==
  \/ NoPriceList(j) \/ AdPageRaises(j) \/ DropCar(j) \/ AdDownloadFails(j)
  \/ \E car \in Car : FindCar(j, car)

KbbAnswered(j) ==
  \/ FollowCategory(j) \/ FollowStyle(j) \/ StylesPageRaises(j)
  \/ NoFinalPrice(j) \/ FinalPriceRaises(j) \/ KbbDownloadFails(j)
  \/ /\ stage[j] = "price"
     /\ \E kbb \in KbbPrice :
          \E percent \in Percents(item[j].price, kbb) : FinalParse(j, kbb, percent)

Hangs(j) ==
  \/ LookupHangs(j)
  \/ /\ stage[j] = "price"
     /\ \E kbb \in KbbPrice :
          \E percent \in Percents(item[j].price, kbb) : PutHangs(j, kbb, percent)

CrawlStep(c) ==
  \/ StartCrawl(c) \/ CloseSpider(c) \/ Kill(c)
  \/ \E s \in Search : ParseStartUrl(c, s) \/ SearchFails(c, s)

Next ==
  \/ \E c \in Crawl : CrawlStep(c)
  \/ \E j \in Job : AdAnswered(j) \/ KbbAnswered(j) \/ Hangs(j)
  \/ \E row \in late : ServiceCreates(row)

Spec == Init /\ [][Next]_vars

(***************************************************************************)
(* Fairness.  scrapy answers every request: with a page, or with an error  *)
(* after DOWNLOAD_TIMEOUT, and nothing is retried.  The engine closes an   *)
(* idle spider.  A process that is blocked for good is killed: the         *)
(* platform's own timeout ends the invocation.                             *)
(***************************************************************************)
Answered(j) == AdAnswered(j) \/ KbbAnswered(j) \/ Hangs(j)

Fairness ==
  /\ \A c \in Crawl :
       /\ WF_vars(CloseSpider(c))
       /\ WF_vars(status[c] = "blocked" /\ Kill(c))
       /\ \A s \in Search : WF_vars(ParseStartUrl(c, s) \/ SearchFails(c, s))
  /\ \A j \in Job : WF_vars(Answered(j))

FairSpec == Spec /\ Fairness

-----------------------------------------------------------------------------
(* Properties.                                                             *)

\* Every variable keeps the shape the spider gives it.
TypeOK ==
  /\ status \in [Crawl -> {"idle", "running", "blocked", "closed", "killed"}]
  /\ searching \in [Crawl -> SUBSET Search]
  /\ stage \in [Job -> Stage]
  /\ ad \in [Job -> Ad \cup {None}]
  /\ item \in [Job -> Car \cup {None}]
  /\ hops \in [Job -> {0, 1}]
  /\ cache \in [Ad -> Row \cup {None}]
  /\ late \subseteq Row
  /\ result \in [Job -> Row \cup {None}]
  /\ stats \in [Crawl -> [Counter -> Nat]]

\* Whatever a crawl reports about an ad is, and remains, what the cache holds
\* for it: kbb_final_parse stores before it yields, no other crawl replaces
\* the row, and parse_items yields the row as the service returned it.
ResultsAreCached ==
  \A j \in Job : result[j] # None => cache[result[j].url] = result[j]

\* The percentage of a row is that of its own price against its own KBB price,
\* and a crawl that was started accepts its odometer.
IsValuation(row) ==
  /\ row.percent \in PercentAbove(row.price, row.kbb)
  /\ \E c \in Crawl : status[c] # "idle" /\ row.miles <= MaxMiles[c]

\* A row is filed under its own url, and nothing parse_items rejected is ever
\* valued, whichever jobs interleave and whenever the service acts.
RowsAreValuations ==
  /\ \A u \in Ad : cache[u] # None => cache[u].url = u /\ IsValuation(cache[u])
  /\ \A row \in late : IsValuation(row)

KnownRows == ({cache[u] : u \in Ad} \ {None}) \cup late

\* A percentage never overstates: it has the sign of the difference between the
\* two prices, and falls short of it by at most one, for all that truncation and
\* the steps in floating point do.  So, of cars KBB prices the same, the order
\* handler.py sorts by never puts a dearer one before a cheaper one.
PercentsNeverOverstate ==
  \A row \in KnownRows :
    LET stated == row.percent * row.kbb
        exact == 100 * (row.price - row.kbb)
    IN  /\ \/ 0 <= stated /\ stated <= exact /\ exact <= stated + row.kbb
           \/ 0 >= stated /\ stated >= exact /\ exact >= stated - row.kbb
        /\ \A dearer \in KnownRows :
             dearer.kbb = row.kbb /\ dearer.price > row.price
               => dearer.percent >= row.percent

JobsIn(c, stages) == Cardinality({j \in Job : CrawlOf(j) = c /\ stage[j] \in stages})

\* The spider's counters account for every ad request: each page is parsed
\* once and is found, dropped, skipped or raised on, each found car is still
\* awaited or ended in exactly one way, each failed download counted once.
CountersAddUp ==
  \A c \in Crawl :
    LET n == stats[c]
    IN  /\ n["parsed"] = n["found"] + n["dropped"] + JobsIn(c, {"skipped", "adRaised"})
        /\ n["dropped"] = JobsIn(c, {"dropped"})
        /\ n["found"] = JobsIn(c, {"styles", "price", "unpriced", "reported",
                                   "kbbFailed", "raised", "hung"})
        /\ n["failures"] = JobsIn(c, {"adFailed", "kbbFailed"})
        /\ JobsIn(c, {"price", "unpriced"}) <= n["kbbParsed"]
        /\ n["kbbParsed"] <= n["found"]

\* A report beyond the crawl's max_miles is only ever of a row that was in the
\* cache before the step that reports it, put there for another reading of the
\* odometer: what a crawl values itself is within its limit, to the last page.
ExcessMilesAreCached ==
  [][\A j \in Job :
       result[j] = None /\ result'[j] # None
         => \/ result'[j].miles <= MaxMiles[CrawlOf(j)]
            \/ cache[result'[j].url] = result'[j]]_vars

\* A car that another job values while this one waits for KBB is lost to this
\* job: put_cache raises on the url it finds taken, and nothing is yielded.
LateValuationIsLost ==
  [][\A j \in Job : stage[j] \in {"styles", "price"} /\ cache[ad[j]] # None
                      => result'[j] = None]_vars

\* The answers a job still waits for, pages of categories not counted: of the
\* ad, of the styles and of the price.
AnswersLeft(j) ==
  CASE stage[j] = "unused" -> 4
    [] stage[j] = "ad"     -> 3
    [] stage[j] = "styles" -> 2
    [] stage[j] = "price"  -> 1
    [] OTHER               -> 0

\* Whatever changes what a job waits for, knows or has reported leaves it fewer
\* answers to wait for, and so happens at most four times; nothing, of another
\* job, a crawl or the service, brings back a job that has ended.  The one
\* answer that takes a job no further is a page of categories: kbb_parse asks
\* for another page and keeps no count, so this alone ends no crawl.
JobsNeverGoBack ==
  [][\A j \in Job :
       \/ UNCHANGED <<stage[j], ad[j], item[j], result[j]>>
       \/ AnswersLeft(j)' < AnswersLeft(j)]_vars

\* The crawlers together implement the shared store of valuations.
Valuation == INSTANCE Valuations WITH store <- cache, report <- result, Reader <- Job

Valued == Valuation!Spec

\* The searches and jobs of a crawl, as tasks: those it has taken on, and those
\* not done.  A callback that hangs has not done its job.
SearchTask(S) == {"search"} \X S
JobsMade(c) == {"job"} \X {j \in Job : CrawlOf(j) = c /\ stage[j] # "unused"}
JobsDue(c) ==
  {"job"} \X {j \in Job : CrawlOf(j) = c /\ stage[j] \in InFlight \cup {"hung"}}

Made(c) == IF status[c] = "idle" THEN {} ELSE SearchTask(Search) \cup JobsMade(c)
Due(c) == SearchTask(searching[c]) \cup JobsDue(c)

PhaseOf(c) == [idle |-> "new", running |-> "open", closed |-> "closed",
               blocked |-> "cut", killed |-> "cut"][status[c]]

TasksOf(c) == INSTANCE Frontier WITH
  Task <- SearchTask(Search) \cup {"job"} \X Job, Start <- SearchTask(Search),
  phase <- PhaseOf(c), made <- Made(c), due <- Due(c)

\* Each crawl works off its searches and the ads they list, every ad once, and
\* is closed only when none is left, whatever the other crawls do: what it has
\* not come to has been cut short, not overlooked.
CrawlsWorkOffTasks ==
  /\ \A c \in Crawl : TasksOf(c)!Init
  /\ [][\A c \in Crawl : [TasksOf(c)!Next]_(TasksOf(c)!vars)]_vars

\* Every crawl comes to an end, whatever fails, and whoever else is blocked,
\* unless KBB leads one of its jobs from one page of categories to the next for
\* ever: nothing else can hold a crawl up, and nothing in kbb_parse stops that.
EveryCrawlEnds ==
  \A c \in Crawl :
    \/ \E j \in {i \in Job : CrawlOf(i) = c} : []<><<FollowCategory(j)>>_vars
    \/ (status[c] = "running") ~> (status[c] \in {"closed", "killed"})

-----------------------------------------------------------------------------
(* What the help texts of get_args in handler.py promise; the spider does  *)
(* not keep these promises, as the runs that expect a violation show.      *)

\* "The maximum percentage the craigslist price can exceed the kelley blue
\* book price": kbb_final_parse never compares, its test is commented out.
ExcessRespected ==
  \A j \in Job : result[j] # None => result[j].percent <= ExcessPrice[CrawlOf(j)]

\* "The maximum number of miles on the car": parse_items compares the reading
\* of the page, then yields the cached item, whose older reading may be higher.
MilesRespected ==
  \A j \in Job : result[j] # None => result[j].miles <= MaxMiles[CrawlOf(j)]
=============================================================================
